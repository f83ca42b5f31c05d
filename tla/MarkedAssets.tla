----------------------------- MODULE MarkedAssets ----------------------------
(***************************************************************************)
(* The assets marked on the Assets tab (media_server/assets.py,            *)
(* protected_assets.py): drawn on a clip's frame, which becomes the        *)
(* camera's reference frame, or on that frame.  Requests overlap: a frame  *)
(* is looked up before the lock when an asset is made, and with the lock   *)
(* held when one is changed.  The camera may be renamed meanwhile.         *)
(***************************************************************************)
EXTENDS Integers, FiniteSets

CONSTANTS Users, AssetNames, Places, FirstPlace, \* Places: names of the one camera
          MaxPerCamera, MaxRequests, MaxFailures
NoFrame == 0

VARIABLES assets,    \* the file: set of [id, camera, name, on]
          marked,    \* what the analyzer uses: [camera name -> set of <<id, name>>]
          frame,     \* [camera name -> the reference frame's number, or NoFrame]
          place,     \* the camera's name in Blink's list
          was,       \* the name it had before
          turn,      \* the renaming: idle, listed, moved
          asking,    \* [user -> the request under way]
          holder,    \* who holds the lock across a look-up, or "nobody"
          unsaved,   \* history: a write failed after the analyzer had the list
          frameless, \* history: an asset waited for the lock with no frame of its own, or its frame was lost
          mixed,     \* history: an asset was made or stored while a renaming was half done
          tally
assetVars == <<assets, marked, frame, place, was, turn, asking, holder, unsaved, frameless, mixed, tally>>
placeVars == <<place, was, turn>>

None == [op |-> "none", id |-> 0, camera |-> FirstPlace, name |-> "", frame |-> NoFrame]
Grouped(set) == [p \in Places |-> {<<a.id, a.name>> : a \in {b \in set : b.camera = p /\ b.on}}]
On(p, set) == {a \in set : a.camera = p}

Init ==
    /\ assets = {} /\ marked = Grouped({}) /\ frame = [p \in Places |-> NoFrame]
    /\ place = FirstPlace /\ was = FirstPlace /\ turn = "idle"
    /\ asking = [u \in Users |-> None] /\ holder = "nobody"
    /\ unsaved = FALSE /\ frameless = FALSE /\ mixed = FALSE /\ tally = [requests |-> 0, failures |-> 0]

-----------------------------------------------------------------------------

TakenName(set, p, name, id) == \E a \in On(p, set) : a.name = name /\ a.id # id

(* The analyzer has the list before the file does, and keeps it if the     *)
(* write fails.                                                            *)
Applied(set, ok) == marked' = Grouped(set)

Store(set, ok, new) ==
    /\ Applied(set, ok)
    /\ assets' = IF ok THEN set ELSE assets
    /\ unsaved' = ~ok
    /\ ok \/ tally.failures < MaxFailures
    /\ tally' = [tally EXCEPT !.requests = @ + new, !.failures = @ + IF ok THEN 0 ELSE 1]

Fresh == tally.requests + 1
Free(u) == asking' = [asking EXCEPT ![u] = None]
Nobody == holder' = "nobody"

(* With the last asset of a camera its frame goes.                         *)
FramesAfter(p, left) == IF On(p, left) = {} THEN [frame EXCEPT ![p] = NoFrame] ELSE frame

-----------------------------------------------------------------------------
Ask(u, request) ==
    /\ asking[u].op = "none" /\ tally.requests < MaxRequests
    /\ asking' = [asking EXCEPT ![u] = request]
    /\ tally' = [tally EXCEPT !.requests = @ + 1]
    /\ UNCHANGED <<assets, marked, frame, placeVars, holder, unsaved, frameless, mixed>>

AskCreateLater(u, request) ==
    /\ asking[u].op = "none" /\ tally.requests < MaxRequests
    /\ asking' = [asking EXCEPT ![u] = request]
    /\ tally' = [tally EXCEPT !.requests = @ + 1]
    /\ frameless' = TRUE
    /\ UNCHANGED <<assets, marked, frame, placeVars, holder, unsaved, mixed>>

(* A frame that cannot be written is done without.                         *)
Drawn(p, picture) ==
    IF picture = NoFrame THEN UNCHANGED <<frame, frameless>>
    ELSE \/ frame' = [frame EXCEPT ![p] = picture] /\ UNCHANGED frameless
         \/ UNCHANGED frame /\ frameless' = (frameless \/ frame[p] = NoFrame)

(* The list is read, checked and stored in one go.                         *)
Create(r, ok, new) ==
    /\ r.op = "create" /\ holder = "nobody"
    /\ UNCHANGED <<placeVars, holder>>
    /\ IF TakenName(assets, r.camera, r.name, r.id) \/ Cardinality(On(r.camera, assets)) >= MaxPerCamera
         THEN /\ ok /\ UNCHANGED <<assets, marked, frame, unsaved, frameless, mixed>>
              /\ tally' = [tally EXCEPT !.requests = @ + new]
       ELSE /\ Store(assets \cup {[id |-> r.id, camera |-> r.camera, name |-> r.name, on |-> TRUE]}, ok, new)
            /\ Drawn(r.camera, r.frame)
            /\ mixed' = (mixed \/ turn # "idle" \/ r.camera # place)

(* A new asset: on a clip's frame, looked up before the lock, or on the    *)
(* frame there is, which is made sure of before the lock too.              *)
NewAsset(p, name, picture) ==
    [op |-> "create", id |-> tally.requests + 1, camera |-> p, name |-> name, frame |-> picture]
AskCreate(u, p, name) ==
    p \in {place, was} /\ Ask(u, NewAsset(p, name, Fresh))
CreateOnFrame(u, p, name, ok) ==
    /\ p \in {place, was} /\ frame[p] # NoFrame
    /\ \/ holder # "nobody" /\ ok /\ AskCreateLater(u, NewAsset(p, name, NoFrame))
       \/ /\ asking[u].op = "none" /\ tally.requests < MaxRequests /\ UNCHANGED asking
          /\ Create(NewAsset(p, name, NoFrame), ok, 1)

AskDelete(u, a) ==
    a \in assets /\ Ask(u, [None EXCEPT !.op = "delete", !.id = a.id])

Delete(u, ok) ==
    LET gone == {a \in assets : a.id = asking[u].id}
        left == assets \ gone
    IN /\ asking[u].op = "delete" /\ holder = "nobody"
       /\ Free(u) /\ UNCHANGED <<placeVars, holder, frameless, mixed>>
       /\ IF gone = {} THEN UNCHANGED <<assets, marked, frame, unsaved, tally>>
          ELSE /\ Store(left, ok, 0)
               /\ frame' = IF ok THEN FramesAfter((CHOOSE a \in gone : TRUE).camera, left) ELSE frame

(* A change of name, or on and off; with a new frame the lock is held over *)
(* the look-up.                                                            *)
AskUpdate(u, a, name, clip) ==
    a \in assets /\ Ask(u, [op |-> "update", id |-> a.id, camera |-> a.camera, name |-> name,
                            frame |-> IF clip THEN Fresh ELSE NoFrame])

Changed(r) ==
    {IF a.id # r.id THEN a ELSE IF r.name = "" THEN [a EXCEPT !.on = ~@] ELSE [a EXCEPT !.name = r.name]
        : a \in assets}

Update(u, ok) ==
    LET r == asking[u]
        target == {a \in assets : a.id = r.id}
        p == IF target = {} THEN r.camera ELSE (CHOOSE a \in target : TRUE).camera
        refused == \/ target = {}
                   \/ r.name # "" /\ TakenName(assets, p, r.name, r.id)
    IN /\ r.op = "update" /\ UNCHANGED <<placeVars, mixed>>
       /\ \/ /\ holder = "nobody" /\ ~refused /\ r.frame # NoFrame /\ holder' = u
             /\ UNCHANGED <<assets, marked, frame, asking, unsaved, frameless, tally>>
          \/ /\ holder = "nobody" /\ refused /\ Free(u)
             /\ UNCHANGED <<assets, marked, frame, holder, unsaved, frameless, tally>>
          \/ /\ holder = u \/ (holder = "nobody" /\ ~refused /\ r.frame = NoFrame)
             /\ Store(Changed(r), ok, 0) /\ Free(u) /\ Nobody /\ Drawn(p, r.frame)

-----------------------------------------------------------------------------
Renamed(p) ==
    /\ turn = "idle" /\ p # place /\ place = FirstPlace
    /\ place' = p /\ was' = place /\ turn' = "listed"
    /\ UNCHANGED <<assets, marked, frame, asking, holder, unsaved, frameless, mixed, tally>>

(* The analyzer's own list first.                                          *)
MoveMarked ==
    /\ turn = "listed" /\ turn' = "moved"
    /\ marked' = [marked EXCEPT ![place] = @ \cup marked[was], ![was] = {}]
    /\ UNCHANGED <<place, was, assets, frame, asking, holder, unsaved, frameless, mixed, tally>>

MovedAssets == {[a EXCEPT !.camera = IF @ = was THEN place ELSE @] : a \in assets}

(* Then the file, in the lock, and the frame unless there is one.          *)
MoveAssets(ok) ==
    /\ turn = "moved" /\ holder = "nobody"
    /\ turn' = IF ok THEN "idle" ELSE "listed"
    /\ IF ~ok \/ On(was, assets) = {} THEN UNCHANGED <<assets, marked, unsaved>>
       ELSE assets' = MovedAssets /\ marked' = Grouped(MovedAssets) /\ unsaved' = FALSE
    /\ frame' = IF ok THEN [frame EXCEPT ![was] = NoFrame,
                                         ![place] = IF @ = NoFrame THEN frame[was] ELSE @]
                ELSE frame
    /\ IF ok THEN UNCHANGED tally
       ELSE tally.failures < MaxFailures /\ tally' = [tally EXCEPT !.failures = @ + 1]
    /\ UNCHANGED <<place, was, asking, holder, frameless, mixed>>

(* The clip is not there, is another camera's, or has no picture: nothing  *)
(* is made or changed, and the lock is given back.                         *)
NoPicture(u) ==
    /\ \/ asking[u].op = "create" /\ asking[u].frame # NoFrame /\ UNCHANGED holder
       \/ asking[u].op = "update" /\ holder = u /\ Nobody
    /\ Free(u) /\ UNCHANGED <<assets, marked, frame, placeVars, unsaved, frameless, mixed, tally>>

Next ==
    \/ \E u \in Users, ok \in BOOLEAN : Delete(u, ok) \/ Update(u, ok) \/ (Create(asking[u], ok, 0) /\ Free(u))
    \/ \E u \in Users : NoPicture(u)
    \/ \E u \in Users, p \in Places, name \in AssetNames :
          AskCreate(u, p, name) \/ \E ok \in BOOLEAN : CreateOnFrame(u, p, name, ok)
    \/ \E u \in Users, a \in assets : AskDelete(u, a)
    \/ \E u \in Users, a \in assets, name \in AssetNames \cup {""}, clip \in BOOLEAN : AskUpdate(u, a, name, clip)
    \/ \E p \in Places : Renamed(p)
    \/ MoveMarked \/ \E ok \in BOOLEAN : MoveAssets(ok)

Spec == Init /\ [][Next]_assetVars

-----------------------------------------------------------------------------
AssetsTypeOK ==
    /\ \A a \in assets : a.camera \in Places /\ a.name \in AssetNames /\ a.on \in BOOLEAN
    /\ \A a, b \in assets : a.id = b.id => a = b
    /\ holder \in Users => asking[holder].op = "update"

(* Whatever overlaps, no camera gets two assets of one name or more assets *)
(* than it may carry, before and after a renaming.                         *)
NamesStayApart ==
    ~mixed => \A p \in Places :
        /\ \A a, b \in On(p, assets) : a.name = b.name => a = b
        /\ Cardinality(On(p, assets)) <= MaxPerCamera

(* Unless a write failed, the analyzer watches exactly the assets that are *)
(* on in the file, each under its camera's present name.                   *)
AnalyzerWatchesFile == turn = "idle" /\ ~unsaved => marked = Grouped(assets)

(* An asset always has a reference frame of its camera to be shown on, and *)
(* a frame goes with the last asset drawn on it.                           *)
FramesFitAssets ==
    turn = "idle" /\ ~mixed /\ ~frameless =>
        \A p \in Places :
            /\ On(p, assets) # {} => frame[p] # NoFrame
            /\ tally.failures = 0 /\ frame[p] # NoFrame => On(p, assets) # {}

(* What these rest on.  An asset has the number of the request that asked  *)
(* for it, and while somebody holds the lock the assets stay as they were  *)
(* when its request was found good.                                        *)
AssetRecords == [id : Nat, camera : Places, name : AssetNames, on : BOOLEAN]
RequestRecords ==
    [op : {"none", "create", "update", "delete"}, id : Nat, camera : Places, name : AssetNames \cup {""}, frame : Nat]
AssetsShape ==
    /\ place \in Places /\ was \in Places /\ turn \in {"idle", "listed", "moved"}
    /\ turn # "idle" => place # was
    /\ assets \subseteq AssetRecords /\ IsFiniteSet(assets) /\ frame \in [Places -> Nat]
    /\ asking \in [Users -> RequestRecords] /\ holder \in Users \cup {"nobody"}
    /\ \A u \in Users : asking[u].op = "create" => asking[u].name \in AssetNames
    /\ tally \in [requests : Nat, failures : Nat]
    /\ \A a \in assets : a.id <= tally.requests
    /\ \A u \in Users : asking[u].id <= tally.requests

NumbersApart ==
    /\ \A a, b \in assets : a.id = b.id => a = b
    /\ \A u \in Users : asking[u].op = "create" =>
          /\ \A a \in assets : a.id # asking[u].id
          /\ \A v \in Users : asking[v].op = "create" /\ asking[v].id = asking[u].id => u = v

HeldIsGood ==
    holder \in Users =>
        LET r == asking[holder] IN
        /\ r.op = "update"
        /\ \E a \in assets : a.id = r.id /\ (r.name # "" => ~TakenName(assets, a.camera, r.name, r.id))

(* Unless something was stored in the middle of a renaming, all assets are *)
(* where the camera's were when it began, and its frame is there too.      *)
Home == IF turn = "idle" THEN place ELSE was
AllAtHome ==
    ~mixed =>
        /\ \A a \in assets : a.camera = Home
        /\ \A a, b \in assets : a.name = b.name => a = b
        /\ Cardinality(assets) <= MaxPerCamera

FrameAtHome ==
    /\ \A u \in Users : asking[u].op = "create" /\ asking[u].frame = NoFrame => frameless
    /\ ~mixed /\ ~frameless =>
          /\ assets # {} => frame[Home] # NoFrame
          /\ tally.failures = 0 => \A p \in Places : frame[p] # NoFrame => p = Home /\ assets # {}

(* What the analyzer has in the middle of a renaming is one of two lists.  *)
Carried(list) == [list EXCEPT ![place] = @ \cup list[was], ![was] = {}]
MarkedFollows ==
    ~unsaved => \/ marked = Grouped(assets)
                \/ turn # "idle" /\ marked = Carried(Grouped(assets))

IInv == AssetsShape /\ NumbersApart /\ HeldIsGood /\ AllAtHome /\ FrameAtHome /\ MarkedFollows
=============================================================================
