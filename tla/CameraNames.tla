----------------------------- MODULE CameraNames ----------------------------
(***************************************************************************)
(* Cameras that change their names in the Blink app.  A topology refresh   *)
(* (downloader.py) rebuilds blinkpy's maps, compares the stable identities *)
(* behind the names with those of the previous map and of the identities   *)
(* file, and has the application (app.py) move what is kept under a name:  *)
(* stored rows and learned baselines (database/cameras.py), options, and   *)
(* the aliases that redirect an option's old name after a restart.         *)
(*                                                                         *)
(* All cameras hang on one sync module, which may be offline.  Names that  *)
(* differ in capitals only are one name here.                              *)
(***************************************************************************)
EXTENDS Integers, FiniteSets, Functions

CONSTANTS Cameras, Names,
          FirstName, \* [Cameras -> Names]: the names the options were written with
          MaxRenames, MaxClips, MaxFailures, MaxRestarts
NoName == "no name"
NoAlias == "no alias"

VARIABLES called,     \* [camera -> its name at Blink]
          online,     \* Blink reports the sync module as available
          previous,   \* [camera -> name in the last finished map, or NoName]
          report,     \* Blink's answer to the rebuild: [camera -> name, or NoName]
          step,       \* idle, rebuilding, migrating
          known,      \* [camera -> name in the identities file, or NoName]
          renames, replacements,               \* left to do in this refresh
          pendingRenames, pendingReplacements, \* failed, kept for the next one
          rows,       \* stored clips: <<camera that filmed it, name it is filed under>>
          learned,    \* [name -> the camera its baseline describes, or NoName]
          option,     \* [camera -> the name its option holds in memory]
          aliases, aliasFile, \* [name -> its new name, or NoAlias]
          owners,     \* history: [name -> who took it: <<camera, which renaming>>]
          mapped,     \* history: the <<camera, name>> a map has held since the start
          disturbed,  \* history: a step failed, or the program was stopped before the end
          counts      \* .tangled: times the identities file or a retry fell behind
nameVars == <<called, online, previous, report, step, known, renames, replacements,
              pendingRenames, pendingReplacements, rows, learned, option, aliases, aliasFile,
              owners, mapped, disturbed, counts>>
blinkVars == <<called, online, owners>>
mapVars == <<previous, report, known, mapped>>
todoVars == <<renames, replacements, pendingRenames, pendingReplacements>>
storeVars == <<rows, learned, option, aliases, aliasFile>>

Counted(k) == counts' = [counts EXCEPT ![k] = @ + 1]
Carried == [c \in Cameras |-> IF online THEN called[c] ELSE NoName]

Init ==
    /\ called = FirstName /\ online = TRUE
    /\ previous = FirstName /\ known = FirstName
    /\ report = [c \in Cameras |-> NoName] /\ step = "idle"
    /\ renames = {} /\ replacements = {} /\ pendingRenames = {} /\ pendingReplacements = {}
    /\ rows = {<<c, FirstName[c]>> : c \in Cameras}
    /\ learned = [n \in Names |-> IF \E c \in Cameras : FirstName[c] = n
                                    THEN CHOOSE c \in Cameras : FirstName[c] = n ELSE NoName]
    /\ option = FirstName
    /\ aliases = [n \in Names |-> NoAlias] /\ aliasFile = aliases
    /\ owners = [n \in Names |-> {<<c, 0>> : c \in {d \in Cameras : FirstName[d] = n}}]
    /\ mapped = rows /\ disturbed = FALSE
    /\ counts = [renames |-> 0, clips |-> 0, failures |-> 0, restarts |-> 0, tangled |-> 0]

-----------------------------------------------------------------------------
(* Blink: no two cameras share a name.                                     *)
RenameAtBlink(c, n) ==
    /\ counts.renames < MaxRenames /\ n \notin Range(called)
    /\ called' = [called EXCEPT ![c] = n]
    /\ owners' = [owners EXCEPT ![n] = @ \cup {<<c, counts.renames + 1>>}]
    /\ Counted("renames")
    /\ UNCHANGED <<online, mapVars, step, todoVars, storeVars, disturbed>>

GoOffline ==
    /\ online' = ~online /\ (online => counts.failures < MaxFailures)
    /\ IF online THEN Counted("failures") ELSE UNCHANGED counts
    /\ UNCHANGED <<called, owners, mapVars, step, todoVars, storeVars, disturbed>>

(* A clip is filed under the name its camera has when it is filmed.        *)
StoreClip(c) ==
    /\ counts.clips < MaxClips /\ online
    /\ rows' = rows \cup {<<c, called[c]>>}
    /\ Counted("clips")
    /\ UNCHANGED <<blinkVars, mapVars, step, todoVars, learned, option, aliases, aliasFile, disturbed>>

-----------------------------------------------------------------------------
(* A rebuild asks Blink once; readers fall back to the previous maps while *)
(* it goes on.                                                             *)
BeginRebuild ==
    /\ step = "idle"
    /\ step' = "rebuilding"
    /\ report' = Carried
    /\ UNCHANGED <<blinkVars, previous, known, mapped, todoVars, storeVars, disturbed, counts>>

(* Blink's answer was of no use: the previous maps come back.              *)
FailRebuild ==
    /\ step = "rebuilding" /\ counts.failures < MaxFailures
    /\ step' = "idle"
    /\ report' = [c \in Cameras |-> NoName]
    /\ Counted("failures")
    /\ UNCHANGED <<blinkVars, previous, known, mapped, todoVars, storeVars, disturbed>>

(* The cameras of a module that is offline stay under the names they had.  *)
Retained(map) ==
    [c \in Cameras |->
        IF map[c] = NoName /\ previous[c] \notin Range(map) THEN previous[c] ELSE map[c]]

(* A camera is found by its identity, in the previous map or in the file;  *)
(* a name another camera carries now is not looked up any further.         *)
RenamesFrom(now) ==
    pendingRenames
      \cup {<<previous[c], now[c]>> : c \in {d \in Cameras : NoName \notin {previous[d], now[d]}
                                                              /\ previous[d] # now[d]}}
      \cup {<<known[c], now[c]>> : c \in {d \in Cameras : NoName \notin {known[d], now[d]}
                                                           /\ known[d] \notin Range(now)}}
NewOwner(old, now) ==
    {n \in Range(now) \ {NoName} : \E c, d \in Cameras : c # d /\ old[c] = n /\ now[d] = n}
ReplacementsFrom(now) == pendingReplacements \cup NewOwner(previous, now) \cup NewOwner(known, now)

(* A rename to be retried, and its camera has the next name already: the   *)
(* two may run in either order, by the alphabet.                           *)
Overtaken(now) == \E r \in pendingRenames : r[2] \notin Range(now)

FinishRebuild ==
    /\ step = "rebuilding"
    /\ LET now == Retained(report)
       IN /\ renames' = RenamesFrom(now)
          /\ replacements' = ReplacementsFrom(now)
          /\ previous' = now
          /\ mapped' = mapped \cup {<<c, now[c]>> : c \in Cameras}
          /\ counts' = [counts EXCEPT !.tangled = @ + IF Overtaken(now) THEN 1 ELSE 0]
    /\ step' = "migrating"
    /\ UNCHANGED <<blinkVars, report, known, pendingRenames, pendingReplacements, storeVars, disturbed>>

(* A camera leaves a name before another moves into it, if that can be.    *)
NextRenames ==
    LET free == {r \in renames : \A other \in renames : other[1] # r[2]}
    IN IF free # {} THEN free ELSE renames

Outstanding(r, outcome) ==
    IF outcome = "ok" THEN pendingRenames \ {r} ELSE pendingRenames \cup {r}

(* Every row under the old name moves; of two baselines, the one with more *)
(* samples is kept, and neither is known here.                             *)
MoveRows(old, new) == rows' = {IF row[2] = old THEN <<row[1], new>> ELSE row : row \in rows}
MoveLearned(old, new) ==
    \E kept \in IF {learned[old], learned[new]} = {NoName} THEN {NoName}
                ELSE {learned[old], learned[new]} \ {NoName} :
        learned' = [learned EXCEPT ![old] = NoName, ![new] = kept]

MoveOption(old, new) == option' = [c \in Cameras |-> IF option[c] = old THEN new ELSE option[c]]

(* A name that is taken is no alias any more, and aliases of the old name  *)
(* point to the new one.                                                   *)
Redirected(old, new) ==
    [n \in Names |-> IF n = old THEN new
                     ELSE IF n = new THEN NoAlias
                     ELSE IF aliases[n] = old THEN new ELSE aliases[n]]

(* The handler fails early, at the rows; when they have moved, at one of   *)
(* the settings files; or late, when the aliases are written.              *)
MigrateRename(r, outcome) ==
    /\ step = "migrating" /\ r \in NextRenames
    /\ renames' = renames \ {r}
    /\ pendingRenames' = Outstanding(r, outcome)
    /\ IF outcome = "early" THEN UNCHANGED storeVars
       ELSE /\ MoveRows(r[1], r[2]) /\ MoveLearned(r[1], r[2])
            /\ IF outcome = "half" THEN UNCHANGED <<option, aliases, aliasFile>>
               ELSE /\ MoveOption(r[1], r[2])
                    /\ aliases' = Redirected(r[1], r[2])
                    /\ aliasFile' = IF outcome = "ok" THEN aliases' ELSE aliasFile
    /\ IF outcome = "ok" THEN UNCHANGED <<counts, disturbed>>
       ELSE counts.failures < MaxFailures /\ Counted("failures") /\ disturbed' = TRUE
    /\ UNCHANGED <<blinkVars, mapVars, step, replacements, pendingReplacements>>

(* New hardware under an old name: its baselines are dropped, table by     *)
(* table.                                                                  *)
MigrateReplacement(n, ok) ==
    /\ step = "migrating" /\ renames = {} /\ n \in replacements
    /\ replacements' = replacements \ {n}
    /\ IF ok THEN /\ learned' = [learned EXCEPT ![n] = NoName]
                  /\ pendingReplacements' = pendingReplacements \ {n}
                  /\ UNCHANGED <<counts, disturbed>>
       ELSE /\ counts.failures < MaxFailures /\ Counted("failures") /\ disturbed' = TRUE
            /\ pendingReplacements' = pendingReplacements \cup {n}
            /\ learned' \in {learned, [learned EXCEPT ![n] = NoName]}
    /\ UNCHANGED <<blinkVars, mapVars, step, renames, pendingRenames, rows, option, aliases, aliasFile>>

\* Mutant: the identities are saved whatever is left to do.
SaveRegardless(ok) == IF ok THEN previous ELSE known

(* The file is not written while a migration is outstanding.               *)
SavedIdentities(ok) ==
    IF ok /\ pendingRenames = {} /\ pendingReplacements = {} THEN previous ELSE known

(* After a start with the module away, the saved file forgets its cameras. *)
Loses(old, new) == \E c \in Cameras : old[c] # NoName /\ new[c] = NoName

FinishRefresh(ok) ==
    /\ step = "migrating" /\ renames = {} /\ replacements = {}
    /\ known' = SavedIdentities(ok)
    /\ step' = "idle"
    /\ IF ok THEN /\ counts' = [counts EXCEPT !.tangled = @ + IF Loses(known, known') THEN 1 ELSE 0]
                  /\ UNCHANGED disturbed
       ELSE counts.failures < MaxFailures /\ Counted("failures") /\ disturbed' = TRUE
    /\ UNCHANGED <<blinkVars, previous, report, mapped, todoVars, storeVars>>

Resolve(n) ==
    LET follow[m \in Names, seen \in SUBSET Names] ==
            IF aliasFile[m] = NoAlias \/ m \in seen THEN m ELSE follow[aliasFile[m], seen \cup {m}]
    IN follow[n, {}]

StartClean ==
    /\ step' = "idle" /\ renames' = {} /\ replacements' = {}
    /\ pendingRenames' = {} /\ pendingReplacements' = {}

(* Stopped when clips are filed, or the aliases lead, to neither the name  *)
(* on file nor the one that the next start finds.                          *)
LosesTrack ==
    \E kept \in (rows \cap mapped) \cup {<<c, Resolve(FirstName[c])>> : c \in Cameras} :
        kept[2] \notin {known[kept[1]], Carried[kept[1]]}

(* A restart reads the files again; blinkpy's first map is what Blink says.*)
Restart ==
    /\ counts.restarts < MaxRestarts
    /\ previous' = Carried
    /\ mapped' = UNION {{<<c, known[c]>>, <<c, Carried[c]>>} : c \in Cameras}
    /\ report' = [c \in Cameras |-> NoName] /\ StartClean
    /\ option' = [c \in Cameras |-> Resolve(FirstName[c])]
    /\ aliases' = aliasFile
    /\ disturbed' = (disturbed \/ step # "idle" \/ known # Carried)
    /\ counts' = [counts EXCEPT !.restarts = @ + 1,
                              !.tangled = @ + IF LosesTrack THEN 1 ELSE 0]
    /\ UNCHANGED <<blinkVars, known, rows, learned, aliasFile>>

Refreshing ==
    \/ BeginRebuild \/ FinishRebuild \/ FinishRefresh(TRUE)
    \/ \E r \in renames : MigrateRename(r, "ok")
    \/ \E n \in replacements : MigrateReplacement(n, TRUE)
Next ==
    \/ Refreshing
    \/ \E c \in Cameras : StoreClip(c) \/ \E n \in Names : RenameAtBlink(c, n)
    \/ GoOffline \/ FailRebuild \/ FinishRefresh(FALSE) \/ Restart
    \/ \E r \in renames, outcome \in {"early", "half", "late"} : MigrateRename(r, outcome)
    \/ \E n \in replacements : MigrateReplacement(n, FALSE)

Spec == Init /\ [][Next]_nameVars

(* The refresh runs every five minutes and Blink answers in the end.       *)
NameFairness == WF_nameVars(Refreshing) /\ WF_nameVars(~online /\ GoOffline)
FairSpec == Spec /\ NameFairness

-----------------------------------------------------------------------------
(* Everything Blink says has been taken in.                                *)
Settled == step = "idle" /\ known = called /\ previous = called
TakenOnce(n) == Cardinality(owners[n]) <= 1
NoNameIsReused == \A n \in Names : TakenOnce(n)

NamesTypeOK ==
    /\ called \in [Cameras -> Names] /\ known \in [Cameras -> Names \cup {NoName}]
    /\ previous \in [Cameras -> Names \cup {NoName}]
    /\ rows \subseteq Cameras \X Names /\ learned \in [Names -> Cameras \cup {NoName}]
    /\ aliases \in [Names -> Names \cup {NoAlias}] /\ option \in [Cameras -> Names]
    /\ step = "idle" => renames = {} /\ replacements = {}

(* Whatever failed and whenever the program was restarted: as long as no   *)
(* name is taken a second time and nothing got tangled (the identities     *)
(* saved without a camera, a start that finds neither the name on file nor *)
(* the one the clips moved to, a retried rename overtaken by the next),    *)
(* every clip filed under a name that a map has held ends up under its     *)
(* camera's name, and every option with it.                                *)
HistoryFollowsItsCamera ==
    Settled /\ NoNameIsReused /\ counts.tangled = 0 =>
        /\ \A row \in rows \cap mapped : row[2] = called[row[1]]
        /\ \A c \in Cameras : option[c] = called[c]

(* A name that passes on within one refresh does not mix up what was       *)
(* stored before: who leaves it moves first.                               *)
ChainsKeepOldClipsApart ==
    Settled /\ ~disturbed /\ counts.clips = 0 /\ counts.renames = 2 =>
        \A row \in rows : row[2] = called[row[1]]

(* An option still written with a name that nobody else ever carried       *)
(* reaches its camera after the next start, however often it was renamed   *)
(* and whichever migration had to be repeated.                             *)
AliasesLeadHome ==
    \A c \in Cameras :
        Settled /\ counts.tangled = 0 /\ (\A n \in Names : (\E o \in owners[n] : o[1] = c) => TakenOnce(n)) =>
            Resolve(FirstName[c]) = called[c]

(* A camera Blink has told of stays in sight: while the maps are rebuilt,  *)
(* after a rebuild that failed, and while its module is offline.           *)
NoCameraVanishes ==
    counts.restarts = 0 => \A c \in Cameras : previous[c] # NoName

(* Every change of name is taken in, however many migrations failed.       *)
TakenIn == known = called /\ previous = called /\ pendingRenames = {}
NamesSettle == <>[]TakenIn

=============================================================================
