---------------------------- MODULE CameraSettings ---------------------------
(***************************************************************************)
(* One camera's settings (media_server/camera_configs.py, vehicles.py), and*)
(* the three sections of the pages that edit them: each owns some fields   *)
(* and saves the whole list, on the revision it has just read, trying a    *)
(* second time when that is out of date.  The camera may get a new name    *)
(* meanwhile: Blink's list has it first, then the running analyzer, then   *)
(* the file and the aliases.  What options.json says of the camera, under  *)
(* its first name, is used at a start where the file says nothing.         *)
(***************************************************************************)
EXTENDS Integers, FiniteSets

CONSTANTS Names, FirstName, Option, \* Option: [text, car] of options.json
          MaxEdits, MaxRenames, MaxFailures, MaxRestarts

Sections == {"descriptions", "vehicles", "automatic"}
Entries == [text : {0, 1}, car : BOOLEAN, zone : {0, 1}, auto : BOOLEAN]
Default == [text |-> 0, car |-> FALSE, zone |-> 0, auto |-> TRUE]
Nothing == [text |-> 2, car |-> FALSE, zone |-> 2, auto |-> TRUE] \* no entry
NoAlias == "no alias"
Rows == [Names -> Entries \cup {Nothing}]

VARIABLES called,  \* the camera's name in Blink's list
          gone,    \* the name it had before
          moving,  \* what the program has done of a renaming: idle, listed, moved
          file,    \* camera_configs.json: [name -> its entry, or Nothing]
          live,    \* what the analyzer works with: [name -> entry]
          alias,   \* [name -> the name that replaced it, or NoAlias]
          page,    \* [section -> the rows it shows]
          saving,  \* [section -> its request under way]
          wanted,  \* history: what was last saved, and accepted, for the camera
          ahead,   \* history: a write failed, and the analyzer has what the file has not
          between, \* history: a list was read or saved between a renaming and its migration,
                   \* or a zone was saved under a name that is gone
          changes
settingVars == <<called, gone, moving, file, live, alias, page, saving, wanted, ahead, between, changes>>
nameVars == <<called, gone, moving, alias>>
Count(k) == changes' = [changes EXCEPT ![k] = @ + 1]

Shown(entry) == IF entry = Nothing THEN Default ELSE entry
InUse(rows) == [n \in Names |-> Shown(rows[n])]

(* At a start, an empty description is filled from options.json, and its   *)
(* car cameras count when the file has none.                               *)
Loaded(rows, optionFor) ==
    [n \in Names |->
        IF n # optionFor THEN Shown(rows[n])
        ELSE [Shown(rows[n]) EXCEPT !.text = IF @ = 0 THEN Option.text ELSE @,
                                    !.car = @ \/ (Option.car /\ \A m \in Names : ~Shown(rows[m]).car)]]

NoRows == [n \in Names |-> Nothing]
Quiet == [phase |-> "idle", rows |-> NoRows, pushed |-> {}, revision |-> NoRows, edited |-> FirstName, values |-> Default, attempt |-> 0]

(* Only names that Blink knows are shown, with defaults where nothing is   *)
(* saved.                                                                  *)
Listing == [n \in Names |-> IF n = called THEN Shown(file[n]) ELSE Nothing]

Init ==
    /\ called = FirstName /\ gone = FirstName /\ moving = "idle"
    /\ file = NoRows /\ live = Loaded(NoRows, FirstName) /\ alias = [n \in Names |-> NoAlias]
    /\ page = [s \in Sections |-> Listing]
    /\ saving = [s \in Sections |-> Quiet]
    /\ wanted = Default /\ ahead = FALSE /\ between = FALSE
    /\ changes = [edits |-> 0, renames |-> 0, failures |-> 0, restarts |-> 0]

Present(rows) == {n \in Names : rows[n] # Nothing}

(* An alias whose name a camera carries again is left out.                 *)
Effective == [n \in Names |-> IF n = called THEN NoAlias ELSE alias[n]]
Resolved(n) == IF Effective[n] = NoAlias THEN n
               ELSE IF Effective[Effective[n]] \in {NoAlias, n} THEN Effective[n]
               ELSE Effective[Effective[n]]

(* options.json is read with every alias there is.                         *)
OptionFor == IF alias[FirstName] = NoAlias THEN FirstName ELSE alias[FirstName]

-----------------------------------------------------------------------------
(* A section.                                                              *)
Load(s) ==
    /\ saving[s].phase = "idle" /\ page[s] # Listing
    /\ page' = [page EXCEPT ![s] = Listing]
    /\ UNCHANGED <<nameVars, file, live, saving, wanted, ahead, between, changes>>

(* A section changes its own fields of what it has read again.             *)
OwnFields(s, entry, local) ==
    CASE s = "descriptions" -> [entry EXCEPT !.text = local.text]
      [] s = "vehicles" -> [entry EXCEPT !.car = local.car, !.zone = local.zone]
      [] s = "automatic" -> [entry EXCEPT !.auto = local.auto]

(* A row whose camera was renamed meanwhile is matched by the alias; rows  *)
(* for no listed camera are sent as they are.                              *)
Built(s, local, latest) ==
    LET localOnly == Present(local) \ Present(latest)
        latestOnly == Present(latest) \ Present(local)
        followed == {n \in localOnly : /\ Cardinality(localOnly) = 1 /\ Cardinality(latestOnly) = 1
                                       /\ Resolved(n) \in latestOnly}
        Mine(n) == IF local[n] # Nothing THEN local[n]
                   ELSE IF followed # {} THEN local[CHOOSE m \in followed : TRUE] ELSE Nothing
    IN [rows |-> [n \in Names |->
                     IF latest[n] # Nothing
                       THEN IF Mine(n) = Nothing THEN latest[n] ELSE OwnFields(s, latest[n], Mine(n))
                     ELSE IF n \in localOnly \ followed THEN local[n] ELSE Nothing],
        pushed |-> localOnly \ followed]

Request(s, local, n, attempt) ==
    LET built == Built(s, local, Listing)
    IN [phase |-> "sent", rows |-> built.rows, pushed |-> built.pushed, revision |-> file,
        edited |-> n, values |-> Shown(local[n]), attempt |-> attempt]

(* The user changes a row and saves.                                       *)
Save(s, n, entry) ==
    /\ saving[s].phase = "idle" /\ changes.edits < MaxEdits
    /\ page[s][n] # Nothing /\ entry # page[s][n] /\ entry = OwnFields(s, page[s][n], entry)
    /\ page' = [page EXCEPT ![s][n] = entry]
    /\ saving' = [saving EXCEPT ![s] = [Quiet EXCEPT !.phase = "asked", !.edited = n]]
    /\ Count("edits")
    /\ UNCHANGED <<nameVars, file, live, wanted, ahead, between>>

(* The list is read again, and what is to be saved made of it.             *)
ReadAgain(s) ==
    /\ saving[s].phase = "asked"
    /\ saving' = [saving EXCEPT ![s] = Request(s, page[s], @.edited, @.attempt)]
    /\ between' = (between \/ moving # "idle")
    /\ UNCHANGED <<nameVars, file, live, page, wanted, ahead, changes>>

(* The server: names are resolved, of two rows for one camera the last     *)
(* stays.                                                                  *)
Canonical(request) ==
    [n \in Names |->
        LET sources == {m \in Present(request.rows) : Resolved(m) = n}
        IN IF sources = {} THEN Nothing
           ELSE request.rows[CHOOSE m \in sources : sources \cap request.pushed # {} => m \in request.pushed]]

\* Mutant: the revision is not compared.
AnyRevision(request) == TRUE
UpToDate(request) == request.revision = file

(* The analyzer takes the new list whether or not the file can be written. *)
Stored(rows, ok) ==
    /\ live' = InUse(rows)
    /\ file' = IF ok THEN rows ELSE file
    /\ ahead' = ~ok
    /\ IF ok THEN UNCHANGED changes ELSE changes.failures < MaxFailures /\ Count("failures")

Put(s, ok) ==
    LET request == saving[s]
        rows == Canonical(request)
    IN /\ request.phase = "sent" /\ UpToDate(request)
       /\ Stored(rows, ok)
       /\ saving' = [saving EXCEPT ![s] = Quiet]
       /\ page' = IF ok THEN [page EXCEPT ![s] = request.rows] ELSE page
       /\ wanted' = IF ok THEN OwnFields(s, wanted, request.values) ELSE wanted
       /\ between' = (between \/ (ok /\ moving # "idle"))
       /\ UNCHANGED nameVars

Conflict(s) ==
    /\ saving[s].phase = "sent" /\ ~UpToDate(saving[s])
    /\ saving' = [saving EXCEPT ![s] =
                    IF @.attempt = 0 THEN [@ EXCEPT !.phase = "asked", !.attempt = 1] ELSE Quiet]
    /\ UNCHANGED <<nameVars, file, live, page, wanted, ahead, between, changes>>

(* The picker, open to cars only, saves one zone at once, under the name   *)
(* its page shows.                                                         *)
ZoneEntry(n, zone) == [Shown(file[n]) EXCEPT !.zone = zone, !.car = @ \/ zone = 1]
PutZone(n, zone, ok) ==
    /\ changes.edits < MaxEdits /\ page["vehicles"][n] # Nothing
    /\ zone = 0 => page["vehicles"][n].car /\ file[n] # Nothing
    /\ changes' = [changes EXCEPT !.edits = @ + 1, !.failures = @ + IF ok THEN 0 ELSE 1]
    /\ ok \/ changes.failures < MaxFailures
    /\ LET rows == [file EXCEPT ![n] = ZoneEntry(n, zone)]
       IN live' = InUse(rows) /\ file' = IF ok THEN rows ELSE file
    /\ ahead' = ~ok
    /\ page' = IF ok THEN [page EXCEPT !["vehicles"][n] = [@ EXCEPT !.zone = zone, !.car = TRUE]] ELSE page
    /\ wanted' = IF ok THEN [wanted EXCEPT !.zone = zone, !.car = @ \/ zone = 1] ELSE wanted
    /\ between' = (between \/ (ok /\ (moving # "idle" \/ n # called)))
    /\ UNCHANGED <<nameVars, saving>>

-----------------------------------------------------------------------------
(* A renaming.                                                             *)
Rename(n) ==
    /\ moving = "idle" /\ n # called /\ changes.renames < MaxRenames
    /\ called' = n /\ gone' = called /\ moving' = "listed"
    /\ Count("renames")
    /\ UNCHANGED <<alias, file, live, page, saving, wanted, ahead, between>>

(* Of two entries, each text and zone that is there stays, and each switch *)
(* that was turned away from its default.                                  *)
Merged(target, source) ==
    [text |-> IF target.text = 0 THEN source.text ELSE target.text,
     zone |-> IF target.zone = 0 THEN source.zone ELSE target.zone,
     car |-> target.car \/ source.car, auto |-> target.auto /\ source.auto]

(* The analyzer moves its own copy first; the switch for automatic         *)
(* analysis is not the analyzer's.                                         *)
MoveLive ==
    /\ moving = "listed" /\ moving' = "moved"
    /\ live' = [live EXCEPT ![called] = [Merged(live[called], live[gone]) EXCEPT !.auto = live[called].auto],
                            ![gone] = [Default EXCEPT !.auto = live[gone].auto]]
    /\ UNCHANGED <<called, gone, alias, file, page, saving, wanted, ahead, between, changes>>

Migrated ==
    IF file[gone] = Nothing THEN file
    ELSE [file EXCEPT ![gone] = Nothing,
                      ![called] = IF @ = Nothing THEN file[gone] ELSE Merged(@, file[gone])]

(* With the file, what the analyzer uses; else only the switch moves.      *)
LiveMigrated ==
    live' = IF file[gone] # Nothing THEN InUse(Migrated)
            ELSE [live EXCEPT ![called].auto = @ /\ live[gone].auto, ![gone].auto = TRUE]

Migrate ==
    /\ moving = "moved" /\ moving' = "idle"
    /\ file' = Migrated
    /\ LiveMigrated
    /\ ahead' = (ahead /\ file[gone] = Nothing)
    /\ alias' = [n \in Names |-> IF n = gone THEN called ELSE IF n = called THEN NoAlias
                                 ELSE IF alias[n] = gone THEN called ELSE alias[n]]
    /\ UNCHANGED <<called, gone, page, saving, wanted, between, changes>>

(* The settings file, or later one of the other files that are moved, or   *)
(* the aliases file: the next refresh begins again.                        *)
MigrateFails(late) ==
    /\ moving = "moved" /\ changes.failures < MaxFailures
    /\ moving' = "listed"
    /\ IF late THEN file' = Migrated /\ LiveMigrated ELSE UNCHANGED <<file, live>>
    /\ ahead' = IF late THEN ahead /\ file[gone] = Nothing ELSE TRUE
    /\ Count("failures")
    /\ UNCHANGED <<called, gone, alias, page, saving, wanted, between>>

(* The identities file has the renaming found again.                       *)
Restart ==
    /\ changes.restarts < MaxRestarts
    /\ live' = Loaded(file, OptionFor) /\ ahead' = FALSE
    /\ moving' = IF moving = "idle" THEN "idle" ELSE "listed"
    /\ saving' = [s \in Sections |-> Quiet]
    /\ Count("restarts")
    /\ UNCHANGED <<called, gone, alias, file, page, wanted, between>>

Next ==
    \/ \E s \in Sections : Load(s) \/ ReadAgain(s) \/ Conflict(s) \/ \E ok \in BOOLEAN : Put(s, ok)
    \/ \E s \in Sections, n \in Names, entry \in Entries : Save(s, n, entry)
    \/ \E n \in Names, zone \in {0, 1}, ok \in BOOLEAN : PutZone(n, zone, ok)
    \/ \E n \in Names : Rename(n)
    \/ MoveLive \/ Migrate \/ Restart \/ \E late \in BOOLEAN : MigrateFails(late)

Spec == Init /\ [][Next]_settingVars

-----------------------------------------------------------------------------
SettingsTypeOK ==
    /\ file \in Rows /\ live \in [Names -> Entries] /\ page \in [Sections -> Rows] /\ wanted \in Entries
    /\ \A s \in Sections : saving[s].rows \in Rows /\ saving[s].revision \in Rows
    /\ \A n \in Names : alias[n] # n

(* Three sections that each write the whole list, the picker, renamings    *)
(* and their retries lose nothing: the camera keeps what was last saved    *)
(* for each field, by whichever section, as long as nothing was saved      *)
(* while a renaming was only half done.                                    *)
EditsSurvive == moving = "idle" /\ ~between => Shown(file[called]) = wanted

(* Unless a write failed, the analyzer works with what the file holds, for *)
(* every name; options.json adds to it only where the file is empty, and   *)
(* under the name the camera has now.                                      *)
AnalyzerFollowsFile ==
    moving = "idle" /\ ~ahead => live \in {InUse(file), Loaded(file, OptionFor)}

(* A switch turned away from its default is still so after the renaming,   *)
(* whatever was saved under the new name meanwhile, defaults included.     *)
SwitchesOutliveRenaming ==
    Migrate => LET old == Shown(file[gone])
                   new == Shown(file'[called])
               IN (old.car => new.car) /\ (new.auto => old.auto)

(* What these rest on.                                                     *)
Savings == [phase : {"idle", "asked", "sent"}, rows : Rows, pushed : SUBSET Names, revision : Rows,
            edited : Names, values : Entries, attempt : {0, 1}]
SettingsShape ==
    /\ called \in Names /\ gone \in Names /\ moving \in {"idle", "listed", "moved"}
    /\ moving # "idle" => called # gone
    /\ alias \in [Names -> Names \cup {NoAlias}]
    /\ saving \in [Sections -> Savings]

(* The names that lead to the camera: its own, that which it is leaving    *)
(* while a renaming is under way, and those with an alias to either.       *)
Before == IF moving = "idle" THEN called ELSE gone
Leads(n) == n \in {called, Before} \/ alias[n] = Before
NamesLead ==
    /\ OptionFor = Before
    /\ moving = "idle" => alias[called] = NoAlias
    /\ alias[Before] = NoAlias

(* Unless something was saved in the middle of a renaming, the file has    *)
(* one entry at most, a page shows one row, and what it sends is that row. *)
OneEntry ==
    ~between =>
        /\ \A m, n \in Present(file) : m = n
        /\ Present(file) \subseteq {called, Before}
        /\ Shown(IF moving = "idle" THEN file[called] ELSE Migrated[called]) = wanted

RowOf(s) ==
    /\ \E n \in Names : Leads(n) /\ Present(page[s]) = {n} /\ (saving[s].phase # "idle" => saving[s].edited = n)
    /\ saving[s].phase = "sent" =>
          \E m \in Names :
             /\ Leads(m) /\ Present(saving[s].rows) = {m} /\ saving[s].pushed = {}
             /\ Present(saving[s].revision) \subseteq {m}
             /\ saving[s].rows[m] = OwnFields(s, Shown(saving[s].revision[m]), saving[s].values)
OneRow == ~between => \A s \in Sections : RowOf(s)

(* In the middle of a renaming with no entry to move, the analyzer has     *)
(* what is in the file or what a start made of it, under either name.      *)
LiveFollows ==
    ~ahead =>
        \/ live \in {InUse(file), Loaded(file, called)}
        \/ moving # "idle" /\ file[gone] # Nothing
        \/ moving = "listed" /\ live = Loaded(file, gone)

IInv == SettingsTypeOK /\ SettingsShape /\ NamesLead /\ OneEntry /\ OneRow /\ LiveFollows
=============================================================================
