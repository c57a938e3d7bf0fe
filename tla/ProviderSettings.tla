--------------------------- MODULE ProviderSettings ---------------------------
(***************************************************************************)
(* Which providers are shown and in which order: the key "plugins" of      *)
(* settings.json and the windows that read and write it.                   *)
(*                                                                         *)
(* The panel loads the key at launch (use-settings-bootstrap.ts), migrates *)
(* and normalizes it, shows it only after every other preference has been  *)
(* read, and rewrites it whole from what it shows when the user toggles or *)
(* reorders a provider (use-settings-plugin-actions.ts).  The setup window *)
(* of the first launch (onboarding-app.tsx, done-step.tsx) loads the key,  *)
(* merges its selection and saves it, and then has the backend record that *)
(* the setup is complete, in the store and in a marker file                *)
(* (onboarding.rs); the panel is told to load the key again                *)
(* (use-plugin-settings-refresh.ts).                                       *)
(*                                                                         *)
(* Both windows and the backend share one store in memory.  Its calls are  *)
(* served in the order they are issued, so a set takes effect in the step  *)
(* that issues it; the reply of a get is used in a later step.  The file   *)
(* is written behind, not atomically: the store loads as empty when it was *)
(* torn.  Whether an id is disabled is a set, not the array of the file.   *)
(***************************************************************************)
EXTENDS Naturals, Sequences, FiniteSets, SequencesExt

CONSTANTS
    Listed,       \* the provider ids list_plugins returns, in its order
    OldId, NewId, \* the ids that migrateWindsurfToDevin replaces and introduces
    KeyManaged,   \* ids of the providers with a managed key
    Detections,   \* sets of providers that may be detected at a launch
    EarlierFiles, \* contents of settings.json that earlier versions left
    MaxLaunch,    \* bound: launches of the application
    MaxChange     \* bound: changes the user makes in the panel

Known == Range(Listed)

PluginSettings == [order : Seq(STRING), disabled : SUBSET STRING]

\* list_plugins no longer lists the old id; no provider is called "missing".
ASSUME ProviderAssumption ==
    /\ Listed \in Seq(STRING)
    /\ OldId \notin Known /\ "missing" \notin Known
    /\ EarlierFiles \subseteq [plugins : PluginSettings, done : BOOLEAN]

Missing == [order |-> <<"missing">>, disabled |-> {}]   \* null, or an absent key
Empty == [order |-> <<>>, disabled |-> {}]

VARIABLES
    store,      \* the store in memory: [plugins, done]
    file,       \* settings.json
    marker,     \* whether the completion marker exists
    detected,   \* the providers list_plugins detects in this launch
    panel,      \* pluginSettings of the panel
    boot,       \* the load at launch: [at, next]
    reload,     \* the refresh of the panel: [at, next]
    setup,      \* the setup window: [at, keep, drop, seen]
    budget,     \* launches and changes left
    choice,     \* history: the last choice of the user for each provider
    completed,  \* history: the setup has been completed, and not been reset
    crossed     \* history: one window wrote while the other had yet to hear of it

providerVars == <<store, file, marker, detected, panel, boot, reload, setup, budget,
                  choice, completed, crossed>>

NoSetup == [at |-> "closed", keep |-> {}, drop |-> {}, seen |-> Empty]
NoReload == [at |-> "none", next |-> Empty]
Off == [at |-> "off", next |-> Empty]

-----------------------------------------------------------------------------
(* The functions of lib/settings.ts.                                       *)

loadPluginSettings == IF store.plugins = Missing THEN Empty ELSE store.plugins

getEnabledPluginIds(s) == {id \in Range(s.order) : id \notin s.disabled}

\* The loop over ids that pushes those of S, and each of them once.
Once(q, S) ==
    LET kept[n \in 0 .. Len(q)] ==
            IF n = 0 THEN <<>>
            ELSE LET seen == kept[n - 1]
                 IN IF q[n] \in S \ Range(seen) THEN Append(seen, q[n]) ELSE seen
    IN kept[Len(q)]

Unique(q) == Once(q, Range(q))

migrateWindsurfToDevin(s) ==
    LET old == OldId \in Range(s.order)
        freed == IF old /\ OldId \notin s.disabled THEN {NewId} ELSE {}
        taken == IF NewId \notin Range(s.order) /\ OldId \in s.disabled THEN {NewId} ELSE {}
    IN [order    |-> Unique([i \in DOMAIN s.order |-> IF s.order[i] = OldId THEN NewId ELSE s.order[i]]),
        disabled |-> ((s.disabled \ {OldId}) \ freed) \cup taken]

\* The default is not given to the new ones only: forgets what was turned on.
normalizePluginSettings_DefaultsAll(s) ==
    LET kept == Once(s.order, Known)
        newlyAdded == Once(Listed, Known \ Range(kept))
    IN [order    |-> kept \o newlyAdded,
        disabled |-> (s.disabled \cap Known) \cup (Known \ detected)]

\* A provider that is new to the settings is on only if it was detected.
normalizePluginSettings(s) ==
    LET kept == Once(s.order, Known)
        newlyAdded == Once(Listed, Known \ Range(kept))
    IN [order    |-> kept \o newlyAdded,
        disabled |-> (s.disabled \cap Known) \cup (Range(newlyAdded) \ detected)]

mergeProviderSelection(s, keep, drop) == [s EXCEPT !.disabled = (@ \ keep) \cup drop]

-----------------------------------------------------------------------------
(* The life of the application.                                            *)

Running == boot.at # "off"

\* The setup window opens unless the flag of the store or the marker says that
\* the setup was completed; a flag without a marker writes the marker.
ShowsSetup == ~file.done /\ ~marker

Launch ==
    /\ ~Running /\ budget.launch > 0
    /\ store' = file
    /\ marker' = (marker \/ file.done)
    /\ detected' \in Detections
    /\ boot' = [Off EXCEPT !.at = "list"]
    /\ setup' = IF ShowsSetup THEN [NoSetup EXCEPT !.at = "steps"] ELSE NoSetup
    /\ budget' = [budget EXCEPT !.launch = @ - 1]
    /\ UNCHANGED <<file, panel, reload, choice, completed, crossed>>

\* The save of a set, or the save the store makes by itself.
Save ==
    /\ Running /\ store # file
    /\ file' = store
    /\ UNCHANGED <<store, marker, detected, panel, boot, reload, setup, budget, choice,
                   completed, crossed>>

\* The choices a settings file tells of, in terms of today's ids.
ChoiceIn(f) ==
    LET order == Range(f.plugins.order)
        disabled == f.plugins.disabled
    IN [id \in Known |->
           IF f.plugins = Missing THEN "none"
           ELSE IF id = NewId /\ OldId \in order \ disabled THEN "on"
           ELSE IF id = NewId /\ OldId \in disabled /\ NewId \notin order THEN "off"
           ELSE IF id \in disabled THEN "off"
           ELSE IF id \in order THEN "on" ELSE "none"]

\* The choices that a file still tells of.
Remembered(f) == [id \in Known |-> IF choice[id] = ChoiceIn(f)[id] THEN choice[id] ELSE "none"]

\* The application ends; if it dies within a save, settings.json is torn.
Exit ==
    /\ Running
    /\ file' \in {file} \cup (IF store # file THEN {[plugins |-> Missing, done |-> FALSE]} ELSE {})
    /\ store' = file'
    /\ choice' = Remembered(file')
    /\ boot' = Off /\ panel' = Missing /\ reload' = NoReload /\ setup' = NoSetup
    /\ detected' = {} /\ crossed' = FALSE
    /\ UNCHANGED <<marker, budget, completed>>

-----------------------------------------------------------------------------
(* The load of the panel at launch.                                        *)

LoadPlugins ==
    /\ boot.at = "list"
    /\ LET stored == loadPluginSettings
           normalized == normalizePluginSettings(migrateWindsurfToDevin(stored))
       IN boot' = [at |-> IF stored = normalized THEN "preferences" ELSE "save",
                   next |-> normalized]
    /\ UNCHANGED <<store, file, marker, detected, panel, reload, setup, budget, choice,
                   completed, crossed>>

SaveNormalized ==
    /\ boot.at = "save"
    /\ store' = [store EXCEPT !.plugins = boot.next]
    /\ boot' = [boot EXCEPT !.at = "preferences"]
    /\ UNCHANGED <<file, marker, detected, panel, reload, setup, budget, choice, completed,
                   crossed>>

\* The other preferences have been read: everything is shown at once.
ShowSettings ==
    /\ boot.at = "preferences"
    /\ panel' = boot.next
    /\ boot' = [Off EXCEPT !.at = "done"]
    /\ UNCHANGED <<store, file, marker, detected, reload, setup, budget, choice, completed,
                   crossed>>

-----------------------------------------------------------------------------
(* The user in the panel.                                                  *)

\* The setup window has merged what the panel has not loaded again.
SelectionUnheard == setup.at \in {"merging", "finishing", "failed"} \/ reload.at # "none"

MayChange == Running /\ panel # Missing /\ budget.change > 0

Changed(next) ==
    /\ panel' = next
    /\ store' = [store EXCEPT !.plugins = next]
    /\ budget' = [budget EXCEPT !.change = @ - 1]
    /\ crossed' = (crossed \/ SelectionUnheard)
    /\ UNCHANGED <<file, marker, detected, boot, reload, setup, completed>>

handleToggle(id) ==
    /\ MayChange
    /\ LET off == id \in panel.disabled
       IN /\ Changed([panel EXCEPT !.disabled = IF off THEN @ \ {id} ELSE @ \cup {id}])
          /\ choice' = [choice EXCEPT ![id] = IF off THEN "on" ELSE "off"]

\* orderedIds may be a part of the order, as the list of the enabled providers:
\* a provider that is left out goes behind the last one that was before it.
Reinsert(order, merged, id) ==
    LET before(x) == \E i \in DOMAIN order :
                         order[i] = x /\ \A j \in DOMAIN order : order[j] = id => i < j
        places == {i \in DOMAIN merged : before(merged[i])}
        at == IF places = {} THEN 1 ELSE 1 + CHOOSE i \in places : \A j \in places : j <= i
    IN InsertAt(merged, at, id)

Merged(order, ordered) ==
    LET merged[n \in 0 .. Len(order)] ==
            IF n = 0 THEN ordered
            ELSE IF order[n] \in Range(ordered) THEN merged[n - 1]
            ELSE Reinsert(order, merged[n - 1], order[n])
    IN merged[Len(order)]

handleReorder(ordered) ==
    /\ MayChange
    /\ Changed([panel EXCEPT !.order = Merged(@, ordered)])
    /\ UNCHANGED choice

-----------------------------------------------------------------------------
(* The setup window.                                                       *)

SetupWaits == setup.at \in {"steps", "failed"}

\* The last step lists the detected providers and those that need their key;
\* the user keeps some of them, and finishes.
PickProviders ==
    /\ SetupWaits
    /\ \E keep \in SUBSET (detected \cup KeyManaged) :
         LET drop == (detected \cup KeyManaged) \ keep
         IN setup' = IF keep \cup drop = {} THEN [NoSetup EXCEPT !.at = "finishing"]
                     ELSE [at |-> "merging", keep |-> keep, drop |-> drop,
                           seen |-> loadPluginSettings]
    /\ crossed' = (crossed \/ boot.at # "done")
    /\ UNCHANGED <<store, file, marker, detected, panel, boot, reload, budget, choice,
                   completed>>

\* The selection is saved over what the panel may not have loaded yet.
SaveSelection ==
    /\ setup.at = "merging"
    /\ store' = [store EXCEPT !.plugins = mergeProviderSelection(setup.seen, setup.keep, setup.drop)]
    /\ setup' = [NoSetup EXCEPT !.at = "finishing"]
    /\ choice' = [id \in Known |-> IF id \in setup.keep THEN "on"
                                   ELSE IF id \in setup.drop THEN "off" ELSE choice[id]]
    /\ UNCHANGED <<file, marker, detected, panel, boot, reload, budget, completed, crossed>>

\* "Skip setup", or Escape.
SkipSetup ==
    /\ SetupWaits
    /\ setup' = [NoSetup EXCEPT !.at = "finishing"]
    /\ crossed' = (crossed \/ boot.at # "done")
    /\ UNCHANGED <<store, file, marker, detected, panel, boot, reload, budget, choice,
                   completed>>

\* Only the flag is kept, in the file that may be torn.
finish_onboarding_NoMarker ==
    /\ setup.at = "finishing"
    /\ store' = [store EXCEPT !.done = TRUE] /\ file' = store'
    /\ marker' = marker /\ completed' = TRUE
    /\ reload' = [NoReload EXCEPT !.at = "told"]
    /\ setup' = NoSetup
    /\ UNCHANGED <<detected, panel, boot, budget, choice, crossed>>

\* finish_onboarding saves the flag and writes the marker, tells the panel, and
\* closes the window.
finish_onboarding ==
    /\ setup.at = "finishing"
    /\ store' = [store EXCEPT !.done = TRUE] /\ file' = store'
    /\ marker' = TRUE /\ completed' = TRUE
    /\ reload' = [NoReload EXCEPT !.at = "told"]
    /\ setup' = NoSetup
    /\ UNCHANGED <<detected, panel, boot, budget, choice, crossed>>

\* The save of the flag fails, or, after the marker, that of the last version
\* seen: the error returns before the event and the window stays open.
FinishFails ==
    /\ setup.at = "finishing"
    /\ store' = [store EXCEPT !.done = TRUE]
    /\ \/ UNCHANGED <<file, marker, completed>>
       \/ file' = store' /\ marker' = TRUE /\ completed' = TRUE
    /\ setup' = [NoSetup EXCEPT !.at = "failed"]
    /\ UNCHANGED <<detected, panel, boot, reload, budget, choice, crossed>>

\* The panel hears of it, loads the key again and shows it as it is stored.
ReadReload ==
    /\ reload.at = "told"
    /\ reload' = [at |-> "read", next |-> loadPluginSettings]
    /\ UNCHANGED <<store, file, marker, detected, panel, boot, setup, budget, choice,
                   completed, crossed>>

ApplyReload ==
    /\ reload.at = "read"
    /\ panel' = reload.next /\ reload' = NoReload
    /\ UNCHANGED <<store, file, marker, detected, boot, setup, budget, choice, completed,
                   crossed>>

\* Settings, Advanced: the flag is deleted and saved, then the marker is removed.
reset_onboarding ==
    /\ boot.at = "done" /\ setup.at = "closed" /\ marker /\ budget.change > 0
    /\ store' = [store EXCEPT !.done = FALSE] /\ file' = store'
    /\ marker' = FALSE /\ completed' = FALSE
    /\ budget' = [budget EXCEPT !.change = @ - 1]
    /\ UNCHANGED <<detected, panel, boot, reload, setup, choice, crossed>>

\* Its save fails: the marker stays.
ResetFails ==
    /\ boot.at = "done" /\ setup.at = "closed" /\ marker /\ budget.change > 0
    /\ store' = [store EXCEPT !.done = FALSE]
    /\ budget' = [budget EXCEPT !.change = @ - 1]
    /\ UNCHANGED <<file, marker, detected, panel, boot, reload, setup, choice, completed,
                   crossed>>

-----------------------------------------------------------------------------

ProviderInit ==
    /\ file \in EarlierFiles /\ store = file
    /\ marker = FALSE /\ detected = {}
    /\ panel = Missing /\ boot = Off /\ reload = NoReload /\ setup = NoSetup
    /\ budget = [launch |-> MaxLaunch, change |-> MaxChange]
    /\ choice = ChoiceIn(file)
    /\ completed = file.done /\ crossed = FALSE

ProviderNext ==
    \/ Launch \/ Save \/ Exit
    \/ LoadPlugins \/ SaveNormalized \/ ShowSettings
    \/ \E id \in Known : handleToggle(id)
    \/ \E ordered \in {Reverse(panel.order),
                       Reverse(Once(panel.order, getEnabledPluginIds(panel)))} :
         handleReorder(ordered)
    \/ PickProviders \/ SaveSelection \/ SkipSetup
    \/ finish_onboarding \/ FinishFails
    \/ ReadReload \/ ApplyReload
    \/ reset_onboarding \/ ResetFails

ProviderSpec == ProviderInit /\ [][ProviderNext]_providerVars

-----------------------------------------------------------------------------

\* Nothing of a window is under way that is yet to reach the other.
AtRest == boot.at = "done" /\ setup.at \in {"closed", "steps"} /\ reload.at = "none" /\ ~crossed

(***************************************************************************)
(* A provider the user has turned on or off, in the panel, in the setup    *)
(* window or under an earlier version, is on or off in what the panel      *)
(* shows and in the store whenever the windows are at rest: through the    *)
(* migration and the normalization of every launch, a change of what is    *)
(* detected, the merge of the setup window and the reload it triggers.     *)
(* The panel shows every known provider, once.  Excepted is a change in    *)
(* one window while the other has yet to hear of the last one (crossed).   *)
(***************************************************************************)
ChoiceIsKept ==
    AtRest =>
        /\ panel = loadPluginSettings
        /\ Range(panel.order) = Known /\ Len(panel.order) = Cardinality(Known)
        /\ \A id \in Known : choice[id] # "none" => (choice[id] = "on" <=> id \in getEnabledPluginIds(panel))

(***************************************************************************)
(* Once completed, the setup does not open again before it is reset,       *)
(* although settings.json may be torn by a crash within any save.          *)
(***************************************************************************)
SetupIsNotRepeated == completed => setup.at # "steps"
=============================================================================
