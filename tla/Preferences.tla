----------------------------- MODULE Preferences -----------------------------
(***************************************************************************)
(* The other keys of settings.json, by how the panel loads them.           *)
(*                                                                         *)
(*   launch    use-settings-bootstrap.ts reads one after another, a        *)
(*             failed read yields the default, and shows all of them at    *)
(*             once; every change is shown, set and saved by itself.       *)
(*   whole     the alerts and the options of the share page are records    *)
(*             that a store of the panel reads once (hydrate); a change of *)
(*             a field writes the record that is shown.                    *)
(*   view      the options of the strip of the overview are read each time *)
(*             it is mounted.                                              *)
(*                                                                         *)
(* Two things follow a key: the login item of the system is synchronized   *)
(* with startOnLogin (autostart.ts), and the style of the tray icon may    *)
(* come from the key of an older version.  The setup window writes the     *)
(* alerts and startOnLogin beside the panel.  The store is as in           *)
(* ProviderSettings: one in memory, its calls served as they are issued,   *)
(* the file written behind and empty when torn.                            *)
(***************************************************************************)
EXTENDS Naturals, FiniteSets, Sequences

CONSTANTS
    Absent, Foreign,  \* no value; a value this version does not know
    LoadOrder,        \* the steps of the load at launch: keys, Sync and Migrate
    Whole,            \* the records: keys whose value is a set of fields turned on
    View,             \* keys of the strip
    Field,            \* the fields of a record
    EarlierStyles,    \* what earlier versions may have stored of the tray icon
    PrefLaunches,     \* bound: launches
    PrefChanges,      \* bound: changes by the user
    PrefFailures      \* bound: reads and synchronizations that fail

Sync == "applyStartOnLogin"
Migrate == "migrateLegacyTraySettings"
Launched == {LoadOrder[i] : i \in DOMAIN LoadOrder} \ {Sync, Migrate}
Key == Launched \cup Whole \cup View
Style == "menubarIconStyle"
Login == "startOnLogin"
Alerts == "paceNotifications"
Legacy == "trayIconStyle"

Valid(k) ==
    CASE k = "autoUpdateInterval" -> {5, 15, 30, 60}
      [] k = "themeMode" -> {"system", "light", "dark"}
      [] k = "displayMode" -> {"used", "left"}
      [] k = "resetTimerDisplayMode" -> {"relative", "absolute"}
      [] k = "timeFormatMode" -> {"auto", "12h", "24h"}
      [] k = Style -> {"provider", "donut", "bars", "multi"}
      [] k = "multiTrayProviderCount" -> {2, 3, 4}
      [] k = "multiTrayDisplayMode" -> {"percent", "bars"}
      [] k = "menubarMetric" -> {"default", "weekly"}
      [] k \in {"betaUpdatesEnabled", Login} -> BOOLEAN
      [] k = "overviewGraphStyle" -> {"bar", "donut"}
      [] k = "overviewGraphGroupBy" -> {"model", "provider"}
      [] k = "overviewStripMetric" -> {"price", "usage"}
      [] k \in Whole -> SUBSET Field

Default(k) ==
    CASE k = "autoUpdateInterval" -> 15
      [] k = "themeMode" -> "system"
      [] k = "displayMode" -> "left"
      [] k = "resetTimerDisplayMode" -> "relative"
      [] k = "timeFormatMode" -> "auto"
      [] k = Style -> "provider"
      [] k = "multiTrayProviderCount" -> 3
      [] k = "multiTrayDisplayMode" -> "percent"
      [] k = "menubarMetric" -> "default"
      [] k \in {"betaUpdatesEnabled", Login} -> FALSE
      [] k = "overviewGraphStyle" -> "donut"
      [] k = "overviewGraphGroupBy" -> "provider"
      [] k = "overviewStripMetric" -> "price"
      [] k \in Whole -> {}

VARIABLES
    prefs,      \* the store in memory: key -> value, Legacy included
    saved,      \* settings.json
    shown,      \* key -> what the panel shows
    load,       \* the load at launch: [at, got]; at is the step it is at
    reads,      \* replies to hydrate and to the strip not yet used: [key, value, by]
    hydrated,   \* the whole records that hydrate has settled
    loginItem,  \* whether the system starts the application at login
    syncs,      \* calls of syncAutostart that have seen the login item: [value, was]
    window,     \* the setup window: closed, or at the step alerts or login
    left,       \* launches, changes and failures left
    want,       \* history: the last choice of the user
    stale       \* history: keys changed or read where one side does not hear of it

prefVars == <<prefs, saved, shown, load, reads, hydrated, loginItem, syncs, window, left,
              want, stale>>

\* load*: what is stored, or the default when it is absent or of no known kind.
Read(k, f) == IF f[k] \in {Absent, Foreign} THEN Default(k) ELSE f[k]

\* The first comes before the second in the load.
Precedes(a, b) ==
    \A j \in DOMAIN LoadOrder : LoadOrder[j] = b => \E i \in 1 .. j - 1 : LoadOrder[i] = a

ASSUME PrefAssumption ==
    /\ LoadOrder \in Seq(STRING)
    /\ {Login, Style} \subseteq Launched
    /\ Precedes(Login, Sync) /\ Precedes(Migrate, Style)
    /\ \E i \in DOMAIN LoadOrder : LoadOrder[i] = Sync
    /\ Whole \subseteq {Alerts, "shareSettings"}
    /\ View \subseteq {"overviewGraphStyle", "overviewGraphGroupBy", "overviewStripMetric"}
    /\ Launched \cap (Whole \cup View \cup {Alerts, Legacy, "setup"}) = {}
    /\ Absent \notin {"bars", "circle"}
    /\ \A k \in Key : Default(k) \in Valid(k) /\ \A v \in Valid(k) : v \notin {Absent, Foreign}
    /\ EarlierStyles \subseteq [legacy : {"bars", "circle", Absent, Foreign},
                                style : Valid(Style) \cup {Absent, Foreign}]

Nothing == [k \in Key \cup {Legacy} |-> Absent]
Defaults == [k \in Key |-> Default(k)]
NotLoading == [at |-> 0, got |-> Defaults]
PanelRuns == load.at > 0
Loaded == load.at = Len(LoadOrder) + 2       \* everything is shown

\* The style an older version's key stands for.
LegacyStyle(v) == CASE v = "bars" -> "bars" [] v = "circle" -> "donut" [] OTHER -> Absent

\* What settings.json says of the choices of the user.
Told(f) ==
    [k \in Key |->
        IF k = Style /\ f[Style] = Absent THEN Read(k, [f EXCEPT ![Style] = LegacyStyle(f[Legacy])])
        ELSE Read(k, f)]

-----------------------------------------------------------------------------

StartPanel ==
    /\ ~PanelRuns /\ left.launch > 0
    /\ prefs' = saved
    /\ load' = [NotLoading EXCEPT !.at = 1]
    /\ shown' = Defaults /\ hydrated' = {} /\ reads' = {} /\ syncs' = {}
    /\ window' \in {"closed", "alerts"}
    /\ left' = [left EXCEPT !.launch = @ - 1]
    /\ stale' = View          \* not mounted
    /\ UNCHANGED <<saved, loginItem, want>>

SavePrefs ==
    /\ PanelRuns /\ prefs # saved
    /\ saved' = prefs
    /\ UNCHANGED <<prefs, shown, load, reads, hydrated, loginItem, syncs, window, left, want,
                   stale>>

\* The application ends, perhaps within a save.
Quit ==
    /\ PanelRuns
    /\ saved' \in {saved} \cup (IF prefs # saved THEN {Nothing} ELSE {})
    /\ prefs' = saved' /\ want' = Told(saved')
    /\ load' = NotLoading /\ shown' = Defaults /\ hydrated' = {} /\ reads' = {} /\ syncs' = {}
    /\ window' = "closed" /\ stale' = {}
    /\ UNCHANGED <<loginItem, left>>

-----------------------------------------------------------------------------
(* The load at launch.  A step that fails is only logged.                  *)

AtStep(k) == load.at \in 1 .. Len(LoadOrder) /\ LoadOrder[load.at] = k
NextStep == [load EXCEPT !.at = @ + 1]

\* A call for the key fails, which is only logged.
Fails(k) ==
    /\ left.fail > 0
    /\ left' = [left EXCEPT !.fail = @ - 1]
    /\ stale' = stale \cup {k}

\* A read that fails leaves the default on the screen.
LoadNext(k) ==
    /\ k \in Launched /\ AtStep(k)
    /\ \/ load' = [NextStep EXCEPT !.got[k] = Read(k, prefs)] /\ UNCHANGED <<left, stale>>
       \/ load' = NextStep /\ Fails(k)
    /\ UNCHANGED <<prefs, saved, shown, reads, hydrated, loginItem, syncs, window, want>>

SyncLoaded ==
    /\ AtStep(Sync) /\ load' = NextStep
    /\ \/ loginItem' = load.got[Login] /\ UNCHANGED <<left, stale>>
       \/ UNCHANGED loginItem /\ Fails(Login)
    /\ UNCHANGED <<prefs, saved, shown, reads, hydrated, syncs, window, want>>

\* The style of the older key is set over the one of today.
migrateLegacyTraySettings_Overrides ==
    /\ AtStep(Migrate)
    /\ LegacyStyle(prefs[Legacy]) # Absent
    /\ prefs' = [prefs EXCEPT ![Style] = LegacyStyle(prefs[Legacy]), ![Legacy] = Absent]
    /\ UNCHANGED <<saved, shown, load, reads, hydrated, loginItem, syncs, window, left, want,
                   stale>>

\* The style of the older key is set where there is none; then the key goes.
migrateLegacyTraySettings ==
    /\ AtStep(Migrate)
    /\ prefs[Style] = Absent /\ LegacyStyle(prefs[Legacy]) # Absent
    /\ prefs' = [prefs EXCEPT ![Style] = LegacyStyle(prefs[Legacy])]
    /\ UNCHANGED <<saved, shown, load, reads, hydrated, loginItem, syncs, window, left, want,
                   stale>>

deleteStoreKey ==
    /\ AtStep(Migrate) /\ load' = NextStep
    /\ prefs[Style] # Absent \/ LegacyStyle(prefs[Legacy]) = Absent
    /\ prefs' = [prefs EXCEPT ![Legacy] = Absent]
    /\ UNCHANGED <<saved, shown, reads, hydrated, loginItem, syncs, window, left, want, stale>>

MigrationFails ==
    /\ AtStep(Migrate) /\ load' = NextStep
    /\ prefs[Legacy] # Absent /\ Fails(Style)
    /\ UNCHANGED <<prefs, saved, shown, reads, hydrated, loginItem, syncs, window, want>>

ShowLoaded ==
    /\ load.at = Len(LoadOrder) + 1
    /\ shown' = [k \in Key |-> IF k \in Launched THEN load.got[k] ELSE shown[k]]
    /\ load' = [NotLoading EXCEPT !.at = load.at + 1]
    /\ UNCHANGED <<prefs, saved, reads, hydrated, loginItem, syncs, window, left, want, stale>>

-----------------------------------------------------------------------------
(* Records that are read once, and the keys of the strip.                  *)

(* The effect of the alerts hydrates at launch, their page each time it is
   mounted, both perhaps before the first reply is used.                   *)
hydrate(k, by) ==
    /\ PanelRuns /\ k \in Whole /\ k \notin hydrated
    /\ reads' = reads \cup {[key |-> k, value |-> Read(k, prefs), by |-> by]}
    /\ UNCHANGED <<prefs, saved, shown, load, hydrated, loginItem, syncs, window, left, want,
                   stale>>

\* A reply is used; one that failed leaves what is shown.
UseReply(r) ==
    /\ r.key \in Whole
    /\ \/ shown' = [shown EXCEPT ![r.key] = r.value] /\ UNCHANGED <<left, stale>>
       \/ UNCHANGED shown /\ Fails(r.key)
    /\ reads' = reads \ {r}
    /\ hydrated' = hydrated \cup {r.key}
    /\ UNCHANGED <<prefs, saved, load, loginItem, syncs, window, want>>

StripReads == {r \in reads : r.key \in View}

\* The strip is mounted: its state starts with the defaults, and the replies to
\* an earlier mount are not used.
MountStrip ==
    /\ PanelRuns /\ View # {}
    /\ shown' = [k \in Key |-> IF k \in View THEN Default(k) ELSE shown[k]]
    /\ reads' = (reads \ StripReads) \cup
                {[key |-> k, value |-> Read(k, prefs), by |-> "strip"] : k \in View}
    /\ stale' = stale \ View
    /\ UNCHANGED <<prefs, saved, load, hydrated, loginItem, syncs, window, left, want>>

\* All of its options are used at once, or, when one read fails, none.
ShowStrip ==
    /\ StripReads # {}
    /\ \/ /\ shown' = [k \in Key |-> IF k \in View THEN (CHOOSE r \in StripReads : r.key = k).value
                                     ELSE shown[k]]
          /\ UNCHANGED <<left, stale>>
       \/ /\ UNCHANGED shown /\ left.fail > 0
          /\ left' = [left EXCEPT !.fail = @ - 1] /\ stale' = stale \cup View
    /\ reads' = reads \ StripReads
    /\ UNCHANGED <<prefs, saved, load, hydrated, loginItem, syncs, window, want>>

-----------------------------------------------------------------------------
(* Changes by the user in the panel.                                       *)

\* What was stored before a change is still to be shown, over the change.
Early(k) == \/ k \in Launched /\ ~Loaded
            \/ k \in Whole /\ k \notin hydrated
            \/ \E r \in reads : r.key = k

\* A change is shown, set, and saved later.
Set(k, v) ==
    /\ PanelRuns /\ left.change > 0 /\ v # shown[k]
    /\ shown' = [shown EXCEPT ![k] = v]
    /\ prefs' = [prefs EXCEPT ![k] = v]
    /\ left' = [left EXCEPT !.change = @ - 1]
    /\ UNCHANGED <<saved, load, reads, hydrated, window>>

SetAlone(k, v) ==
    /\ Set(k, v)
    /\ want' = [want EXCEPT ![k] = v]
    /\ stale' = IF Early(k) THEN stale \cup {k} ELSE stale \ {k}
    /\ UNCHANGED <<loginItem, syncs>>

handleChange(k) ==
    /\ k \in Launched \ {Login}
    /\ \E v \in Valid(k) : SetAlone(k, v)

\* The multi button cycles the count once the style is multi.
handleMultiMenubarClick ==
    /\ {Style, "multiTrayProviderCount"} \subseteq Launched
    /\ IF shown[Style] = "multi"
       THEN SetAlone("multiTrayProviderCount", IF shown["multiTrayProviderCount"] = 4 THEN 2
                                               ELSE shown["multiTrayProviderCount"] + 1)
       ELSE SetAlone(Style, "multi")

\* A field of a record: the record that is shown is written whole.
setToggle(k, f) ==
    /\ k \in Whole
    /\ IF f \in shown[k]
       THEN Set(k, shown[k] \ {f}) /\ want' = [want EXCEPT ![k] = @ \ {f}]
       ELSE Set(k, shown[k] \cup {f}) /\ want' = [want EXCEPT ![k] = @ \cup {f}]
    /\ stale' = IF Early(k) THEN stale \cup {k} ELSE stale
    /\ UNCHANGED <<loginItem, syncs>>

\* A key of the strip has two values.
toggleStrip(k) ==
    /\ k \in View
    /\ \E v \in Valid(k) : SetAlone(k, v)

\* The login item is read at once and changed later; a second call that reads
\* it in between may find nothing to do.
handleStartOnLoginChange ==
    /\ Login \in Launched
    /\ Set(Login, ~shown[Login])
    /\ want' = [want EXCEPT ![Login] = ~shown[Login]]
    /\ syncs' = syncs \cup {[value |-> ~shown[Login], was |-> loginItem]}
    /\ stale' = IF Early(Login) \/ syncs # {} THEN stale \cup {Login} ELSE stale \ {Login}
    /\ UNCHANGED loginItem

syncAutostart(s) ==
    /\ \/ s.was = s.value /\ UNCHANGED <<loginItem, left, stale>>
       \/ s.was # s.value /\ loginItem' = s.value /\ UNCHANGED <<left, stale>>
       \/ s.was # s.value /\ UNCHANGED loginItem /\ Fails(Login)
    /\ syncs' = syncs \ {s}
    /\ UNCHANGED <<prefs, saved, shown, load, reads, hydrated, window, want>>

-----------------------------------------------------------------------------
(* The setup window.                                                       *)

\* Permission is granted, and the selected alerts are saved.
enableNotifications ==
    /\ window = "alerts"
    /\ \E chosen \in SUBSET Field \ {{}} :
         /\ prefs' = [prefs EXCEPT ![Alerts] = chosen]
         /\ want' = [want EXCEPT ![Alerts] = chosen]
    /\ stale' = stale \cup {"setup"}
    /\ window' = "login"
    /\ UNCHANGED <<saved, shown, load, reads, hydrated, loginItem, syncs, left>>

SkipNotifications ==
    /\ window = "alerts" /\ window' = "login"
    /\ UNCHANGED <<prefs, saved, shown, load, reads, hydrated, loginItem, syncs, left, want,
                   stale>>

GoBack ==
    /\ window = "login" /\ window' = "alerts"
    /\ UNCHANGED <<prefs, saved, shown, load, reads, hydrated, loginItem, syncs, left, want,
                   stale>>

\* Escape.
DismissSetup ==
    /\ window # "closed" /\ window' = "closed"
    /\ UNCHANGED <<prefs, saved, shown, load, reads, hydrated, loginItem, syncs, left, want,
                   stale>>

\* The panel shows startOnLogin as it was until the next launch.
applyStartOnLogin ==
    /\ window = "login"
    /\ \E v \in BOOLEAN :
         /\ prefs' = [prefs EXCEPT ![Login] = v]
         /\ want' = [want EXCEPT ![Login] = v]
         /\ syncs' = syncs \cup {[value |-> v, was |-> loginItem]}
    /\ stale' = stale \cup {Login}
    /\ window' = "closed"
    /\ UNCHANGED <<saved, shown, load, reads, hydrated, loginItem, left>>

-----------------------------------------------------------------------------

PrefInit ==
    /\ saved \in {[Nothing EXCEPT ![Legacy] = s.legacy, ![Style] = s.style] : s \in EarlierStyles}
    /\ prefs = saved /\ want = Told(saved)
    /\ shown = Defaults /\ load = NotLoading /\ reads = {} /\ hydrated = {}
    /\ loginItem = FALSE /\ syncs = {} /\ window = "closed" /\ stale = {}
    /\ left = [launch |-> PrefLaunches, change |-> PrefChanges, fail |-> PrefFailures]

PrefNext ==
    \/ StartPanel \/ SavePrefs \/ Quit
    \/ \E k \in Launched : LoadNext(k)
    \/ SyncLoaded \/ migrateLegacyTraySettings \/ deleteStoreKey \/ MigrationFails \/ ShowLoaded
    \/ \E k \in Whole, by \in {"effect", "page"} : hydrate(k, by)
    \/ \E r \in reads : UseReply(r)
    \/ MountStrip \/ ShowStrip
    \/ \E k \in Launched : handleChange(k)
    \/ handleMultiMenubarClick
    \/ \E k \in Whole, f \in Field : setToggle(k, f)
    \/ \E k \in View : toggleStrip(k)
    \/ handleStartOnLoginChange
    \/ \E s \in syncs : syncAutostart(s)
    \/ enableNotifications \/ SkipNotifications \/ GoBack \/ DismissSetup \/ applyStartOnLogin

PrefSpec == PrefInit /\ [][PrefNext]_prefVars

-----------------------------------------------------------------------------

PanelIsQuiet == Loaded /\ hydrated = Whole /\ reads = {} /\ syncs = {} /\ window = "closed"

\* Keys that no failed or late reply, early change or other window has touched.
Undisturbed == Key \ (stale \cup (IF "setup" \in stale THEN {Alerts} ELSE {}))

(***************************************************************************)
(* When nothing is under way, the panel shows and the store holds what the *)
(* user chose last, in this run or in an earlier one whose file was saved, *)
(* for the style of the tray also in the key of an older version; and the  *)
(* system starts the application at login as chosen.  A record keeps the   *)
(* fields that were not changed.  Excepted are the keys the user changed   *)
(* before they were loaded, those whose read or synchronization failed or  *)
(* overlapped another, and the two keys the setup window wrote.            *)
(***************************************************************************)
PreferenceIsKept ==
    PanelIsQuiet =>
        /\ \A k \in Undisturbed : shown[k] = want[k] /\ Read(k, prefs) = want[k]
        /\ Login \in Undisturbed => loginItem = want[Login]

(***************************************************************************)
(* docs/notifications.md says that alerts "are set up during first-run     *)
(* onboarding": those chosen in the setup window are the ones in force.    *)
(***************************************************************************)
SetupAlertsApply == PanelIsQuiet /\ Alerts \notin stale => shown[Alerts] = want[Alerts]
=============================================================================
