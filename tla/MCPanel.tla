------------------------------ MODULE MCPanel ------------------------------
(* Small instances of the panel's own machines for TLC: the pace alerts,   *)
(* the application's updates, the shown providers and the preferences.     *)
(* They share nothing but the settings, so a behaviour is one of the       *)
(* machine of its scene, and the others stay as they start.                *)
EXTENDS PaceNotifications, AppUpdate, ProviderSettings, Preferences

CONSTANT Scenes   \* the machines a run looks at

VARIABLE scene

PaceScene == {"pace"}
UpdateScene == {"update"}
AlertsScene == {"alerts"}
EveryScene == {"pace", "update", "providers", "preferences", "strip", "alerts"}

\* Instants before, inside and after the first 5 % of two windows, and
\* amounts that are ahead, on track and behind at the different instants.
TheLevels == {0, 45, 60, 92, 99, 100}
TheMoments == {1, 20, 38, 41, 60, 78}
SomeSettings == {{}, {"closeToRunningOut"}, {"underTenPercent", "sessionReset"}, Milestones}
Calm == {"noData", "fail"}

\* One provider of an earlier name, one that is detected or not, and one that
\* needs its key.
TheProviders == <<"claude", "devin", "openrouter">>
Detected == {{}, {"claude"}}
Fresh == [plugins |-> Missing, done |-> FALSE]
SettingsFiles ==
    {Fresh,
     [plugins |-> [order |-> <<"windsurf", "claude">>, disabled |-> {"windsurf"}], done |-> TRUE],
     [plugins |-> [order |-> <<"claude", "devin", "windsurf">>, disabled |-> {"devin"}], done |-> TRUE]}

\* The keys of the load that something else depends on.
TheLoad == <<"startOnLogin", Sync, Migrate, "menubarIconStyle", "multiTrayProviderCount">>
TrayStyles ==
    {[legacy |-> "circle", style |-> Absent], [legacy |-> "bars", style |-> "multi"],
     [legacy |-> Absent, style |-> Foreign]}

-----------------------------------------------------------------------------

\* A machine that is not looked at stands at one of its initial states.
PaceStands == scene # "pace" => now = 1 /\ used = 0
UpdateStands == scene # "update" => ~betaUpdatesEnabled /\ \A c \in Channels : published[c] = None
ProvidersStand == scene # "providers" => file = Fresh
PreferencesStand == scene # "preferences" <=> saved[Style] = Foreign

\* The preferences come in parts that share no key but startOnLogin: those of
\* the launch, the strip, and the alerts with the setup window, which is a
\* second place to change them: one change fewer is left to the panel.
Parts == {"preferences", "strip", "alerts"}
Keeps(ks) == PanelRuns => \A k \in ks : prefs'[k] = prefs[k]
InPart ==
    /\ scene # "alerts" => window' = "closed" /\ \A r \in reads' : r.by # "page"
    /\ scene # "strip" => \A r \in reads' : r.key \notin View
    /\ scene = "preferences" => Keeps(Key \ Launched)
    /\ scene = "strip" => Keeps(Key \ View)
    /\ scene = "alerts" => /\ Keeps(Key \ {Alerts, Login}) /\ left'.change > 0
                           /\ shown'[Login] = shown[Login] \/ load' # load

PanelInit ==
    /\ scene \in Scenes
    /\ Init /\ PaceStands
    /\ UpdateInit /\ UpdateStands
    /\ ProviderInit /\ ProvidersStand
    /\ PrefInit /\ PreferencesStand

PanelNext ==
    /\ \/ scene = "pace" /\ Next
       \/ scene = "update" /\ UpdateNext
       \/ scene = "providers" /\ ProviderNext
       \/ scene \in Parts /\ PrefNext /\ InPart
    /\ IF scene = "pace" THEN TRUE ELSE UNCHANGED vars
    /\ IF scene = "update" THEN TRUE ELSE UNCHANGED updateVars
    /\ IF scene = "providers" THEN TRUE ELSE UNCHANGED providerVars
    /\ IF scene \in Parts THEN TRUE ELSE UNCHANGED prefVars
    /\ UNCHANGED scene

PanelSpec == PanelInit /\ [][PanelNext]_<<vars, updateVars, providerVars, prefVars, scene>>
=============================================================================
