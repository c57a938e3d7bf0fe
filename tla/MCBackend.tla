----------------------------- MODULE MCBackend -----------------------------
(* Small instances of Scheduler, of the provider scripts and of the         *)
(* services of the native side for TLC.  The machines share nothing: a      *)
(* behaviour is one of the machine of its scene, and the others stay as     *)
(* they start.                                                              *)
EXTENDS Scheduler, LoginProbe, ClaudeUsageState, CopilotToken, ProviderProbes,
        PricingCache, CcusageQuery, GlobalShortcut, HttpServer, TLC

VARIABLE scene

\* A cycle of several slices, and one shorter than a slice.
Intervals == {1, 7}

Starts == {2}

\* Suspensions that are too short to be noticed, just long enough, and longer
\* than what is left of any cycle.
Naps == {1, 2, 7}

\* Corrections of the clock back, and suspensions.
TheGaps == {-1, 3}

\* The probes of the three machines that have any are interchangeable.
Symmetry == Permutations(Probe)

Stands(s, vs) == IF scene = s THEN TRUE ELSE UNCHANGED vs

\* A machine that is not looked at stands at one of its initial states.
LoginStands == scene # "login" => prov = "kiro" /\ aged = [s \in {1} |-> [upto |-> 0, kind |-> "fresh"]]

ScriptStands == scene # "script" => script = "mock"

SchedulerStands == scene # "scheduler" => interval = 7

PriceStands == scene # "prices" => priceFile = [holds |-> "nothing", mtime |-> 0]

BackendInit ==
    /\ scene \in {"scheduler", "login", "usage", "copilot", "script", "prices", "ccusage", "shortcut", "http"}
    /\ LoginInit /\ LoginStands
    /\ ScriptInit /\ ScriptStands
    /\ Init /\ SchedulerStands
    /\ UsageInit /\ CopilotInit
    /\ PriceInit /\ PriceStands
    /\ QueryInit /\ (scene # "ccusage" => reader = "codex")
    /\ ShortcutInit /\ (scene # "shortcut" => storedShortcut = NoShortcut)
    /\ HttpInit /\ (scene # "http" => newcomer = 1)

BackendNext ==
    /\ \/ scene = "scheduler" /\ Next
       \/ scene = "login" /\ LoginNext
       \/ scene = "usage" /\ UsageNext
       \/ scene = "copilot" /\ CopilotNext
       \/ scene = "script" /\ ScriptNext
       \/ scene = "prices" /\ PriceNext
       \/ scene = "ccusage" /\ QueryNext
       \/ scene = "shortcut" /\ ShortcutNext
       \/ scene = "http" /\ HttpNext
    /\ Stands("scheduler", vars) /\ Stands("login", loginVars) /\ Stands("usage", usageVars)
    /\ Stands("copilot", copilotVars) /\ Stands("script", scriptVars)
    /\ Stands("prices", priceVars) /\ Stands("ccusage", queryVars)
    /\ Stands("shortcut", shortcutVars) /\ Stands("http", httpVars)
    /\ UNCHANGED scene

BackendSpec == BackendInit /\ [][BackendNext]_<<vars, loginVars, usageVars, copilotVars, scriptVars,
                                          priceVars, queryVars, shortcutVars, httpVars, scene>>
=============================================================================
