--------------------------- MODULE GlobalShortcut ---------------------------
(***************************************************************************)
(* The global shortcut of the panel: the choice in the settings view       *)
(* (use-settings-system-actions.ts), the stored choice, and the one that   *)
(* lib.rs has registered with the operating system, which it remembers so  *)
(* as to release it.  Commands of the panel are served in order; the       *)
(* system may refuse to register a shortcut, or to release it.             *)
(***************************************************************************)
EXTENDS Sequences, Naturals

CONSTANTS
    Shortcut,
    MaxPressed  \* bound: commands of the panel on their way

VARIABLES
    runs,            \* the application runs
    storedShortcut,  \* settings.json
    globalShortcut,  \* what the settings view shows
    commands,        \* update_global_shortcut calls on their way
    managed,         \* managed_shortcut_slot
    registered,      \* the shortcuts the system keeps for the application
    refused,         \* history: the last command was refused its registration
    withheld             \* history: a shortcut was not released in this run

shortcutVars == <<runs, storedShortcut, globalShortcut, commands, managed, registered, refused, withheld>>

NoShortcut == "none"

ShortcutInit ==
    /\ runs = FALSE /\ storedShortcut \in Shortcut \cup {NoShortcut}
    /\ globalShortcut = NoShortcut /\ commands = <<>>
    /\ managed = NoShortcut /\ registered = {}
    /\ refused = FALSE /\ withheld = FALSE

\* The shortcut s, if it is one, is registered besides those kept; a shortcut
\* that is taken, also by the application itself, is refused.
on_shortcut(s, kept, known) ==
    \/ s = NoShortcut /\ registered' = kept /\ managed' = s /\ refused' = FALSE
    \/ /\ s \notin kept \cup {NoShortcut}
       /\ registered' = kept \cup {s} /\ managed' = s /\ refused' = FALSE
    \/ s # NoShortcut /\ registered' = kept /\ managed' = known /\ refused' = TRUE

\* At the start; the settings view loads the same stored choice.
setup ==
    /\ ~runs /\ runs' = TRUE
    /\ globalShortcut' = storedShortcut
    /\ on_shortcut(storedShortcut, {}, NoShortcut)
    /\ UNCHANGED <<storedShortcut, commands, withheld>>

\* The save may fail.
handleGlobalShortcutChange(s) ==
    /\ runs /\ Len(commands) < MaxPressed
    /\ globalShortcut' = s
    /\ storedShortcut' \in {s, storedShortcut}
    /\ commands' = Append(commands, s)
    /\ UNCHANGED <<runs, managed, registered, refused, withheld>>

Serve == commands # <<>> /\ commands' = Tail(commands) /\ UNCHANGED <<runs, storedShortcut, globalShortcut>>

Unchanged ==
    /\ Serve /\ Head(commands) = managed
    /\ refused' = FALSE /\ UNCHANGED <<managed, registered, withheld>>

\* The former shortcut is released, and thereby forgotten unless after = "known".
Released(after) ==
    /\ Serve /\ Head(commands) # managed
    /\ on_shortcut(Head(commands), registered \ {managed}, IF after = "known" THEN managed ELSE NoShortcut)
    /\ UNCHANGED withheld

\* The system does not release it; that is only logged.
Withheld ==
    /\ Serve /\ Head(commands) # managed /\ managed # NoShortcut
    /\ on_shortcut(Head(commands), registered, managed)
    /\ withheld' = TRUE

\* The slot is set only once the new shortcut is registered.
update_global_shortcut_Late == Unchanged \/ Released("known") \/ Withheld

update_global_shortcut == Unchanged \/ Released("forgotten") \/ Withheld

EndShortcut ==
    /\ runs /\ runs' = FALSE
    /\ globalShortcut' = NoShortcut /\ commands' = <<>>
    /\ managed' = NoShortcut /\ registered' = {}
    /\ refused' = FALSE /\ withheld' = FALSE
    /\ UNCHANGED storedShortcut

ShortcutNext ==
    \/ setup \/ update_global_shortcut \/ EndShortcut
    \/ \E s \in Shortcut \cup {NoShortcut} : handleGlobalShortcutChange(s)

ShortcutSpec == ShortcutInit /\ [][ShortcutNext]_shortcutVars

(***************************************************************************)
(* Through any sequence of choices, refusals among them, the shortcut that *)
(* the settings view shows is the one that opens the panel, and no former  *)
(* one does, as soon as the commands are served.  Excepted are a choice    *)
(* that the system refuses, as long as it stands, and a run in which the   *)
(* system did not release a shortcut.                                      *)
(***************************************************************************)
ShownIsRegistered ==
    runs /\ commands = <<>> /\ ~refused /\ ~withheld => registered = {globalShortcut} \ {NoShortcut}
=============================================================================
