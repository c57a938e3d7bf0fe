------------------------------ MODULE Accounts ------------------------------
(***************************************************************************)
(* The registered accounts: the secrets the backend keeps on disk          *)
(* (accounts.rs) and the list of accounts the webview keeps in             *)
(* settings.json (use-accounts.ts, add-account-dialog.tsx, settings.tsx).  *)
(*                                                                         *)
(* Two stores, and no transaction over both.  A Codex account arrives      *)
(* through a staging directory in which the CLI signs in; a thread of the  *)
(* backend watches it, moves it to the profile of the account and          *)
(* announces the account, and every mounted useAccounts hook adds it to    *)
(* the list.  The other accounts are written by one command and then       *)
(* listed by the dialog.  Removal deletes the secret and then the entry.   *)
(* Every change of the list is a load, a set and a save with awaits        *)
(* between them.                                                           *)
(*                                                                         *)
(* Labels, the order field and the content of the secrets are left out.    *)
(***************************************************************************)
EXTENDS Naturals, FiniteSets

CONSTANTS
    Login,      \* staging ids: one per run of begin_codex_login
    CodexId,    \* account ids a Codex sign-in can yield
    KeyId,      \* ids of the accounts added with a key or a snapshot
    Hook,       \* the useAccounts hooks that may be mounted
    MainHook,   \* the one of main-app.tsx, always mounted
    MaxUser,    \* bound: changes by the user under way at once
    MaxCrash    \* bound: how often the application dies

ASSUME AccountsAssumption ==
    /\ CodexId \cap KeyId = {}
    /\ {"absent", "empty", "partial"} \cap CodexId = {}
    /\ MainHook \in Hook /\ "user" \notin Hook
    /\ MaxUser \in Nat /\ MaxCrash \in Nat

Account == CodexId \cup KeyId

(***************************************************************************)
(* A finalizer is a call of finalize_codex_login on a login: by its        *)
(* watcher or by the command finish_codex_login.  A task is an             *)
(* asynchronous function of the webview that changes the list.             *)
(***************************************************************************)
Finalizer == [login : Login, by : {"watch", "command"}, id : CodexId, at : {"clear", "move"}]

Task == [by : Hook \cup {"user"}, kind : {"add", "remove"}, id : Account,
         at : {"load", "set", "save"}, seen : SUBSET Account]

VARIABLES
    staging,    \* login -> the staging directory: absent, without auth.json,
                \*   with an unfinished one, or with the one of an account
    watch,      \* login -> the watcher thread of begin_codex_login
    finalizers, \* calls of finalize_codex_login past their read of auth.json
    secret,     \* the accounts whose secret is on disk
    announced,  \* codex:login-complete events not delivered yet
    tasks,      \* asynchronous functions of the webview
    store,      \* the accounts listed in the store of the running process
    file,       \* the accounts listed in settings.json
    crashes,    \* deaths of the application so far
    exposed     \* history: the accounts that met an event that can part
                \*   secret and entry (see ListedHasSecret)

disk    == <<staging, secret, file>>
backend == <<staging, watch, finalizers, secret>>
webview == <<tasks, store, file>>
vars    == <<backend, webview, announced, crashes, exposed>>

TypeOK ==
    /\ staging \in [Login -> {"absent", "empty", "partial"} \cup CodexId]
    /\ watch \in [Login -> {"none", "refused", "sleeping", "found", "missed", "moving", "done"}]
    /\ finalizers \subseteq Finalizer
    /\ secret \subseteq Account
    /\ announced \subseteq Login \X CodexId
    /\ tasks \subseteq Task
    /\ store \subseteq Account
    /\ file \subseteq Account
    /\ crashes \in 0 .. MaxCrash
    /\ exposed \subseteq Account

Init ==
    /\ staging = [l \in Login |-> "absent"]
    /\ watch = [l \in Login |-> "none"]
    /\ finalizers = {}
    /\ secret = {}
    /\ announced = {}
    /\ tasks = {}
    /\ store = {}
    /\ file = {}
    /\ crashes = 0
    /\ exposed = {}

(***************************************************************************)
(* What is under way for an account.                                       *)
(***************************************************************************)
InFlight(id) ==
    \/ \E f \in finalizers : f.id = id
    \/ \E a \in announced : a[2] = id
    \/ \E t \in tasks : t.id = id

BeingRemoved(id) == \E t \in tasks : t.kind = "remove" /\ t.id = id

(***************************************************************************)
(* Signing in.  begin_codex_login makes the staging directory, starts the  *)
(* CLI and the watcher; when the CLI cannot be started there is no watcher *)
(* and the directory stays.                                                *)
(***************************************************************************)
Begin(l) ==
    /\ watch[l] = "none"
    /\ staging' = [staging EXCEPT ![l] = "empty"]
    /\ \E started \in BOOLEAN :
           watch' = [watch EXCEPT ![l] = IF started THEN "sleeping" ELSE "refused"]
    /\ UNCHANGED <<finalizers, secret, webview, announced, crashes, exposed>>

\* The CLI in the staging directory: it may create auth.json a moment before
\* it is complete.  It does not know of the deadline.
SignIn(l) ==
    /\ watch[l] \notin {"none", "refused"}
    /\ \/ staging[l] = "empty" /\ staging' = [staging EXCEPT ![l] = "partial"]
       \/ /\ staging[l] \in {"empty", "partial"}
          /\ \E id \in CodexId : staging' = [staging EXCEPT ![l] = id]
    /\ UNCHANGED <<watch, finalizers, secret, webview, announced, crashes, exposed>>

\* Mutant: the deadline is compared before auth.json is looked for.
Look_DeadlineFirst(l) ==
    /\ watch[l] = "sleeping"
    /\ \E passed \in BOOLEAN :
           watch' = [watch EXCEPT ![l] = IF passed THEN "done"
                                         ELSE IF staging[l] \in CodexId THEN "found" ELSE "missed"]
    /\ UNCHANGED <<staging, finalizers, secret, webview, announced, crashes, exposed>>

\* The watcher wakes up and looks for a complete auth.json first.
Look(l) ==
    /\ watch[l] = "sleeping"
    /\ watch' = [watch EXCEPT ![l] = IF staging[l] \in CodexId THEN "found" ELSE "missed"]
    /\ UNCHANGED <<staging, finalizers, secret, webview, announced, crashes, exposed>>

\* Only when there is none does it compare the clock with the deadline, 300
\* seconds after the start, which may have passed or not.
GiveUpOrSleep(l) ==
    /\ watch[l] = "missed"
    /\ \E passed \in BOOLEAN :
           watch' = [watch EXCEPT ![l] = IF passed THEN "done" ELSE "sleeping"]
    /\ UNCHANGED <<staging, finalizers, secret, webview, announced, crashes, exposed>>

(***************************************************************************)
(* finalize_codex_login: read auth.json, delete the profile of the same    *)
(* account if there is one, rename the staging directory to it.  The       *)
(* rename fails when the staging directory is gone, when the profile is    *)
(* there (a directory that is not empty), and when the disk fails.         *)
(***************************************************************************)
Read(l, by) ==
    /\ by = "watch" => watch[l] = "found"
    /\ staging[l] \in CodexId
    /\ finalizers' = finalizers \cup {[login |-> l, by |-> by, id |-> staging[l], at |-> "clear"]}
    /\ watch' = IF by = "watch" THEN [watch EXCEPT ![l] = "moving"] ELSE watch

\* The directory was moved by the command since the watcher looked.
WatcherReadFails(l) ==
    /\ watch[l] = "found"
    /\ staging[l] \notin CodexId
    /\ watch' = [watch EXCEPT ![l] = "done"]
    /\ UNCHANGED <<staging, finalizers, secret, webview, announced, crashes, exposed>>

WatcherRead(l) ==
    /\ Read(l, "watch")
    /\ exposed' = IF BeingRemoved(staging[l]) THEN exposed \cup {staging[l]} ELSE exposed
    /\ UNCHANGED <<staging, secret, webview, announced, crashes>>

\* finish_codex_login, while the watcher may be at work on the same login
CommandRead(l) ==
    /\ \A f \in finalizers : f.by = "watch"
    /\ Read(l, "command")
    /\ exposed' = exposed \cup {staging[l]}
    /\ UNCHANGED <<staging, secret, webview, announced, crashes>>

\* A failed deletion is ignored; the rename then finds the profile.
Clear(f) ==
    /\ f \in finalizers /\ f.at = "clear"
    /\ finalizers' = (finalizers \ {f}) \cup {[f EXCEPT !.at = "move"]}
    /\ \/ secret' = secret \ {f.id} /\ exposed' = exposed
       \/ f.id \in secret /\ secret' = secret /\ exposed' = exposed \cup {f.id}
    /\ UNCHANGED <<staging, watch, webview, announced, crashes>>

Ends(f) ==
    /\ finalizers' = finalizers \ {f}
    /\ watch' = IF f.by = "watch" THEN [watch EXCEPT ![f.login] = "done"] ELSE watch

Moves(f) ==
    /\ f \in finalizers /\ f.at = "move"
    /\ staging[f.login] # "absent"
    /\ f.id \notin secret
    /\ staging' = [staging EXCEPT ![f.login] = "absent"]
    /\ secret' = secret \cup {f.id}
    /\ announced' = IF f.by = "watch" THEN announced \cup {<<f.login, f.id>>} ELSE announced
    /\ Ends(f)
    /\ UNCHANGED <<webview, crashes, exposed>>

MoveFails(f) ==
    /\ f \in finalizers /\ f.at = "move"
    /\ exposed' = IF staging[f.login] = "absent" \/ f.id \in secret
                  THEN exposed ELSE exposed \cup {f.id}
    /\ Ends(f)
    /\ UNCHANGED <<staging, secret, webview, announced, crashes>>

(***************************************************************************)
(* The webview.  A login-complete event starts a task in every mounted     *)
(* hook.                                                                   *)
(***************************************************************************)
NewTask(by, kind, id) == [by |-> by, kind |-> kind, id |-> id, at |-> "load", seen |-> {}]

Deliver(a) ==
    /\ a \in announced
    /\ announced' = announced \ {a}
    /\ \E mounted \in SUBSET Hook :
           /\ MainHook \in mounted
           /\ tasks' = tasks \cup {NewTask(h, "add", a[2]) : h \in mounted}
    /\ UNCHANGED <<backend, store, file, crashes, exposed>>

UserMayAct == Cardinality({t \in tasks : t.by = "user"}) < MaxUser

\* save_claude_account, save_opencode_go_account and snapshot_cursor_account,
\* then handleSaved of the dialog.  A snapshot may overwrite its account.
AddKey(id) ==
    /\ id \in KeyId /\ UserMayAct
    /\ exposed' = IF BeingRemoved(id) THEN exposed \cup {id} ELSE exposed
    /\ secret' = secret \cup {id}
    /\ tasks' = tasks \cup {NewTask("user", "add", id)}
    /\ UNCHANGED <<staging, watch, finalizers, store, file, announced, crashes>>

\* handleRemove: remove_account deletes the secret, and when that succeeds
\* the entry follows.
Remove(id) ==
    /\ id \in store /\ UserMayAct
    /\ exposed' = IF InFlight(id) THEN exposed \cup {id} ELSE exposed
    /\ secret' = secret \ {id}
    /\ tasks' = tasks \cup {NewTask("user", "remove", id)}
    /\ UNCHANGED <<staging, watch, finalizers, store, file, announced, crashes>>

\* The deletion of a profile that fails half way: the entry stays.
RemoveFails(id) ==
    /\ id \in store
    /\ secret' = secret \ {id}
    /\ exposed' = exposed \cup {id}
    /\ UNCHANGED <<staging, watch, finalizers, webview, announced, crashes>>

Load(t) ==
    /\ t \in tasks /\ t.at = "load"
    /\ tasks' = (tasks \ {t}) \cup {[t EXCEPT !.at = "set", !.seen = store]}
    /\ UNCHANGED <<backend, store, file, announced, crashes, exposed>>

Edited(t, list) == IF t.kind = "add" THEN list \cup {t.id} ELSE list \ {t.id}

\* The list set is made from the one that was loaded, whatever the store
\* holds now: what another task changed in between is undone.
Undone(t) ==
    LET old == Edited(t, t.seen)
        new == Edited(t, store)
    IN  (old \ new) \cup (new \ old)

Set(t) ==
    /\ t \in tasks /\ t.at = "set"
    /\ store' = Edited(t, t.seen)
    /\ exposed' = exposed \cup Undone(t)
    /\ tasks' = (tasks \ {t}) \cup {[t EXCEPT !.at = "save", !.seen = {}]}
    /\ UNCHANGED <<backend, file, announced, crashes>>

\* Mutant: the store is set and not saved.
Save_NotSaved(t) ==
    /\ t \in tasks /\ t.at = "save"
    /\ tasks' = tasks \ {t}
    /\ UNCHANGED <<backend, store, file, announced, crashes, exposed>>

Save(t) ==
    /\ t \in tasks /\ t.at = "save"
    /\ tasks' = tasks \ {t}
    /\ \/ file' = store /\ exposed' = exposed
       \/ file' = file /\ exposed' = exposed \cup {t.id}
    /\ UNCHANGED <<backend, store, announced, crashes>>

(***************************************************************************)
(* The application dies: threads, events and tasks are gone, the disk      *)
(* stays.  The CLI is a process of its own and may still sign in, but no   *)
(* thread looks at a staging directory that an earlier process made.       *)
(***************************************************************************)
Watched(l) == watch[l] \in {"sleeping", "found", "missed", "moving"}

Crash ==
    /\ crashes < MaxCrash
    /\ crashes' = crashes + 1
    /\ watch' = [l \in Login |-> IF Watched(l) THEN "done" ELSE watch[l]]
    /\ finalizers' = {}
    /\ announced' = {}
    /\ tasks' = {}
    /\ store' = file
    /\ exposed' = exposed \cup {id \in Account :
           InFlight(id) \/ \E l \in Login : Watched(l) /\ staging[l] = id}
    /\ UNCHANGED disk

LoginStep(l) ==
    \/ Look(l) \/ GiveUpOrSleep(l) \/ WatcherRead(l) \/ WatcherReadFails(l)

FinalizerStep(f) == Clear(f) \/ Moves(f) \/ MoveFails(f)

TaskStep(t) == Load(t) \/ Set(t) \/ Save(t)

Next ==
    \/ \E l \in Login :
           Begin(l) \/ SignIn(l) \/ LoginStep(l) \/ CommandRead(l)
    \/ \E f \in finalizers : FinalizerStep(f)
    \/ \E a \in announced : Deliver(a)
    \/ \E id \in Account : AddKey(id) \/ Remove(id) \/ RemoveFails(id)
    \/ \E t \in tasks : TaskStep(t)
    \/ Crash

Spec == Init /\ [][Next]_vars

(***************************************************************************)
(* Fairness: threads run and the clock advances, events are delivered and  *)
(* the promises of the webview settle.  Nothing is assumed of the user,    *)
(* of the CLI and of crashes.                                              *)
(***************************************************************************)
Fairness ==
    /\ \A l \in Login : WF_vars(LoginStep(l))
    /\ \A l \in Login : WF_vars(\E f \in finalizers : f.login = l /\ FinalizerStep(f))
    /\ WF_vars(\E a \in announced : Deliver(a))
    /\ \A by \in Hook \cup {"user"}, id \in Account :
           WF_vars(\E t \in tasks : t.by = by /\ t.id = id /\ TaskStep(t))

FairSpec == Spec /\ Fairness

(***************************************************************************)
(* An account nothing is under way for is listed in settings.json if and   *)
(* only if its secret is on disk, whatever happened to the other accounts, *)
(* in whatever order sign-ins, additions and removals of both kinds and    *)
(* the saves of the list interleave.  The exceptions are those recorded in *)
(* exposed: a failed write, a death in mid-flight, a removal or a manual   *)
(* finish while the same account is being added, and a change of the list  *)
(* undone by a set made from a list loaded before it.                      *)
(***************************************************************************)
ListedHasSecret ==
    \A id \in Account \ exposed : ~InFlight(id) => (id \in file <=> id \in secret)

(***************************************************************************)
(* A sign-in that is complete while its watcher sleeps gets its account    *)
(* listed, even when the deadline passes before the watcher wakes up.      *)
(***************************************************************************)
SignInIsListed ==
    \A l \in Login, id \in CodexId :
        (watch[l] = "sleeping" /\ staging[l] = id) ~> (id \in store \/ id \in exposed)

(***************************************************************************)
(* The safety half of it.  A complete sign-in is carried to the list: by   *)
(* the watcher that sleeps or has found it, by the finalizer of that       *)
(* watcher, by the event, by a task that has not set the list yet.  No     *)
(* step drops it before it is listed, be it a deadline, a second sign-in   *)
(* that races it for the profile, or the removal of another account.       *)
(***************************************************************************)
Carried(id) ==
    \/ \E l \in Login : watch[l] \in {"sleeping", "found"} /\ staging[l] = id
    \/ \E f \in finalizers : f.by = "watch" /\ f.id = id
    \/ \E a \in announced : a[2] = id
    \/ \E t \in tasks : t.id = id /\ t.kind = "add" /\ t.at # "save"

SignInIsCarried ==
    [][\A id \in CodexId :
         Carried(id) => Carried(id)' \/ id \in store' \/ id \in exposed']_vars
=============================================================================
