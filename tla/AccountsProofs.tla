--------------------------- MODULE AccountsProofs ---------------------------
(***************************************************************************)
(* For any number of sign-ins, accounts, hooks, user changes and deaths of *)
(* the application: Accounts is well typed, and an account nothing is      *)
(* under way for is listed if and only if its secret is on disk.           *)
(***************************************************************************)
EXTENDS Accounts, TLAPS

(***************************************************************************)
(* The inductive invariant.  Everything but OwnInv speaks of the accounts  *)
(* that are not exposed.                                                   *)
(***************************************************************************)
\* A finalizer works on a staging directory that holds its account until
\* somebody moves it, and a watcher has at most one finalizer.
OwnInv ==
    /\ \A l \in Login : watch[l] = "none" => staging[l] = "absent"
    /\ \A f \in finalizers :
           /\ watch[f.login] # "none"
           /\ staging[f.login] \in {f.id, "absent"}
           /\ f.by = "watch" => watch[f.login] = "moving"
           /\ f.id \notin exposed => f.by = "watch" /\ staging[f.login] = f.id
    /\ \A f, g \in finalizers :
           f.by = "watch" /\ g.by = "watch" /\ f.login = g.login => f = g

\* A removal is alone with its account, whose secret is gone.
RemovalInv ==
    \A t \in tasks : t.kind = "remove" /\ t.id \notin exposed =>
        /\ t.id \notin secret
        /\ \A f \in finalizers : f.id # t.id
        /\ \A a \in announced : a[2] # t.id
        /\ \A u \in tasks : u.id = t.id => u = t

\* Once set, an entry stays set until it is saved.
SetInv ==
    \A t \in tasks : t.at = "save" /\ t.id \notin exposed =>
        (t.id \in store <=> t.kind = "add")

\* The store and settings.json differ only in entries not saved yet.
SavedInv ==
    \A id \in Account \ exposed :
        (\A t \in tasks : t.id = id => t.at # "save") => (id \in store <=> id \in file)

\* Some task will list an account.
ToBeListed(id) ==
    \/ \E a \in announced : a[2] = id
    \/ \E t \in tasks : t.id = id /\ t.kind = "add" /\ t.at # "save"

\* A secret is listed or will be.
KeptInv ==
    \A id \in secret \ exposed : id \in store \/ ToBeListed(id)

\* What is listed or will be has its secret, save while it is removed or
\* replaced.
WholeInv ==
    \A id \in Account \ exposed :
        \/ \E t \in tasks : t.id = id /\ t.kind = "remove"
        \/ \E f \in finalizers : f.id = id /\ f.at = "move"
        \/ (id \in store \/ ToBeListed(id)) => id \in secret

Inv == OwnInv /\ RemovalInv /\ SetInv /\ SavedInv /\ KeptInv /\ WholeInv
IInv == TypeOK /\ Inv
-----------------------------------------------------------------------------
LEMMA Constants ==
  /\ CodexId \cap KeyId = {}
  /\ "absent" \notin CodexId /\ "empty" \notin CodexId /\ "partial" \notin CodexId
  /\ MaxCrash \in Nat
  /\ CodexId \subseteq Account /\ KeyId \subseteq Account
  /\ MainHook \in Hook /\ "user" \notin Hook
BY AccountsAssumption DEF AccountsAssumption, Account

LEMMA InitIInv == Init => IInv
<1> SUFFICES ASSUME Init PROVE IInv
  OBVIOUS
<1>1. TypeOK
  BY Constants DEF Init, TypeOK
<1>2. Inv
  BY DEF Init, Inv, OwnInv, RemovalInv, SetInv, SavedInv, KeptInv, WholeInv, ToBeListed
<1> QED
  BY <1>1, <1>2 DEF IInv

-----------------------------------------------------------------------------
(* Signing in.                                                             *)

\* The invariant but for OwnInv does not look at staging directories and
\* watchers.
LEMMA RestIsBlind ==
  ASSUME Inv, UNCHANGED <<finalizers, secret, webview, announced, exposed>>
  PROVE  RemovalInv' /\ SetInv' /\ SavedInv' /\ KeptInv' /\ WholeInv'
BY DEF Inv, RemovalInv, SetInv, SavedInv, KeptInv, WholeInv, ToBeListed, webview

LEMMA BeginInv ==
  ASSUME IInv, NEW l \in Login, Begin(l)
  PROVE  IInv'
<1>1. TypeOK'
  BY DEF IInv, TypeOK, Begin, webview
<1>2. OwnInv'
  BY DEF IInv, Inv, TypeOK, OwnInv, Begin, Finalizer
<1> QED
  BY <1>1, <1>2, RestIsBlind DEF IInv, Inv, Begin

LEMMA SignInInv ==
  ASSUME IInv, NEW l \in Login, SignIn(l)
  PROVE  IInv'
<1>1. TypeOK'
  BY DEF IInv, TypeOK, SignIn, webview
<1>2. OwnInv'
  BY Constants DEF IInv, Inv, TypeOK, OwnInv, SignIn, Finalizer
<1> QED
  BY <1>1, <1>2, RestIsBlind DEF IInv, Inv, SignIn

LEMMA WatcherInv ==
  ASSUME IInv, NEW l \in Login, Look(l) \/ GiveUpOrSleep(l) \/ WatcherReadFails(l)
  PROVE  IInv'
<1>1. TypeOK'
  BY DEF IInv, TypeOK, Look, GiveUpOrSleep, WatcherReadFails, webview
<1>2. OwnInv'
  BY DEF IInv, Inv, TypeOK, OwnInv, Look, GiveUpOrSleep, WatcherReadFails, Finalizer
<1>3. UNCHANGED <<finalizers, secret, webview, announced, exposed>>
  BY DEF Look, GiveUpOrSleep, WatcherReadFails
<1> QED
  BY <1>1, <1>2, <1>3, RestIsBlind DEF IInv, Inv

-----------------------------------------------------------------------------
(* finalize_codex_login.                                                   *)

LEMMA WatcherReadInv ==
  ASSUME IInv, NEW l \in Login, WatcherRead(l)
  PROVE  IInv'
<1> DEFINE new == [login |-> l, by |-> "watch", id |-> staging[l], at |-> "clear"]
<1>1. /\ watch[l] = "found" /\ staging[l] \in CodexId
      /\ finalizers' = finalizers \cup {new}
      /\ watch' = [watch EXCEPT ![l] = "moving"]
      /\ exposed' = IF BeingRemoved(staging[l]) THEN exposed \cup {staging[l]} ELSE exposed
      /\ UNCHANGED <<staging, secret, tasks, store, file, announced, crashes>>
  BY DEF WatcherRead, Read, webview
<1>2. new \in Finalizer
  BY <1>1 DEF Finalizer
<1>3. TypeOK'
  BY <1>1, <1>2, Constants DEF IInv, TypeOK
<1>4. OwnInv'
  BY <1>1, <1>2, Constants DEF IInv, Inv, TypeOK, OwnInv, Finalizer
<1>5. RemovalInv'
  BY <1>1 DEF IInv, Inv, TypeOK, RemovalInv, BeingRemoved
<1>6. SetInv' /\ SavedInv'
  BY <1>1 DEF IInv, Inv, SetInv, SavedInv
<1>7. KeptInv' /\ WholeInv'
  BY <1>1 DEF IInv, Inv, KeptInv, WholeInv, ToBeListed
<1> QED
  BY <1>3, <1>4, <1>5, <1>6, <1>7 DEF IInv, Inv

LEMMA CommandReadInv ==
  ASSUME IInv, NEW l \in Login, CommandRead(l)
  PROVE  IInv'
<1> DEFINE new == [login |-> l, by |-> "command", id |-> staging[l], at |-> "clear"]
<1>1. /\ staging[l] \in CodexId
      /\ finalizers' = finalizers \cup {new}
      /\ exposed' = exposed \cup {staging[l]}
      /\ UNCHANGED <<staging, watch, secret, tasks, store, file, announced, crashes>>
  BY DEF CommandRead, Read, webview
<1>2. new \in Finalizer
  BY <1>1 DEF Finalizer
<1>3. TypeOK'
  BY <1>1, <1>2, Constants DEF IInv, TypeOK
<1>4. OwnInv'
  BY <1>1, <1>2, Constants DEF IInv, Inv, TypeOK, OwnInv, Finalizer
<1>5. RemovalInv'
  BY <1>1 DEF IInv, Inv, TypeOK, RemovalInv
<1>6. SetInv' /\ SavedInv'
  BY <1>1 DEF IInv, Inv, SetInv, SavedInv
<1>7. KeptInv' /\ WholeInv'
  BY <1>1 DEF IInv, Inv, KeptInv, WholeInv, ToBeListed
<1> QED
  BY <1>3, <1>4, <1>5, <1>6, <1>7 DEF IInv, Inv

LEMMA ClearInv ==
  ASSUME IInv, NEW f \in finalizers, Clear(f)
  PROVE  IInv'
<1> DEFINE new == [f EXCEPT !.at = "move"]
<1>1. /\ f.at = "clear"
      /\ finalizers' = (finalizers \ {f}) \cup {new}
      /\ \/ secret' = secret \ {f.id} /\ exposed' = exposed
         \/ secret' = secret /\ exposed' = exposed \cup {f.id}
      /\ UNCHANGED <<staging, watch, tasks, store, file, announced, crashes>>
  BY DEF Clear, webview
<1>2. /\ f \in Finalizer /\ new \in Finalizer
      /\ new.login = f.login /\ new.by = f.by /\ new.id = f.id /\ new.at = "move"
      /\ f.id \in Account
  BY Constants DEF IInv, TypeOK, Finalizer
<1> HIDE DEF new
<1>3. TypeOK'
  BY <1>1, <1>2 DEF IInv, TypeOK
<1>4. OwnInv'
  BY <1>1, <1>2 DEF IInv, Inv, TypeOK, OwnInv, Finalizer
<1>5. RemovalInv'
  BY <1>1, <1>2 DEF IInv, Inv, RemovalInv
<1>6. SetInv' /\ SavedInv'
  BY <1>1 DEF IInv, Inv, SetInv, SavedInv
<1>7. KeptInv'
  BY <1>1 DEF IInv, Inv, KeptInv, ToBeListed
<1>8. WholeInv'
  BY <1>1, <1>2 DEF IInv, Inv, WholeInv, ToBeListed
<1> QED
  BY <1>3, <1>4, <1>5, <1>6, <1>7, <1>8 DEF IInv, Inv

LEMMA EndsType ==
  ASSUME TypeOK, NEW f \in finalizers, Ends(f)
  PROVE  /\ f \in Finalizer /\ f.id \in Account /\ f.id \in CodexId /\ f.login \in Login
         /\ finalizers' = finalizers \ {f}
         /\ watch' \in [Login -> {"none", "refused", "sleeping", "found", "missed", "moving", "done"}]
         /\ \A l \in Login : watch[l] # "none" => watch'[l] # "none"
         /\ \A l \in Login : watch'[l] # watch[l] => f.by = "watch" /\ l = f.login
BY Constants DEF TypeOK, Ends, Finalizer

LEMMA MovesInv ==
  ASSUME IInv, NEW f \in finalizers, Moves(f)
  PROVE  IInv'
<1>1. /\ f.at = "move"
      /\ staging' = [staging EXCEPT ![f.login] = "absent"]
      /\ secret' = secret \cup {f.id}
      /\ announced' = IF f.by = "watch" THEN announced \cup {<<f.login, f.id>>} ELSE announced
      /\ UNCHANGED <<tasks, store, file, crashes, exposed>>
  BY DEF Moves, webview
<1>2. Ends(f)
  BY DEF Moves
<1>3. /\ f \in Finalizer /\ f.id \in Account /\ f.id \in CodexId /\ f.login \in Login
      /\ finalizers' = finalizers \ {f}
      /\ watch' \in [Login -> {"none", "refused", "sleeping", "found", "missed", "moving", "done"}]
      /\ \A l \in Login : watch[l] # "none" => watch'[l] # "none"
      /\ \A l \in Login : watch'[l] # watch[l] => f.by = "watch" /\ l = f.login
  BY <1>2, EndsType DEF IInv
<1>4. TypeOK'
  <2>1. announced' \subseteq Login \X CodexId
    BY <1>1, <1>3 DEF IInv, TypeOK
  <2>2. staging' \in [Login -> {"absent", "empty", "partial"} \cup CodexId]
    BY <1>1 DEF IInv, TypeOK
  <2> QED
    BY <1>1, <1>3, <2>1, <2>2 DEF IInv, TypeOK
<1>5. OwnInv'
  <2>1. ASSUME NEW l \in Login, watch'[l] = "none" PROVE staging'[l] = "absent"
    BY <1>1, <1>3, <2>1 DEF IInv, Inv, TypeOK, OwnInv
  <2>2. ASSUME NEW g \in finalizers' PROVE g \in finalizers /\ g # f /\ g \in Finalizer
    BY <1>3, <2>2 DEF IInv, TypeOK
  <2>3. ASSUME NEW g \in finalizers', g.login = f.login PROVE g.id \in exposed /\ ~(g.by = "watch" /\ f.by = "watch")
    <3>1. g.id # "absent" /\ f.id # "absent"
      BY <2>2, <1>3, Constants DEF Finalizer
    <3>2. ~(g.by = "watch" /\ f.by = "watch")
      BY <2>2, <2>3 DEF IInv, Inv, OwnInv
    <3>3. staging[f.login] \in {f.id, "absent"} /\ staging[f.login] \in {g.id, "absent"}
      BY <2>2, <2>3 DEF IInv, Inv, OwnInv
    <3>4. staging[f.login] # "absent"
      BY DEF Moves
    <3> QED
      BY <2>2, <2>3, <3>2, <3>3, <3>4 DEF IInv, Inv, OwnInv
  <2>4. ASSUME NEW g \in finalizers'
        PROVE  /\ watch'[g.login] # "none"
               /\ staging'[g.login] \in {g.id, "absent"}
               /\ g.by = "watch" => watch'[g.login] = "moving"
               /\ g.id \notin exposed' => g.by = "watch" /\ staging'[g.login] = g.id
    <3>1. g.login \in Login
      BY <2>2 DEF Finalizer
    <3>2. CASE g.login = f.login
      BY <1>1, <1>3, <2>2, <2>3, <3>1, <3>2 DEF IInv, Inv, TypeOK, OwnInv
    <3>3. CASE g.login # f.login
      BY <1>1, <1>3, <2>2, <3>1, <3>3 DEF IInv, Inv, TypeOK, OwnInv
    <3> QED
      BY <3>2, <3>3
  <2> QED
    BY <2>1, <2>2, <2>4 DEF IInv, Inv, OwnInv
<1>6. RemovalInv'
  BY <1>1, <1>3 DEF IInv, Inv, RemovalInv
<1>7. SetInv' /\ SavedInv'
  BY <1>1 DEF IInv, Inv, SetInv, SavedInv
<1>8. KeptInv'
  <2>1. f.id \in exposed \/ \E a \in announced' : a[2] = f.id
    <3>1. CASE f.by = "watch"
      <4>1. <<f.login, f.id>> \in announced' /\ <<f.login, f.id>>[2] = f.id
        BY <1>1, <3>1
      <4> QED
        BY <4>1
    <3>2. CASE f.by # "watch"
      BY <3>2 DEF IInv, Inv, OwnInv
    <3> QED
      BY <3>1, <3>2
  <2> QED
    BY <1>1, <2>1 DEF IInv, Inv, KeptInv, ToBeListed
<1>9. WholeInv'
  BY <1>1, <1>3 DEF IInv, Inv, WholeInv, ToBeListed
<1> QED
  BY <1>4, <1>5, <1>6, <1>7, <1>8, <1>9 DEF IInv, Inv

LEMMA MoveFailsInv ==
  ASSUME IInv, NEW f \in finalizers, MoveFails(f)
  PROVE  IInv'
<1>1. /\ exposed' = IF staging[f.login] = "absent" \/ f.id \in secret
                    THEN exposed ELSE exposed \cup {f.id}
      /\ UNCHANGED <<staging, secret, tasks, store, file, announced, crashes>>
  BY DEF MoveFails, webview
<1>2. Ends(f)
  BY DEF MoveFails
<1>3. /\ f \in Finalizer /\ f.id \in Account /\ f.id \in CodexId /\ f.login \in Login
      /\ finalizers' = finalizers \ {f}
      /\ watch' \in [Login -> {"none", "refused", "sleeping", "found", "missed", "moving", "done"}]
      /\ \A l \in Login : watch[l] # "none" => watch'[l] # "none"
      /\ \A l \in Login : watch'[l] # watch[l] => f.by = "watch" /\ l = f.login
  BY <1>2, EndsType DEF IInv
<1>4. TypeOK'
  BY <1>1, <1>3 DEF IInv, TypeOK
<1>5. OwnInv'
  BY <1>1, <1>3 DEF IInv, Inv, TypeOK, OwnInv, Finalizer
<1>6. RemovalInv'
  BY <1>1, <1>3 DEF IInv, Inv, RemovalInv
<1>7. SetInv' /\ SavedInv' /\ KeptInv'
  BY <1>1 DEF IInv, Inv, SetInv, SavedInv, KeptInv, ToBeListed
<1>8. f.id \in secret \/ f.id \in exposed'
  BY <1>1, <1>3, Constants DEF IInv, Inv, OwnInv
<1>9. WholeInv'
  BY <1>1, <1>3, <1>8 DEF IInv, Inv, WholeInv, ToBeListed
<1> QED
  BY <1>4, <1>5, <1>6, <1>7, <1>9 DEF IInv, Inv

-----------------------------------------------------------------------------
(* The webview.                                                            *)

LEMMA OwnIsBlind ==
  ASSUME Inv, UNCHANGED <<staging, watch, finalizers>>, exposed \subseteq exposed'
  PROVE  OwnInv'
BY DEF Inv, OwnInv

LEMMA NewTaskType ==
  ASSUME NEW by \in Hook \cup {"user"}, NEW kind \in {"add", "remove"}, NEW id \in Account
  PROVE  /\ NewTask(by, kind, id) \in Task
         /\ NewTask(by, kind, id).id = id /\ NewTask(by, kind, id).kind = kind
         /\ NewTask(by, kind, id).at = "load"
BY DEF NewTask, Task

LEMMA DeliverInv ==
  ASSUME IInv, NEW a \in announced, Deliver(a)
  PROVE  IInv'
<1>1. PICK mounted \in SUBSET Hook :
        /\ MainHook \in mounted
        /\ tasks' = tasks \cup {NewTask(h, "add", a[2]) : h \in mounted}
  BY DEF Deliver
<1>2. /\ announced' = announced \ {a}
      /\ UNCHANGED <<staging, watch, finalizers, secret, store, file, crashes, exposed>>
  BY DEF Deliver, backend
<1>3. a[2] \in Account /\ a[2] \in CodexId
  BY Constants DEF IInv, TypeOK
<1>4. \A t \in tasks' \ tasks :
        t \in Task /\ t.id = a[2] /\ t.kind = "add" /\ t.at = "load"
  BY <1>1, <1>3, NewTaskType
<1>5. /\ tasks \subseteq tasks'
      /\ \E t \in tasks' : t.id = a[2] /\ t.kind = "add" /\ t.at = "load"
  <2>1. NewTask(MainHook, "add", a[2]) \in tasks'
    BY <1>1
  <2> QED
    BY <1>1, <1>3, <2>1, Constants, NewTaskType
<1>6. TypeOK'
  BY <1>2, <1>4 DEF IInv, TypeOK
<1>7. OwnInv'
  BY <1>2, OwnIsBlind DEF IInv
<1>8. RemovalInv'
  BY <1>2, <1>4, <1>5 DEF IInv, Inv, RemovalInv
<1>9. SetInv' /\ SavedInv'
  BY <1>2, <1>4, <1>5 DEF IInv, Inv, SetInv, SavedInv
<1>10. \A id : ToBeListed(id) <=> ToBeListed(id)'
  BY <1>2, <1>4, <1>5 DEF ToBeListed
<1>11. KeptInv'
  BY <1>2, <1>10 DEF IInv, Inv, KeptInv
<1>12. WholeInv'
  BY <1>2, <1>5, <1>10 DEF IInv, Inv, WholeInv
<1> QED
  BY <1>6, <1>7, <1>8, <1>9, <1>11, <1>12 DEF IInv, Inv

LEMMA AddKeyInv ==
  ASSUME IInv, NEW id \in Account, AddKey(id)
  PROVE  IInv'
<1> DEFINE t == NewTask("user", "add", id)
<1>1. /\ id \in KeyId
      /\ exposed' = IF BeingRemoved(id) THEN exposed \cup {id} ELSE exposed
      /\ secret' = secret \cup {id}
      /\ tasks' = tasks \cup {t}
      /\ UNCHANGED <<staging, watch, finalizers, store, file, announced, crashes>>
  BY DEF AddKey
<1>2. t \in Task /\ t.id = id /\ t.kind = "add" /\ t.at = "load"
  BY NewTaskType
<1> HIDE DEF t
<1>3. TypeOK'
  BY <1>1, <1>2 DEF IInv, TypeOK
<1>4. OwnInv'
  BY <1>1, OwnIsBlind DEF IInv
<1>5. RemovalInv'
  BY <1>1, <1>2 DEF IInv, Inv, RemovalInv, BeingRemoved
<1>6. SetInv' /\ SavedInv'
  BY <1>1, <1>2 DEF IInv, Inv, SetInv, SavedInv
<1>7. KeptInv' /\ WholeInv'
  BY <1>1, <1>2 DEF IInv, Inv, KeptInv, WholeInv, ToBeListed
<1> QED
  BY <1>3, <1>4, <1>5, <1>6, <1>7 DEF IInv, Inv

LEMMA RemoveInv ==
  ASSUME IInv, NEW id \in Account, Remove(id)
  PROVE  IInv'
<1> DEFINE t == NewTask("user", "remove", id)
<1>1. /\ exposed' = IF InFlight(id) THEN exposed \cup {id} ELSE exposed
      /\ secret' = secret \ {id}
      /\ tasks' = tasks \cup {t}
      /\ UNCHANGED <<staging, watch, finalizers, store, file, announced, crashes>>
  BY DEF Remove
<1>2. t \in Task /\ t.id = id /\ t.kind = "remove" /\ t.at = "load"
  BY NewTaskType
<1> HIDE DEF t
<1>3. TypeOK'
  BY <1>1, <1>2 DEF IInv, TypeOK
<1>4. OwnInv'
  BY <1>1, OwnIsBlind DEF IInv
<1>5. RemovalInv'
  BY <1>1, <1>2 DEF IInv, Inv, RemovalInv, InFlight
<1>6. SetInv' /\ SavedInv'
  BY <1>1, <1>2 DEF IInv, Inv, SetInv, SavedInv
<1>7. KeptInv' /\ WholeInv'
  BY <1>1, <1>2 DEF IInv, Inv, KeptInv, WholeInv, ToBeListed
<1> QED
  BY <1>3, <1>4, <1>5, <1>6, <1>7 DEF IInv, Inv

LEMMA RemoveFailsInv ==
  ASSUME IInv, NEW id \in Account, RemoveFails(id)
  PROVE  IInv'
<1>1. /\ secret' = secret \ {id}
      /\ exposed' = exposed \cup {id}
      /\ UNCHANGED <<staging, watch, finalizers, tasks, store, file, announced, crashes>>
  BY DEF RemoveFails, webview
<1>2. TypeOK'
  BY <1>1 DEF IInv, TypeOK
<1>3. OwnInv'
  BY <1>1, OwnIsBlind DEF IInv
<1>4. RemovalInv' /\ SetInv' /\ SavedInv'
  BY <1>1 DEF IInv, Inv, RemovalInv, SetInv, SavedInv
<1>5. KeptInv' /\ WholeInv'
  BY <1>1 DEF IInv, Inv, KeptInv, WholeInv, ToBeListed
<1> QED
  BY <1>2, <1>3, <1>4, <1>5 DEF IInv, Inv

LEMMA LoadInv ==
  ASSUME IInv, NEW t \in tasks, Load(t)
  PROVE  IInv'
<1> DEFINE u == [t EXCEPT !.at = "set", !.seen = store]
<1>1. /\ t.at = "load"
      /\ tasks' = (tasks \ {t}) \cup {u}
      /\ UNCHANGED <<staging, watch, finalizers, secret, store, file, announced, crashes, exposed>>
  BY DEF Load, backend
<1>2. t \in Task /\ u \in Task /\ u.id = t.id /\ u.kind = t.kind /\ u.at = "set"
  BY DEF IInv, TypeOK, Task
<1> HIDE DEF u
<1>3. TypeOK'
  BY <1>1, <1>2 DEF IInv, TypeOK
<1>4. OwnInv'
  BY <1>1, OwnIsBlind DEF IInv
<1>5. RemovalInv'
  BY <1>1, <1>2 DEF IInv, Inv, RemovalInv
<1>6. SetInv' /\ SavedInv'
  BY <1>1, <1>2 DEF IInv, Inv, SetInv, SavedInv
<1>7. \A id : ToBeListed(id) <=> ToBeListed(id)'
  BY <1>1, <1>2 DEF ToBeListed
<1>8. KeptInv' /\ WholeInv'
  BY <1>1, <1>2, <1>7 DEF IInv, Inv, KeptInv, WholeInv
<1> QED
  BY <1>3, <1>4, <1>5, <1>6, <1>8 DEF IInv, Inv

\* A set leaves the other accounts that stay unexposed as they were.
LEMMA SetOthers ==
  ASSUME TypeOK, NEW t \in tasks, Set(t)
  PROVE  /\ t.id \in store' <=> t.kind = "add"
         /\ \A id \in Account \ exposed' : id # t.id => (id \in store' <=> id \in store)
         /\ store' \in SUBSET Account /\ exposed' \in SUBSET Account
         /\ exposed \subseteq exposed'
BY DEF TypeOK, Task, Set, Undone, Edited

LEMMA SetTaskInv ==
  ASSUME IInv, NEW t \in tasks, Set(t)
  PROVE  IInv'
<1> DEFINE u == [t EXCEPT !.at = "save", !.seen = {}]
<1>1. /\ t.at = "set"
      /\ tasks' = (tasks \ {t}) \cup {u}
      /\ UNCHANGED <<staging, watch, finalizers, secret, file, announced, crashes>>
  BY DEF Set, backend
<1>2. /\ t \in Task /\ u \in Task /\ u.id = t.id /\ u.kind = t.kind /\ u.at = "save"
      /\ t.id \in Account /\ t.kind \in {"add", "remove"}
  BY DEF IInv, TypeOK, Task
<1> HIDE DEF u
<1>3. /\ t.id \in store' <=> t.kind = "add"
      /\ \A id \in Account \ exposed' : id # t.id => (id \in store' <=> id \in store)
      /\ store' \in SUBSET Account /\ exposed' \in SUBSET Account
      /\ exposed \subseteq exposed'
  BY SetOthers DEF IInv
<1>4. TypeOK'
  BY <1>1, <1>2, <1>3 DEF IInv, TypeOK
<1>5. OwnInv'
  BY <1>1, <1>3, OwnIsBlind DEF IInv
<1>6. RemovalInv'
  BY <1>1, <1>2, <1>3 DEF IInv, Inv, RemovalInv
<1>7. \A v \in tasks : v.id \notin exposed /\ v.id = t.id => v.kind = t.kind
  BY <1>2 DEF IInv, Inv, TypeOK, Task, RemovalInv
<1>8. SetInv'
  BY <1>1, <1>2, <1>3, <1>7 DEF IInv, Inv, TypeOK, Task, SetInv
<1>9. SavedInv'
  BY <1>1, <1>2, <1>3 DEF IInv, Inv, SavedInv
<1>10. KeptInv'
  BY <1>1, <1>2, <1>3 DEF IInv, Inv, TypeOK, KeptInv, RemovalInv, ToBeListed
<1>11. WholeInv'
  BY <1>1, <1>2, <1>3 DEF IInv, Inv, WholeInv, ToBeListed
<1> QED
  BY <1>4, <1>5, <1>6, <1>8, <1>9, <1>10, <1>11 DEF IInv, Inv

LEMMA SaveInv ==
  ASSUME IInv, NEW t \in tasks, Save(t)
  PROVE  IInv'
<1>1. /\ t.at = "save"
      /\ tasks' = tasks \ {t}
      /\ \/ file' = store /\ exposed' = exposed
         \/ file' = file /\ exposed' = exposed \cup {t.id}
      /\ UNCHANGED <<staging, watch, finalizers, secret, store, announced, crashes>>
  BY DEF Save, backend
<1>2. t \in Task /\ t.id \in Account /\ t.kind \in {"add", "remove"}
  BY DEF IInv, TypeOK, Task
<1>3. TypeOK'
  BY <1>1, <1>2 DEF IInv, TypeOK
<1>4. OwnInv'
  BY <1>1, OwnIsBlind DEF IInv
<1>5. RemovalInv' /\ SetInv' /\ SavedInv'
  BY <1>1, <1>2 DEF IInv, Inv, RemovalInv, SetInv, SavedInv
<1>6. KeptInv'
  BY <1>1, <1>2 DEF IInv, Inv, KeptInv, ToBeListed
<1>7. WholeInv'
  BY <1>1, <1>2 DEF IInv, Inv, RemovalInv, SetInv, WholeInv, ToBeListed
<1> QED
  BY <1>3, <1>4, <1>5, <1>6, <1>7 DEF IInv, Inv

LEMMA CrashInv ==
  ASSUME IInv, Crash
  PROVE  IInv'
<1>1. /\ crashes < MaxCrash /\ crashes' = crashes + 1
      /\ watch' = [l \in Login |-> IF Watched(l) THEN "done" ELSE watch[l]]
      /\ finalizers' = {} /\ announced' = {} /\ tasks' = {} /\ store' = file
      /\ exposed' = exposed \cup {id \in Account :
             InFlight(id) \/ \E l \in Login : Watched(l) /\ staging[l] = id}
      /\ UNCHANGED <<staging, secret, file>>
  BY DEF Crash, disk
<1>2. TypeOK'
  BY <1>1, Constants DEF IInv, TypeOK
<1>3. OwnInv'
  BY <1>1 DEF IInv, Inv, TypeOK, OwnInv
<1>4. RemovalInv' /\ SetInv' /\ SavedInv'
  BY <1>1 DEF RemovalInv, SetInv, SavedInv
<1>5. \A id \in Account \ exposed' : ~InFlight(id) /\ (id \in store <=> id \in file)
  BY <1>1 DEF IInv, Inv, SavedInv, InFlight
<1>6. KeptInv' /\ WholeInv'
  BY <1>1, <1>5 DEF IInv, Inv, TypeOK, KeptInv, WholeInv, ToBeListed, InFlight
<1> QED
  BY <1>2, <1>3, <1>4, <1>6 DEF IInv, Inv

-----------------------------------------------------------------------------
LEMMA StutterInv == IInv /\ UNCHANGED vars => IInv'
BY DEF IInv, TypeOK, Inv, OwnInv, RemovalInv, SetInv, SavedInv, KeptInv, WholeInv, ToBeListed,
       vars, backend, webview

LEMMA NextInv == IInv /\ [Next]_vars => IInv'
<1> SUFFICES ASSUME IInv, Next PROVE IInv'
  BY StutterInv
<1>1. ASSUME NEW l \in Login, Begin(l) \/ SignIn(l) \/ LoginStep(l) \/ CommandRead(l)
      PROVE  IInv'
  BY <1>1, BeginInv, SignInInv, WatcherInv, WatcherReadInv, CommandReadInv DEF LoginStep
<1>2. ASSUME NEW f \in finalizers, FinalizerStep(f) PROVE IInv'
  BY <1>2, ClearInv, MovesInv, MoveFailsInv DEF FinalizerStep
<1>3. ASSUME NEW a \in announced, Deliver(a) PROVE IInv'
  BY <1>3, DeliverInv
<1>4. ASSUME NEW id \in Account, AddKey(id) \/ Remove(id) \/ RemoveFails(id) PROVE IInv'
  BY <1>4, AddKeyInv, RemoveInv, RemoveFailsInv
<1>5. ASSUME NEW t \in tasks, TaskStep(t) PROVE IInv'
  BY <1>5, LoadInv, SetTaskInv, SaveInv DEF TaskStep
<1>6. CASE Crash
  BY <1>6, CrashInv
<1> QED
  BY <1>1, <1>2, <1>3, <1>4, <1>5, <1>6 DEF Next

LEMMA Invariance == Spec => []IInv
<1>1. Init => IInv
  BY InitIInv
<1>2. IInv /\ [Next]_vars => IInv'
  BY NextInv
<1> QED
  BY <1>1, <1>2, PTL DEF Spec

(***************************************************************************)
(* The sign-ins, the two stores and the tasks are well typed.              *)
(***************************************************************************)
THEOREM AccountsTypeCorrect == Spec => []TypeOK
<1>1. IInv => TypeOK
  BY DEF IInv
<1> QED
  BY <1>1, Invariance, PTL

(***************************************************************************)
(* Whatever interleaves, an account nothing is under way for and none of   *)
(* the recorded mishaps befell is listed in settings.json if and only if   *)
(* its secret is on disk.                                                  *)
(***************************************************************************)
THEOREM SecretsMatchEntries == Spec => []ListedHasSecret
<1>1. IInv => ListedHasSecret
  <2> SUFFICES ASSUME IInv, NEW id \in Account \ exposed, ~InFlight(id)
               PROVE  id \in file <=> id \in secret
    BY DEF ListedHasSecret
  <2>1. id \in store <=> id \in file
    BY DEF IInv, Inv, SavedInv, InFlight
  <2>2. id \in secret => id \in store
    BY DEF IInv, Inv, KeptInv, ToBeListed, InFlight
  <2>3. id \in store => id \in secret
    BY DEF IInv, Inv, WholeInv, ToBeListed, InFlight
  <2> QED
    BY <2>1, <2>2, <2>3
<1> QED
  BY <1>1, Invariance, PTL

-----------------------------------------------------------------------------
(***************************************************************************)
(* Sign-ins on their way.                                                  *)
(***************************************************************************)
\* What a step owes an account whose sign-in is on its way.
OnItsWay(id) == Carried(id)' \/ id \in store' \/ id \in exposed'

\* The watcher and the CLI: what sleeps or is found is handed to a finalizer.
LEMMA LoginCarries ==
  ASSUME IInv, NEW id \in CodexId, Carried(id), id \notin exposed', NEW l \in Login,
         Begin(l) \/ SignIn(l) \/ LoginStep(l) \/ CommandRead(l)
  PROVE  Carried(id)'
<1>1. UNCHANGED <<announced, tasks>> /\ finalizers \subseteq finalizers'
  BY DEF Begin, SignIn, LoginStep, Look, GiveUpOrSleep, WatcherRead, WatcherReadFails,
         CommandRead, Read, webview
<1>2. \/ \E f \in finalizers : f.by = "watch" /\ f.id = id
      \/ \E a \in announced : a[2] = id
      \/ \E t \in tasks : t.id = id /\ t.kind = "add" /\ t.at # "save"
      \/ \E m \in Login : watch[m] \in {"sleeping", "found"} /\ staging[m] = id
  BY DEF Carried
<1>3. ASSUME NEW m \in Login, watch[m] \in {"sleeping", "found"}, staging[m] = id
      PROVE  Carried(id)'
  <2>1. CASE Begin(l)
    BY <1>3, <2>1 DEF Carried, Begin, IInv, TypeOK
  <2>2. CASE SignIn(l)
    BY <1>3, <2>2, Constants DEF Carried, SignIn, IInv, TypeOK
  <2>3. CASE Look(l) \/ GiveUpOrSleep(l) \/ WatcherReadFails(l)
    BY <1>3, <2>3 DEF Carried, Look, GiveUpOrSleep, WatcherReadFails, IInv, TypeOK
  <2>4. CASE WatcherRead(l)
    <3>1. CASE l = m
      <4> DEFINE new == [login |-> l, by |-> "watch", id |-> staging[l], at |-> "clear"]
      <4>1. new \in finalizers' /\ new.by = "watch" /\ new.id = id
        BY <1>3, <2>4, <3>1 DEF WatcherRead, Read
      <4> QED
        BY <4>1 DEF Carried
    <3>2. CASE l # m
      BY <1>3, <2>4, <3>2 DEF Carried, WatcherRead, Read, IInv, TypeOK
    <3> QED
      BY <3>1, <3>2
  <2>5. CASE CommandRead(l)
    BY <1>3, <2>5 DEF Carried, CommandRead, Read, IInv, TypeOK
  <2> QED
    BY <2>1, <2>2, <2>3, <2>4, <2>5 DEF LoginStep
<1> QED
  BY <1>1, <1>2, <1>3 DEF Carried

\* A watcher whose sign-in is found and waiting has no finalizer yet, and a
\* finalizer of the command has exposed the account: none moves the directory
\* under a watcher.
LEMMA FinalizerSparesWatched ==
  ASSUME IInv, NEW id \in CodexId, id \notin exposed, NEW f \in finalizers,
         NEW l \in Login, watch[l] \in {"sleeping", "found"}, staging[l] = id
  PROVE  f.login # l
<1>1. f.login = l => f.by # "watch" /\ f.id = id
  BY Constants DEF IInv, Inv, OwnInv
<1> QED
  BY <1>1 DEF IInv, Inv, OwnInv

\* When the profile is in the way of the rename, the account of the other
\* sign-in that made it is listed or will be.
LEMMA FinalizerCarries ==
  ASSUME IInv, NEW id \in CodexId, Carried(id), id \notin exposed', NEW f \in finalizers,
         FinalizerStep(f)
  PROVE  OnItsWay(id)
<1>1. /\ UNCHANGED <<tasks, store>> /\ announced \subseteq announced'
      /\ exposed \subseteq exposed' /\ finalizers \ {f} \subseteq finalizers'
  BY DEF FinalizerStep, Clear, Moves, MoveFails, Ends, webview
<1>2. f \in Finalizer
  BY DEF IInv, TypeOK
<1>3. \A l \in Login : watch[l] \in {"sleeping", "found"} /\ staging[l] = id
        => watch'[l] = watch[l] /\ staging'[l] = staging[l]
  <2> SUFFICES ASSUME NEW l \in Login, watch[l] \in {"sleeping", "found"}, staging[l] = id
               PROVE  watch'[l] = watch[l] /\ staging'[l] = staging[l]
    OBVIOUS
  <2>1. f.login # l
    BY <1>1, FinalizerSparesWatched
  <2> QED
    BY <1>2, <2>1 DEF FinalizerStep, Clear, Moves, MoveFails, Ends, Finalizer, IInv, TypeOK
<1>4. ASSUME f.by = "watch", f.id = id PROVE OnItsWay(id)
  <2>1. CASE Clear(f)
    <3> DEFINE new == [f EXCEPT !.at = "move"]
    <3>1. new \in finalizers' /\ new.by = "watch" /\ new.id = id
      BY <1>2, <1>4, <2>1 DEF Clear, Finalizer
    <3> QED
      BY <3>1 DEF Carried, OnItsWay
  <2>2. CASE Moves(f)
    <3>1. <<f.login, id>> \in announced' /\ <<f.login, id>>[2] = id
      BY <1>4, <2>2 DEF Moves
    <3> QED
      BY <3>1 DEF Carried, OnItsWay
  <2>3. CASE MoveFails(f)
    <3>1. staging[f.login] = id /\ id # "absent"
      BY <1>1, <1>4, Constants DEF IInv, Inv, OwnInv
    <3>2. id \in secret \ exposed
      BY <1>1, <1>4, <2>3, <3>1 DEF MoveFails
    <3>3. id \in store \/ ToBeListed(id)
      BY <3>2 DEF IInv, Inv, KeptInv
    <3> QED
      BY <1>1, <3>3 DEF ToBeListed, Carried, OnItsWay
  <2> QED
    BY <2>1, <2>2, <2>3 DEF FinalizerStep
<1> QED
  BY <1>1, <1>3, <1>4 DEF Carried, OnItsWay

\* The event starts a task in the hook of main-app.tsx at least, and a task
\* sets the list whatever it loaded.
LEMMA WebviewCarries ==
  ASSUME IInv, NEW id \in CodexId, Carried(id), UNCHANGED backend,
         \/ \E a \in announced : Deliver(a)
         \/ \E t \in tasks : TaskStep(t)
  PROVE  OnItsWay(id)
<1>1. UNCHANGED <<staging, watch, finalizers>>
  BY DEF backend
<1>2. ASSUME NEW a \in announced, Deliver(a) PROVE OnItsWay(id)
  <2>1. tasks \subseteq tasks' /\ announced \ {a} \subseteq announced'
    BY <1>2 DEF Deliver
  <2>2. ASSUME a[2] = id PROVE NewTask(MainHook, "add", id) \in tasks'
    BY <1>2, <2>2 DEF Deliver
  <2>3. a[2] = id => Carried(id)'
    BY <2>2 DEF Carried, NewTask
  <2> QED
    BY <1>1, <2>1, <2>3 DEF Carried, OnItsWay
<1>3. ASSUME NEW t \in tasks, TaskStep(t) PROVE OnItsWay(id)
  <2>1. announced' = announced /\ tasks \ {t} \subseteq tasks'
    BY <1>3 DEF TaskStep, Load, Set, Save
  <2>2. ASSUME t.id = id, t.kind = "add", t.at # "save" PROVE OnItsWay(id)
    <3>1. CASE Load(t)
      <4> DEFINE new == [t EXCEPT !.at = "set", !.seen = store]
      <4>1. t \in Task
        BY DEF IInv, TypeOK
      <4>2. new \in tasks' /\ new.id = id /\ new.kind = "add" /\ new.at # "save"
        BY <2>2, <3>1, <4>1 DEF Load, Task
      <4> QED
        BY <4>2 DEF Carried, OnItsWay
    <3>2. CASE Set(t)
      BY <2>2, <3>2 DEF Set, Edited, OnItsWay
    <3>3. CASE Save(t)
      BY <2>2, <3>3 DEF Save
    <3> QED
      BY <1>3, <3>1, <3>2, <3>3 DEF TaskStep
  <2> QED
    BY <1>1, <2>1, <2>2 DEF Carried, OnItsWay
<1> QED
  BY <1>2, <1>3

\* The user only adds tasks.
LEMMA UserCarries ==
  ASSUME NEW id \in CodexId, Carried(id), NEW k \in Account,
         AddKey(k) \/ Remove(k) \/ RemoveFails(k)
  PROVE  Carried(id)'
<1>1. UNCHANGED <<staging, watch, finalizers, announced>> /\ tasks \subseteq tasks'
  BY DEF AddKey, Remove, RemoveFails, webview
<1> QED
  BY <1>1 DEF Carried

\* A death of the application is recorded for all that was on its way.
LEMMA CrashExposes ==
  ASSUME NEW id \in CodexId, Carried(id), Crash
  PROVE  id \in exposed'
<1>1. InFlight(id) \/ \E l \in Login : Watched(l) /\ staging[l] = id
  BY DEF Carried, InFlight, Watched
<1> QED
  BY <1>1, Constants DEF Crash

(***************************************************************************)
(* Whatever the deadline, the other sign-ins, the manual finish and the    *)
(* webview do, a complete sign-in is handed on from the watcher to the     *)
(* list and never dropped in between.                                      *)
(***************************************************************************)
THEOREM SignInsAreCarried == Spec => SignInIsCarried
<1> DEFINE Kept == \A id \in CodexId :
                      Carried(id) => Carried(id)' \/ id \in store' \/ id \in exposed'
<1>1. IInv /\ [Next]_vars => [Kept]_vars
  <2> SUFFICES ASSUME IInv, Next, NEW id \in CodexId, Carried(id), id \notin exposed'
               PROVE  OnItsWay(id)
    BY DEF OnItsWay
  <2>1. ASSUME NEW l \in Login, Begin(l) \/ SignIn(l) \/ LoginStep(l) \/ CommandRead(l)
        PROVE  OnItsWay(id)
    BY <2>1, LoginCarries DEF OnItsWay
  <2>2. ASSUME NEW f \in finalizers, FinalizerStep(f) PROVE OnItsWay(id)
    BY <2>2, FinalizerCarries
  <2>3. CASE (\E a \in announced : Deliver(a)) \/ (\E t \in tasks : TaskStep(t))
    <3>1. UNCHANGED backend
      BY <2>3 DEF Deliver, TaskStep, Load, Set, Save
    <3> QED
      BY <2>3, <3>1, WebviewCarries
  <2>4. ASSUME NEW k \in Account, AddKey(k) \/ Remove(k) \/ RemoveFails(k) PROVE OnItsWay(id)
    BY <2>4, UserCarries DEF OnItsWay
  <2>5. CASE Crash
    BY <2>5, CrashExposes DEF OnItsWay
  <2> QED
    BY <2>1, <2>2, <2>3, <2>4, <2>5 DEF Next
<1> QED
  BY <1>1, Invariance, PTL DEF Spec, SignInIsCarried
=============================================================================
