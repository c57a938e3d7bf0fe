----------------------------- MODULE LoginProbe -----------------------------
(***************************************************************************)
(* The logins the provider scripts borrow from other programs.  Seven      *)
(* scripts find a login of the provider's own tool on disk or in the       *)
(* keychain, refresh it when it is about to expire or is refused, write    *)
(* what they got back where they found it, and ask for the usage.  The     *)
(* server replaces the refresh token each time it is used and accepts only *)
(* the newest one: a script that fails to write it back signs the user out *)
(* of the tool, and so may two probes, or a probe and the tool, that       *)
(* refresh one login at the same time.                                     *)
(*                                                                         *)
(* A login is a number: the n-th pair of tokens the server issued for its  *)
(* source.  Account ids, scopes and the formats of the files are left out, *)
(* and so are logins that lack one of the two tokens.  Cursor keeps the    *)
(* two tokens of a pair apart: of its own login the script writes only the *)
(* access token, and the snapshot of that login that this application      *)
(* takes of it gets both.  The snapshot is a provider of its own here.     *)
(***************************************************************************)
EXTENDS Naturals, FiniteSets

CONSTANTS
    Provider,   \* the providers whose scripts are looked at
    Probe,      \* probes that may overlap: batches overlap, see ProbeBatch
    MaxLogin,   \* bound: how often the server replaces the logins
    MaxTool     \* bound: how often the provider's own tool refreshes one

ASSUME LoginAssumption ==
    /\ Provider \subseteq {"claude", "codex", "cursor", "managed-cursor", "factory", "grok",
                      "kimi", "kiro"}
    /\ MaxLogin \in Nat /\ MaxTool \in Nat

VARIABLES
    prov,       \* the provider, chosen by the first state
    store,      \* source -> the login whose refresh token is kept there; no
                \*   source, no entry
    access,     \* source -> the login whose access token is kept there
    latest,     \* source -> the one login whose refresh token is accepted
    aged,       \* source -> up to which login the access tokens have aged, and how
    tool,       \* refreshes by the provider's own tool so far
    probe,      \* the probes
    lost,       \* history: sources whose newest login is not written back
    raced       \* history: probe -> sources others have refreshed since it read
                \*   them, or had refreshed and not yet written when it did

loginVars == <<prov, store, access, latest, aged, tool, probe, lost, raced>>

Source == 1..2
Token == 0..MaxLogin

\* "due" is soon to expire and still accepted; "revoked" is refused though
\* its expiry lies ahead.
Age == {"fresh", "due", "expired", "revoked"}

Pc == {"idle", "check", "refresh", "save", "fetch", "done"}

\* Why a refresh is asked for: the expiry is near, the usage request was
\* refused, it was refused again with the login codex had reloaded, or
\* claude was told to wait.
Why == {"none", "due", "auth", "again", "limited"}

Out == {"none", "ok", "login", "stale", "error", "limited"}

\* mem are the refresh tokens a probe has read, acc is the access token it uses.
ProbeState ==
    [pc : Pc, src : Source, mem : [DOMAIN store -> Token], acc : Token, why : Why,
     reloaded : BOOLEAN, remembered : BOOLEAN, excused : BOOLEAN, out : Out]

LoginTypeOK ==
    /\ prov \in Provider
    /\ DOMAIN store \subseteq Source
    /\ store \in [DOMAIN store -> Token]
    /\ access \in [DOMAIN store -> Token] /\ latest \in [DOMAIN store -> Token]
    /\ aged \in [DOMAIN store -> [upto : Token, kind : Age]]
    /\ tool \in 0..MaxTool
    /\ probe \in [Probe -> ProbeState]
    /\ lost \subseteq DOMAIN store
    /\ raced \in [Probe -> SUBSET DOMAIN store]

CanIssue == latest[1] + (IF 2 \in DOMAIN latest THEN latest[2] ELSE 0) < MaxLogin

AgeOf(s, n) == IF n <= aged[s].upto THEN aged[s].kind ELSE "fresh"

Idle == [pc |-> "idle", src |-> 1, mem |-> [s \in DOMAIN store |-> 0], acc |-> 0,
         why |-> "none", reloaded |-> FALSE, remembered |-> FALSE, excused |-> FALSE,
         out |-> "none"]

\* Only codex and grok go on to a second login when the first is refused.
LoginInit ==
    /\ prov \in Provider
    /\ store \in {[s \in {1} |-> 0]}
                 \cup (IF prov \in {"codex", "grok"} THEN {[s \in Source |-> 0]} ELSE {})
    /\ latest = store /\ access = store
    /\ \E k \in Age : aged = [s \in DOMAIN store |-> [upto |-> 0, kind |-> k]]
    /\ tool = 0 /\ lost = {}
    /\ probe = [p \in Probe |-> Idle]
    /\ raced = [p \in Probe |-> {}]
-----------------------------------------------------------------------------
(***************************************************************************)
(* What a script does after a refresh that brought no login: r tells       *)
(* whether the server refused it or the refresh failed otherwise.  First   *)
(* what refreshToken makes of it, then what the probe does next, for a     *)
(* refresh wanted for the reason w with an access token of age k.          *)
(***************************************************************************)
ThrowsRefused(r) == IF r = "refused" THEN "throw" ELSE "null"

claude_refreshToken(r) == ThrowsRefused(r)

claude_probe(r, w, k) ==
    CASE w = "limited" -> "limited"
      [] w = "due" /\ r # "throw" -> "fetch"
      [] OTHER -> "login"

codex_refreshToken(r) == ThrowsRefused(r)

\* An error of the early refresh is remembered while the old token is tried.
codex_probe(r, w, k) ==
    CASE w = "due" /\ r = "throw" -> "remember"
      [] w = "due" /\ r # "throw" -> "fetch"
      [] OTHER -> "next"

cursor_refreshToken(r) == ThrowsRefused(r)

cursor_probe(r, w, k) == IF w = "due" THEN "fetch" ELSE "login"

factory_refreshToken(r) == ThrowsRefused(r)

factory_probe(r, w, k) ==
    IF w = "due" /\ (r = "throw" => k # "expired") THEN "fetch" ELSE "login"

grok_refreshAuth(r) == "null"

grok_loadAuth(k) == IF k = "expired" THEN "next" ELSE "fetch"

grok_probe(r, w, k) == IF w = "due" THEN grok_loadAuth(k) ELSE "login"

kimi_refreshToken(r) == ThrowsRefused(r)

kimi_probe(r, w, k) == IF w = "due" /\ r # "throw" THEN "fetch" ELSE "login"

kiro_refreshAccessToken(r) == ThrowsRefused(r)

\* A usage that is still refused ends in the same hint as a refused refresh.
kiro_fetchLiveState(r, w, k) == IF w = "due" /\ r # "throw" THEN "fetch" ELSE "login"

AfterRefresh(r, w, k) ==
    CASE prov = "claude"  -> claude_probe(claude_refreshToken(r), w, k)
      [] prov = "codex"   -> codex_probe(codex_refreshToken(r), w, k)
      [] prov \in {"cursor", "managed-cursor"} -> cursor_probe(cursor_refreshToken(r), w, k)
      [] prov = "factory" -> factory_probe(factory_refreshToken(r), w, k)
      [] prov = "grok"    -> grok_probe(grok_refreshAuth(r), w, k)
      [] prov = "kimi"    -> kimi_probe(kimi_refreshToken(r), w, k)
      [] prov = "kiro"    -> kiro_fetchLiveState(kiro_refreshAccessToken(r), w, k)
-----------------------------------------------------------------------------
Held(p) == probe[p].mem[probe[p].src]

HeldAge(p) == AgeOf(probe[p].src, probe[p].acc)

Ends(p, out) == [Idle EXCEPT !.pc = "done", !.out = out, !.excused = probe[p].excused]

\* The next login, in codex read when its turn comes; grok has read its file
\* once, and of each login in it both tokens.
NextSource(p) ==
    LET mem == IF prov = "codex" THEN [probe[p].mem EXCEPT ![2] = store[2]] ELSE probe[p].mem
    IN  [probe[p] EXCEPT !.pc = "check", !.src = 2, !.mem = mem,
                         !.acc = IF prov = "codex" THEN access[2] ELSE mem[2],
                         !.reloaded = FALSE, !.remembered = FALSE, !.why = "none"]

HasNext(p) == probe[p].src = 1 /\ 2 \in DOMAIN store

\* A login error: codex tries its next source, kiro may have the figures
\* of an earlier day to show.
NoLogin(p) ==
    IF prov = "codex" /\ HasNext(p) THEN {NextSource(p)}
    ELSE {Ends(p, o) : o \in {"login"} \cup (IF prov = "kiro" THEN {"stale"} ELSE {})}

Goes(p, where) ==
    CASE where = "fetch" -> {[probe[p] EXCEPT !.pc = "fetch"]}
      [] where = "remember" -> {[probe[p] EXCEPT !.pc = "fetch", !.remembered = TRUE]}
      [] where = "limited" -> {Ends(p, "limited")}
      [] where = "next" -> IF HasNext(p) THEN {NextSource(p)} ELSE NoLogin(p)
      [] where = "login" -> NoLogin(p)

Saving(p, s) == probe[p].pc = "save" /\ probe[p].src = s

Unwritten(p) == {s \in DOMAIN store : \E q \in Probe \ {p} : Saving(q, s)}

JustRead(p, s) == raced' = [raced EXCEPT ![p] = (@ \ {s}) \cup (Unwritten(p) \cap {s})]

Load(p) ==
    /\ probe[p].pc \in {"idle", "done"}
    /\ probe' = [probe EXCEPT ![p] = [Idle EXCEPT !.pc = "check", !.mem = store,
                                                   !.acc = access[1]]]
    /\ raced' = [raced EXCEPT ![p] = Unwritten(p)]
    /\ UNCHANGED <<prov, store, access, latest, aged, tool, lost>>

(***************************************************************************)
(* codex reads its source once more right before it refreshes.             *)
(***************************************************************************)
reloadAuthState_Stale(p) == probe[p].mem

reloadAuthState(p) == [probe[p].mem EXCEPT ![probe[p].src] = store[probe[p].src]]

Check(p) ==
    LET s == probe[p].src
        due(n) == AgeOf(s, n) \in {"due", "expired"}
        reads == prov = "codex" /\ due(probe[p].acc)
        mem == IF reads THEN reloadAuthState(p) ELSE probe[p].mem
        acc == IF reads THEN access[s] ELSE probe[p].acc
        pc == IF due(acc) THEN "refresh" ELSE "fetch"
    IN  /\ probe[p].pc = "check"
        /\ probe' = [probe EXCEPT ![p] =
                        [@ EXCEPT !.pc = pc, !.mem = mem, !.acc = acc, !.why = "due"]]
        /\ IF reads THEN JustRead(p, s) ELSE UNCHANGED raced
        /\ UNCHANGED <<prov, store, access, latest, aged, tool, lost>>

(***************************************************************************)
(* The refresh request.  The server replaces the login if it is given the  *)
(* newest one; the answer may be lost on the way back.                     *)
(***************************************************************************)
Others(p, s) == [q \in Probe |-> IF q = p THEN raced[q] ELSE raced[q] \cup {s}]

Refreshed(p) ==
    LET s == probe[p].src
    IN  /\ probe[p].pc = "refresh"
        /\ Held(p) = latest[s] /\ CanIssue
        /\ latest' = [latest EXCEPT ![s] = @ + 1]
        /\ raced' = Others(p, s)
        /\ \/ /\ probe' = [probe EXCEPT ![p] = [@ EXCEPT !.pc = "save", !.acc = latest'[s]]]
              /\ UNCHANGED lost
           \/ /\ lost' = lost \cup {s}
              /\ \E next \in Goes(p, AfterRefresh("failed", probe[p].why, HeldAge(p))) :
                    probe' = [probe EXCEPT ![p] = [next EXCEPT !.excused = TRUE]]
        /\ UNCHANGED <<prov, store, access, aged, tool>>

Refused(p) ==
    LET s == probe[p].src
    IN  /\ probe[p].pc = "refresh"
        /\ Held(p) # latest[s]
        /\ \E next \in Goes(p, AfterRefresh("refused", probe[p].why, HeldAge(p))) :
              probe' = [probe EXCEPT ![p] =
                           [next EXCEPT !.excused = @ \/ s \in lost \cup raced[p]]]
        /\ UNCHANGED <<prov, store, access, latest, aged, tool, lost, raced>>

RefreshFails(p) ==
    /\ probe[p].pc = "refresh"
    /\ \E next \in Goes(p, AfterRefresh("failed", probe[p].why, HeldAge(p))) :
          probe' = [probe EXCEPT ![p] = [next EXCEPT !.excused = TRUE]]
    /\ UNCHANGED <<prov, store, access, latest, aged, tool, lost, raced>>

(***************************************************************************)
(* The login is written back to its source; grok writes its whole file,    *)
(* with the other logins as they were when it read them.  Of Cursor's own  *)
(* login only the access token is written: the refresh token that stays    *)
(* there has been used.  A failed write is only logged.                    *)
(***************************************************************************)
OnlyAccessIsKept == prov = "cursor"

Written(p, tokens) ==
    [(IF prov = "grok" THEN probe[p].mem ELSE tokens) EXCEPT ![probe[p].src] = probe[p].acc]

\* Nor does the script of cursor use the new refresh token itself.
KnownTokens(p) ==
    IF prov \in {"cursor", "managed-cursor"} THEN probe[p].mem
    ELSE [probe[p].mem EXCEPT ![probe[p].src] = probe[p].acc]

SaveCredentials(p) ==
    LET s == probe[p].src
    IN  /\ probe[p].pc = "save"
        /\ probe' = [probe EXCEPT ![p] = [@ EXCEPT !.pc = "fetch", !.mem = KnownTokens(p)]]
        /\ \/ /\ access' = Written(p, access)
              /\ store' = IF OnlyAccessIsKept THEN store ELSE Written(p, store)
              /\ lost' = lost \cup {t \in DOMAIN store \ {s} : store'[t] # store[t]}
                              \cup (IF OnlyAccessIsKept THEN {s} ELSE {})
           \/ /\ lost' = lost \cup {s}
              /\ UNCHANGED <<store, access>>
        /\ UNCHANGED <<prov, latest, aged, tool, raced>>

(***************************************************************************)
(* The usage request.  A refusal is answered once by a refresh, in codex   *)
(* by another look at the source first.  When the access token was issued  *)
(* to this very probe, cursor refreshes with the refresh token it has      *)
(* used for it: what is refused then is what the server had just issued.   *)
(***************************************************************************)
Answered(p, out) ==
    /\ probe[p].pc = "fetch"
    /\ out = "error" \/ HeldAge(p) \in {"fresh", "due"}
    /\ probe' = [probe EXCEPT ![p] = Ends(p, out)]
    /\ UNCHANGED <<prov, store, access, latest, aged, tool, lost, raced>>

\* claude: a refused rate is often that of the access token alone.
RateLimited(p) ==
    /\ probe[p].pc = "fetch" /\ prov = "claude"
    /\ HeldAge(p) \in {"fresh", "due"}
    /\ probe' = [probe EXCEPT ![p] =
                    IF probe[p].why = "limited" THEN Ends(p, "limited")
                    ELSE [@ EXCEPT !.pc = "refresh", !.why = "limited"]]
    /\ UNCHANGED <<prov, store, access, latest, aged, tool, lost, raced>>

retryOnceOnAuth(p) ==
    LET s == probe[p].src
        mem == reloadAuthState(p)
    IN  IF probe[p].why \in {"auth", "again"}
        THEN {[next EXCEPT !.excused = TRUE] : next \in NoLogin(p)}
        ELSE IF prov # "codex"
             THEN {[probe[p] EXCEPT !.pc = "refresh", !.why = "auth",
                                    !.excused = @ \/ probe[p].acc # Held(p)]}
        ELSE IF probe[p].reloaded THEN {[probe[p] EXCEPT !.pc = "refresh", !.why = "again"]}
        ELSE IF mem[s] # Held(p)
             THEN {[probe[p] EXCEPT !.mem = mem, !.acc = access[s], !.reloaded = TRUE,
                                    !.remembered = FALSE]}
        ELSE IF probe[p].remembered THEN NoLogin(p)
        ELSE {[probe[p] EXCEPT !.pc = "refresh", !.why = "auth"]}

UsageRefused(p) ==
    LET s == probe[p].src
    IN  /\ probe[p].pc = "fetch"
        /\ HeldAge(p) \in {"expired", "revoked"}
        /\ \E next \in retryOnceOnAuth(p) : probe' = [probe EXCEPT ![p] = next]
        /\ IF prov = "codex" /\ ~probe[p].reloaded THEN JustRead(p, s) ELSE UNCHANGED raced
        /\ UNCHANGED <<prov, store, access, latest, aged, tool, lost>>
-----------------------------------------------------------------------------
\* The provider's own tool refreshes the login it finds, in one step.  Cursor
\* refreshes its own copy, of which a snapshot hears nothing: it can as long as
\* nobody but itself has refreshed it.
ToolRefreshes(s) ==
    /\ tool < MaxTool /\ CanIssue
    /\ tool' = tool + 1
    /\ latest' = [latest EXCEPT ![s] = @ + 1]
    /\ \/ /\ prov # "managed-cursor" /\ store[s] = latest[s]
          /\ store' = [store EXCEPT ![s] = latest'[s]]
          /\ access' = [access EXCEPT ![s] = latest'[s]]
          /\ UNCHANGED lost
       \/ /\ prov = "managed-cursor" /\ latest[s] = tool
          /\ lost' = lost \cup {s}
          /\ UNCHANGED <<store, access>>
    /\ raced' = [q \in Probe |-> raced[q] \cup {s}]
    /\ UNCHANGED <<prov, aged, probe>>

\* Time passes, or the provider revokes what it issued.
GrowsOld(s) ==
    /\ aged[s].upto < latest[s] \/ aged[s].kind \in {"fresh", "due"}
    /\ \E k \in Age \ {"fresh", aged[s].kind} :
          aged' = [aged EXCEPT ![s] = [upto |-> latest[s], kind |-> k]]
    /\ UNCHANGED <<prov, store, access, latest, tool, probe, lost, raced>>

LoginNext ==
    \/ \E p \in Probe :
          \/ Load(p) \/ Check(p) \/ Refreshed(p) \/ Refused(p) \/ RefreshFails(p)
          \/ SaveCredentials(p) \/ Answered(p, "ok") \/ Answered(p, "error")
          \/ RateLimited(p) \/ UsageRefused(p)
    \/ \E s \in DOMAIN store : ToolRefreshes(s) \/ GrowsOld(s)

LoginSpec == LoginInit /\ [][LoginNext]_loginVars
-----------------------------------------------------------------------------
\* What is kept at a source is the login the server accepts, unless a probe is
\* about to write it, an answer or a write was lost, grok wrote its file over a
\* newer login, the script has refreshed Cursor's own login, of which it writes
\* the access token only, or Cursor has refreshed its copy of a snapshot's.
\* That refreshing a snapshot leaves Cursor with a used token is not counted.
LoginIsKept ==
    \A s \in DOMAIN store :
        \/ store[s] = latest[s]
        \/ s \in lost
        \/ \E p \in Probe : Saving(p, s)

\* A probe tells the user to log in again only if a login was lost, a refresh
\* failed, the server refused what it had just issued, or somebody else
\* refreshed the login after the probe had read it: for codex, after it had
\* read it for the second time.
LoginErrorHasCause ==
    \A p \in Probe : probe[p].out = "login" => probe[p].excused

LoginKept == LoginIsKept /\ LoginErrorHasCause
=============================================================================
