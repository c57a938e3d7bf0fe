-------------------------- MODULE ClaudeUsageState --------------------------
(***************************************************************************)
(* How claude/plugin.js spares the usage endpoint.  The endpoint allows    *)
(* very few requests and punishes the next one with a wait of up to an     *)
(* hour, and each probe runs in a JavaScript runtime of its own: the end   *)
(* of the wait, the time of the last request and the time of the last      *)
(* refresh after a refused rate are kept in usage-state.json, read when a  *)
(* probe starts and written when it ends.  All Claude probes share the     *)
(* file; they may overlap, and the application may end at any step.        *)
(*                                                                         *)
(* A write empties the file before it fills it, so that a reader, an end   *)
(* of the application or a second writer may come between the two, and it  *)
(* may fail at both; the scripts carry on after a failed write, and take a *)
(* file they cannot read, or make nothing of, for one that says nothing.   *)
(*                                                                         *)
(* LoginProbe has the refresh that an expiring or refused token asks for,  *)
(* LoginProviders what a probe shows; the figures of an earlier request,   *)
(* which the file holds too, are left out.                                 *)
(***************************************************************************)
EXTENDS Integers

CONSTANTS
    UsageProbe,         \* probes that may overlap
    MinFetchInterval,   \* MIN_USAGE_FETCH_INTERVAL_MS
    Cooldown,           \* RATE_LIMIT_REFRESH_COOLDOWN_MS
    DefaultBackoff,     \* DEFAULT_RATE_LIMIT_BACKOFF_MS
    MaxBackoff,         \* MAX_RATE_LIMIT_BACKOFF_MS
    RetryAfter,         \* the waits a server asks for
    FirstMoment, LastMoment \* bound: the instants looked at

ASSUME UsageStateAssumption ==
    /\ MinFetchInterval \in Nat /\ Cooldown \in Nat /\ DefaultBackoff \in Nat
    /\ MaxBackoff \in Nat /\ RetryAfter \subseteq Nat
    /\ FirstMoment \in Nat /\ LastMoment \in Nat
    /\ FirstMoment > MinFetchInterval /\ FirstMoment > Cooldown

VARIABLES
    moment,     \* Date.now()
    usageFile,  \* usage-state.json
    usage,      \* the probes
    kept,       \* history: the last request that was answered, and the wait it
                \*   ended in
    unsaved,    \* history: that is not, or not yet, on file
    renewed,    \* history: when a refused rate last led to a refresh
    slipped,    \* history: a write failed or was cut short, or a read failed or
                \*   met what such a write had left
    overtaken,  \* history: probes since whose read another has written
    mixed,      \* history: one of these wrote, or one while another did
    hasty       \* history: a probe asked, or renewed, too early

usageVars == <<moment, usageFile, usage, kept, unsaved, renewed, slipped, overtaken, mixed, hasty>>

NoUsageState == [whole |-> TRUE, until |-> 0, last |-> 0, refreshed |-> 0]

\* A file that is empty or holds a part of what was written.
Torn == [NoUsageState EXCEPT !.whole = FALSE]

Resting == [pc |-> "idle", at |-> 0, mem |-> NoUsageState, next |-> "done"]

UsageInit ==
    /\ moment = FirstMoment
    /\ usageFile = NoUsageState
    /\ usage = [p \in UsageProbe |-> Resting]
    /\ kept = [at |-> 0, until |-> 0] /\ renewed = 0
    /\ overtaken = {} /\ unsaved = FALSE /\ slipped = FALSE /\ mixed = FALSE /\ hasty = FALSE

Becomes(p, u) == usage' = [usage EXCEPT ![p] = u]

(***************************************************************************)
(* A probe starts: the file, then the wait, then the shortest interval,    *)
(* which a wait that has ended suspends.                                   *)
(***************************************************************************)
hydrateUsageState(read) == IF read /\ usageFile.whole THEN usageFile ELSE NoUsageState

TooSoon(state) ==
    IF state.until > 0 THEN moment < state.until
    ELSE moment < state.last + MinFetchInterval

StartUsage(p) ==
    /\ usage[p].pc = "idle"
    /\ \E read \in BOOLEAN :
          LET state == hydrateUsageState(read)
          IN  /\ slipped' = (slipped \/ state # usageFile)
              /\ IF TooSoon(state)
                 THEN /\ Becomes(p, Resting)
                      /\ UNCHANGED hasty
                 ELSE /\ Becomes(p, [Resting EXCEPT !.pc = "fetch", !.at = moment,
                                        !.mem = [state EXCEPT !.until = 0, !.last = moment]])
                      /\ hasty' = \/ hasty
                                  \/ /\ read /\ ~unsaved
                                     /\ \/ moment < kept.until
                                        \/ kept.until = 0 /\ moment < kept.at + MinFetchInterval
    /\ overtaken' = overtaken \ {p}
    /\ UNCHANGED <<moment, usageFile, kept, unsaved, renewed, mixed>>

(***************************************************************************)
(* A write.  The probe goes on after it, to the refresh it has noted or to *)
(* its end, whether the write succeeds or not.                             *)
(***************************************************************************)
Writing(p) == usage[p].pc = "write"

Overtakes(p) == overtaken' = overtaken \cup {q \in UsageProbe \ {p} : usage[q].pc # "idle"}

Persisted(u) == IF u.next = "renew" THEN [u EXCEPT !.pc = "renew", !.next = "done"] ELSE Resting

persistUsageState(p, state, next) ==
    LET u == [usage[p] EXCEPT !.mem = state, !.next = next]
    IN  /\ \/ /\ usageFile' = Torn
              /\ Becomes(p, [u EXCEPT !.pc = "write"])
              /\ Overtakes(p)
              /\ UNCHANGED slipped
           \/ /\ Becomes(p, Persisted(u))
              /\ slipped' = TRUE
              /\ UNCHANGED <<usageFile, overtaken>>
        /\ mixed' = (mixed \/ p \in overtaken \/ \E q \in UsageProbe \ {p} : Writing(q))
        /\ kept' = [at |-> state.last, until |-> state.until] /\ unsaved' = TRUE

\* All of the text is written, none of it, or some; two writers may mix theirs.
WriteEnds(p) ==
    /\ Writing(p)
    /\ \E text \in {usage[p].mem, usageFile, Torn} :
          /\ usageFile' = text
          /\ unsaved' = (text # usage[p].mem)
          /\ slipped' = (slipped \/ text # usage[p].mem)
    /\ Becomes(p, Persisted(usage[p]))
    /\ Overtakes(p)
    /\ UNCHANGED <<moment, kept, renewed, mixed, hasty>>

\* Every failure but a refused rate is thrown and leaves the file alone.
FetchFails(p) ==
    /\ usage[p].pc \in {"fetch", "again"}
    /\ Becomes(p, Resting)
    /\ UNCHANGED <<moment, usageFile, kept, unsaved, renewed, slipped, overtaken, mixed, hasty>>

FetchSucceeds(p) ==
    /\ usage[p].pc \in {"fetch", "again"}
    /\ persistUsageState(p, usage[p].mem, "done")
    /\ UNCHANGED <<moment, renewed, hasty>>

(***************************************************************************)
(* A refused rate.  Once per Cooldown the login is renewed, which is noted *)
(* on file before it is tried, and the request repeated.                   *)
(***************************************************************************)
MayRenew(p) == usage[p].at > usage[p].mem.refreshed + Cooldown

FetchLimited(p) ==
    /\ usage[p].pc = "fetch"
    /\ IF MayRenew(p)
       THEN persistUsageState(p, [usage[p].mem EXCEPT !.refreshed = usage[p].at], "renew")
       ELSE /\ Becomes(p, [usage[p] EXCEPT !.pc = "limited"])
            /\ UNCHANGED <<usageFile, kept, unsaved, slipped, overtaken, mixed>>
    /\ UNCHANGED <<moment, renewed, hasty>>

\* refreshToken is called; only a new token leads to another request.
Renew(p) ==
    /\ usage[p].pc = "renew"
    /\ hasty' = \/ hasty
                \/ /\ renewed > 0 /\ ~slipped
                   /\ usage[p].at \in (renewed - Cooldown)..(renewed + Cooldown)
    /\ renewed' = usage[p].at
    /\ \E pc \in {"again", "limited"} : Becomes(p, [usage[p] EXCEPT !.pc = pc])
    /\ UNCHANGED <<moment, usageFile, kept, unsaved, slipped, overtaken, mixed>>

\* A thrown request leaves the refused one to be answered.
AgainLimited(p) ==
    /\ usage[p].pc = "again"
    /\ Becomes(p, [usage[p] EXCEPT !.pc = "limited"])
    /\ UNCHANGED <<moment, usageFile, kept, unsaved, renewed, slipped, overtaken, mixed, hasty>>

Wait(asked) == IF asked > MaxBackoff THEN MaxBackoff ELSE asked

BackOff_InMemory(p) ==
    /\ usage[p].pc = "limited"
    /\ Becomes(p, Resting)
    /\ kept' = [at |-> usage[p].at, until |-> usage[p].at + DefaultBackoff]
    /\ UNCHANGED <<moment, usageFile, unsaved, renewed, slipped, overtaken, mixed, hasty>>

BackOff(p) ==
    /\ usage[p].pc = "limited"
    /\ \E wait \in {DefaultBackoff} \cup {Wait(r) : r \in RetryAfter} :
          persistUsageState(p, [usage[p].mem EXCEPT !.until = usage[p].at + wait], "done")
    /\ UNCHANGED <<moment, renewed, hasty>>

TimePasses ==
    /\ moment < LastMoment
    /\ moment' = moment + 1
    /\ UNCHANGED <<usageFile, usage, kept, unsaved, renewed, slipped, overtaken, mixed, hasty>>

\* The application ends and is started again; the probes' memory is gone.
Restart ==
    /\ \E p \in UsageProbe : usage[p].pc # "idle"
    /\ usage' = [p \in UsageProbe |-> Resting]
    /\ slipped' = (slipped \/ \E p \in UsageProbe : Writing(p))
    /\ UNCHANGED <<moment, usageFile, kept, unsaved, renewed, overtaken, mixed, hasty>>

UsageNext ==
    \/ \E p \in UsageProbe :
          \/ StartUsage(p) \/ FetchFails(p) \/ FetchSucceeds(p) \/ FetchLimited(p)
          \/ Renew(p) \/ AgainLimited(p) \/ BackOff(p) \/ WriteEnds(p)
    \/ TimePasses \/ Restart

UsageSpec == UsageInit /\ [][UsageNext]_usageVars

\* Whatever ends the application between two steps, in a write too, a probe
\* that can read the file asks for the usage neither before the wait that the
\* last answer asked for has ended, nor sooner than MinFetchInterval after a
\* last answer that asked for none, if that was written without a fault.  And
\* until a first write fails or is cut short, or a read fails, no two renewals
\* are within Cooldown.  Except that overlapping probes may have written over
\* each other's file.
EndpointIsSpared == hasty => mixed
=============================================================================
