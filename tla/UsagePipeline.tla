---------------------------- MODULE UsagePipeline ----------------------------
(***************************************************************************)
(* The path of usage data from probes to the screen: probe batches of the  *)
(* backend (src-tauri/src/lib.rs, each as BatchContract promises and       *)
(* ProbeBatch implements), the cache of successful outputs, the events to  *)
(* the webview, and the hooks that keep one state per account there        *)
(* (src/hooks/app/use-probe*.ts, src/hooks/use-probe-events.ts,            *)
(* use-usage-sync.ts, use-probe-on-account-added.ts, use-accounts.ts).     *)
(*                                                                         *)
(* The text of an error is left out: an error is a result that brings no   *)
(* data.  An output is represented by the stamp               *)
(* cache_successful_output gives it.  Stamps saturate at MaxStamp: from    *)
(* then on usage no longer changes.                                        *)
(* Events are delivered in the order they are emitted; replies to commands *)
(* (starting a batch, reading the cache) are ordered with nothing.         *)
(***************************************************************************)
EXTENDS Naturals, Sequences, FiniteSets

CONSTANTS
  Provider,      \* plugin ids, which are also the keys of default accounts
  AccountKey,    \* keys "provider::account" of accounts that may be added
  ProviderOf,    \* the provider of each account key
  BatchId,       \* identities (UUIDs) of batches; bound: each is used once
  MaxStamp,      \* bound: distinct outputs
  MaxHydrate,    \* bound: reads of the cache under way when the panel shows
  MaxEvent,      \* bound: events under way at once
  Disturbance    \* the rare things that may happen: a subset of AllDisturbances

AllDisturbances == {"panic", "rejected", "removal"}

ASSUME PipelineAssumption ==
  /\ AccountKey \cap Provider = {}
  /\ ProviderOf \in [AccountKey -> Provider]
  /\ MaxStamp \in Nat \ {0}
  /\ Disturbance \subseteq AllDisturbances

Key == Provider \cup AccountKey

VARIABLES
  enabled,     \* providers that are enabled in the settings
  registered,  \* account keys in settings.json that have their secret
  codex,       \* account keys that come from a Codex login, which never changes
  persisting,  \* Codex accounts whose metadata the webview is still saving
  cache,       \* CacheState.snapshots
  clock,       \* the last stamp given
  batch,       \* what each batch is doing in the backend
  events,      \* events on their way to the webview
  booted,      \* use-settings-bootstrap has started its batch
  ui,          \* pluginStates: data (0: null) and loading of each key
  cooling,     \* keys whose lastManualRefreshAt is within REFRESH_COOLDOWN_MS
  manual,      \* manualRefreshIdsRef
  active,      \* activeBatchIds
  hydrating,   \* hydrates that have not read the cache yet
  replies,     \* results of get_cached_usage not yet applied
  lost         \* history: keys a batch failed to report, until a result comes

settingVars == <<enabled, registered, codex, persisting>>
backendVars == <<cache, clock, batch>>
screenVars  == <<ui, cooling, manual, active, lost>>
syncVars    == <<hydrating, replies>>
vars == <<settingVars, backendVars, events, booted, screenVars, syncVars>>

Stamp == 0 .. MaxStamp
Kind  == {"ok", "error", "limited"}
End   == [key : Key, kind : Kind, data : Stamp]
Batch == [state : {"unused", "requested", "running", "done"}, scheduled : BOOLEAN,
          ids : SUBSET Provider, keys : SUBSET Key, manual : BOOLEAN,
          awaited : SUBSET Key, ended : SUBSET End]
Unused == [state |-> "unused", scheduled |-> FALSE, ids |-> {}, keys |-> {},
           manual |-> FALSE, awaited |-> {}, ended |-> {}]
Finished == [Unused EXCEPT !.state = "done"]
Blank  == [data |-> 0, loading |-> FALSE]

ResultEvent(b, e) == [type |-> "result", batch |-> b, end |-> e]
CompleteEvent(b)  == [type |-> "complete", batch |-> b]
UpdatedEvent      == [type |-> "updated"]

Init ==
  /\ enabled \in SUBSET Provider
  /\ codex \in SUBSET AccountKey
  /\ registered \in SUBSET (AccountKey \ codex)
  /\ persisting = {}
  /\ cache \in [Key -> {0, 1}]
  /\ clock = 1
  /\ batch = [b \in BatchId |-> Unused]
  /\ events = <<>>
  /\ booted = FALSE
  /\ ui = [k \in Key |-> Blank]
  /\ cooling = {}
  /\ manual = {}
  /\ active = {}
  /\ hydrating = 1                    \* useUsageSync hydrates on mount
  /\ replies = {}
  /\ lost = {}
-----------------------------------------------------------------------------
(* The backend.                                                            *)

\* The default account of each selected provider, and its registered ones.
expand_probe_units(ids) ==
  ids \cup {a \in registered : ProviderOf[a] \in ids}

Free(b) == batch[b].state = "unused"

Emit(e) == Len(events) < MaxEvent /\ events' = Append(events, e)

\* The command: an empty selection completes at once.  The keys that wait for
\* this batch but have no unit in it are lost.
start_probe_batch(b) ==
  /\ batch[b].state = "requested"
  /\ LET units == expand_probe_units(batch[b].ids) IN
     /\ IF units = {}
        THEN /\ Emit(CompleteEvent(b))
             /\ batch' = [batch EXCEPT ![b] = Finished]
        ELSE /\ batch' = [batch EXCEPT ![b].state = "running",
                                       ![b].awaited = units]
             /\ UNCHANGED events
     /\ lost' = lost \cup (batch[b].keys \ units)
  /\ UNCHANGED <<settingVars, cache, clock, booted, ui, cooling, manual, active,
                 syncVars>>

\* One turn of the auto-update scheduler.
ScheduledBatch(b) ==
  /\ Free(b)
  /\ enabled # {}
  /\ batch' = [batch EXCEPT ![b] =
       [Unused EXCEPT !.state = "running", !.scheduled = TRUE,
                      !.awaited = expand_probe_units(enabled)]]
  /\ UNCHANGED <<settingVars, cache, clock, events, booted, screenVars, syncVars>>

NextStamp == IF clock < MaxStamp THEN clock + 1 ELSE clock

\* Mutant: every output is cached, whatever its outcome.
ProbeEnds_CachesAll(b, k, kind) ==
  /\ batch[b].state = "running"
  /\ k \in batch[b].awaited
  /\ LET stamp == IF kind = "ok" THEN NextStamp ELSE 0
     IN  /\ batch' = [batch EXCEPT
              ![b].awaited = @ \ {k},
              ![b].ended   = @ \cup {[key |-> k, kind |-> kind, data |-> stamp]}]
         /\ cache' = [cache EXCEPT ![k] = stamp]
         /\ clock' = IF kind = "ok" THEN stamp ELSE clock
  /\ UNCHANGED <<settingVars, events, booted, screenVars, syncVars>>

\* The probe of a unit returns; a successful output is cached.
ProbeEnds(b, k, kind) ==
  /\ batch[b].state = "running"
  /\ k \in batch[b].awaited
  /\ LET stamp == IF kind = "ok" THEN NextStamp ELSE 0
     IN  /\ batch' = [batch EXCEPT
              ![b].awaited = @ \ {k},
              ![b].ended   = @ \cup {[key |-> k, kind |-> kind, data |-> stamp]}]
         /\ IF kind = "ok"
            THEN cache' = [cache EXCEPT ![k] = stamp] /\ clock' = stamp
            ELSE UNCHANGED <<cache, clock>>
  /\ UNCHANGED <<settingVars, events, booted, screenVars, syncVars>>

\* The probe of a unit panics: it is logged and counted, nothing is emitted.
ProbePanics(b, k) ==
  /\ "panic" \in Disturbance
  /\ batch[b].state = "running"
  /\ k \in batch[b].awaited
  /\ batch' = [batch EXCEPT ![b].awaited = @ \ {k}]
  /\ lost' = IF b \in active THEN lost \cup {k} ELSE lost
  /\ UNCHANGED <<settingVars, cache, clock, events, booted, ui, cooling, manual,
                 active, syncVars>>

EmitResult(b) ==
  /\ \E e \in batch[b].ended :
       /\ Emit(ResultEvent(b, e))
       /\ batch' = [batch EXCEPT ![b].ended = @ \ {e}]
  /\ UNCHANGED <<settingVars, cache, clock, booted, screenVars, syncVars>>

\* Mutant: the batch completes when its queue is empty.
CompleteBatch_QueueEmpty(b) ==
  /\ batch[b].state = "running"
  /\ batch[b].awaited = {}
  /\ events' = events \o IF batch[b].scheduled
                         THEN <<CompleteEvent(b), UpdatedEvent>>
                         ELSE <<CompleteEvent(b)>>
  /\ batch' = [batch EXCEPT ![b].state = "done"]
  /\ UNCHANGED <<settingVars, cache, clock, booted, screenVars, syncVars>>

\* The last unit is counted.
CompleteBatch(b) ==
  /\ batch[b].state = "running"
  /\ batch[b].awaited = {}
  /\ batch[b].ended = {}
  /\ Len(events) < MaxEvent
  /\ events' = events \o IF batch[b].scheduled
                         THEN <<CompleteEvent(b), UpdatedEvent>>
                         ELSE <<CompleteEvent(b)>>
  /\ batch' = [batch EXCEPT ![b] = Finished]
  /\ UNCHANGED <<settingVars, cache, clock, booted, screenVars, syncVars>>
-----------------------------------------------------------------------------
(* The webview: starting batches.                                          *)

setLoadingForPlugins(keys) ==
  ui' = [k \in Key |-> IF k \in keys
                       THEN [ui[k] EXCEPT !.loading = TRUE]
                       ELSE ui[k]]

setErrorForPlugins(keys) ==
  ui' = [k \in Key |-> IF k \in keys
                       THEN [ui[k] EXCEPT !.loading = FALSE]
                       ELSE ui[k]]

\* startBatch remembers the batch before it invokes start_probe_batch; the
\* caller has marked keys as loading.
startBatch(ids, keys, isManual) ==
  \E b \in BatchId :
    /\ Free(b)
    /\ batch' = [batch EXCEPT ![b] =
         [Unused EXCEPT !.state = "requested", !.ids = ids, !.keys = keys,
                        !.manual = isManual]]
    /\ active' = active \cup {b}
    /\ UNCHANGED lost

\* Mutant: a batch that could not be started is not forgotten.
RequestFails_KeepsBatch(b) ==
  /\ "rejected" \in Disturbance
  /\ batch[b].state = "requested"
  /\ batch' = [batch EXCEPT ![b] = Finished]
  /\ manual' = IF batch[b].manual THEN manual \ batch[b].keys ELSE manual
  /\ setErrorForPlugins(batch[b].keys)
  /\ UNCHANGED <<settingVars, cache, clock, events, booted, cooling, active,
                 syncVars, lost>>

\* invoke rejects: startBatch forgets the batch, its caller shows the error.
RequestFails(b) ==
  /\ "rejected" \in Disturbance
  /\ batch[b].state = "requested"
  /\ batch' = [batch EXCEPT ![b] = Finished]
  /\ active' = active \ {b}
  /\ manual' = IF batch[b].manual THEN manual \ batch[b].keys ELSE manual
  /\ setErrorForPlugins(batch[b].keys)
  /\ UNCHANGED <<settingVars, cache, clock, events, booted, cooling, syncVars,
                 lost>>

\* The end of use-settings-bootstrap.
Bootstrap ==
  /\ ~booted
  /\ booted' = TRUE
  /\ setLoadingForPlugins(enabled)
  /\ startBatch(enabled, enabled, FALSE)
  /\ UNCHANGED <<settingVars, cache, clock, events, cooling, manual, syncVars>>

\* handleRetryPlugin and handleRefreshAll refuse a key that is loading, that
\* waits for a manual result or that was refreshed by hand a moment ago.
Eligible(k) == ~ui[k].loading /\ k \notin manual /\ k \notin cooling

startManualRefresh(ids) ==
  /\ manual' = manual \cup ids
  /\ setLoadingForPlugins(ids)
  /\ startBatch(ids, ids, TRUE)
  /\ UNCHANGED <<settingVars, cache, clock, events, booted, cooling, syncVars>>

\* The cards that offer it are there once the settings are loaded.
handleRetryPlugin(p) == booted /\ Eligible(p) /\ startManualRefresh({p})

handleRefreshAll ==
  /\ booted
  /\ \E p \in enabled : Eligible(p)
  /\ startManualRefresh({p \in enabled : Eligible(p)})

\* The cooldown of a key passes.
CooldownPasses(k) ==
  /\ k \in cooling
  /\ cooling' = cooling \ {k}
  /\ UNCHANGED <<settingVars, backendVars, events, booted, ui, manual, active,
                 lost, syncVars>>

\* handleToggle, and plugins:changed when another window has toggled.
handleToggle(p) ==
  /\ booted
  /\ IF p \in enabled
     THEN /\ enabled' = enabled \ {p}
          /\ UNCHANGED <<batch, screenVars>>
     ELSE /\ enabled' = enabled \cup {p}
          /\ setLoadingForPlugins({p})
          /\ startBatch({p}, {p}, FALSE)
          /\ UNCHANGED <<cooling, manual>>
  /\ UNCHANGED <<registered, codex, persisting, cache, clock, events, booted, syncVars>>

\* An account added in the dialog is saved before it is announced.
AccountAdded(a) ==
  /\ a \in AccountKey \ (codex \cup registered)
  /\ registered' = registered \cup {a}
  /\ setLoadingForPlugins({a})
  /\ startBatch({ProviderOf[a]}, {a}, FALSE)
  /\ UNCHANGED <<enabled, codex, persisting, cache, clock, events, booted, cooling, manual,
                 syncVars>>

\* codex:login-complete has two listeners.  One marks the account as loading
\* and starts a batch; the other loads the account metadata and saves it.
CodexLoginComplete(a) ==
  /\ a \in codex \ (registered \cup persisting)
  /\ persisting' = persisting \cup {a}
  /\ setLoadingForPlugins({a})
  /\ startBatch({ProviderOf[a]}, {a}, FALSE)
  /\ UNCHANGED <<enabled, registered, codex, cache, clock, events, booted, cooling, manual,
                 syncVars>>

\* ... which reaches settings.json later.
PersistCodexAccount(a) ==
  /\ a \in persisting
  /\ persisting' = persisting \ {a}
  /\ registered' = registered \cup {a}
  /\ UNCHANGED <<enabled, codex, backendVars, events, booted, screenVars, syncVars>>

RemoveAccount(a) ==
  /\ "removal" \in Disturbance
  /\ a \in registered
  /\ registered' = registered \ {a}
  /\ UNCHANGED <<enabled, codex, persisting, backendVars, events, booted, screenVars,
                 syncVars>>
-----------------------------------------------------------------------------
(* The webview: receiving data.                                            *)

\* handleProbeResult: an error keeps the data, and a rate-limited output is
\* merged with the usage lines known before.
Received(s, e) ==
  [data |-> IF e.kind = "ok" THEN e.data ELSE s.data, loading |-> FALSE]

\* Mutant: a manual refresh that ends in an error stays marked as manual.
handleProbeResult_KeepsManual(e) ==
  LET k == e.key IN
  /\ ui' = [ui EXCEPT ![k] = Received(@, e)]
  /\ manual' = IF e.kind = "error" THEN manual ELSE manual \ {k}
  /\ cooling' = IF k \in manual /\ e.kind # "error" THEN cooling \cup {k} ELSE cooling
  /\ lost' = lost \ {k}

handleProbeResult(e) ==
  LET k == e.key IN
  /\ ui' = [ui EXCEPT ![k] = Received(@, e)]
  /\ manual' = manual \ {k}
  /\ cooling' = IF k \in manual /\ e.kind # "error" THEN cooling \cup {k} ELSE cooling
  /\ lost' = lost \ {k}

DeliverResult ==
  /\ events # <<>>
  /\ Head(events).type = "result"
  /\ IF Head(events).batch \in active
     THEN handleProbeResult(Head(events).end)
     ELSE UNCHANGED <<ui, manual, cooling, lost>>
  /\ events' = Tail(events)
  /\ UNCHANGED <<settingVars, backendVars, booted, active, syncVars>>

DeliverComplete ==
  /\ events # <<>>
  /\ Head(events).type = "complete"
  /\ active' = active \ {Head(events).batch}
  /\ events' = Tail(events)
  /\ UNCHANGED <<settingVars, backendVars, booted, ui, cooling, manual, lost,
                 syncVars>>

\* usage:updated makes useUsageSync hydrate.
DeliverUpdated ==
  /\ events # <<>>
  /\ Head(events).type = "updated"
  /\ hydrating' = hydrating + 1
  /\ events' = Tail(events)
  /\ UNCHANGED <<settingVars, backendVars, booted, screenVars, replies>>

\* The panel becomes visible: it hydrates too.
BecomesVisible ==
  /\ hydrating + Cardinality(replies) < MaxHydrate
  /\ hydrating' = hydrating + 1
  /\ UNCHANGED <<settingVars, backendVars, events, booted, screenVars, replies>>

\* get_cached_usage: the snapshots of enabled providers and of accounts that
\* are registered; 0 where there is none.
enabled_usage_snapshots ==
  [k \in Key |-> IF k \in expand_probe_units(enabled) THEN cache[k] ELSE 0]

get_cached_usage ==
  /\ hydrating > 0
  /\ hydrating' = hydrating - 1
  /\ replies' = replies \cup {enabled_usage_snapshots}
  /\ UNCHANGED <<settingVars, backendVars, events, booted, screenVars>>

\* A key that is loading keeps its state.
applyCachedSnapshots(snapshots) ==
  ui' = [k \in Key |-> IF snapshots[k] # 0 /\ ~ui[k].loading
                       THEN [data |-> snapshots[k], loading |-> FALSE]
                       ELSE ui[k]]

Hydrate ==
  /\ \E snapshots \in replies :
       /\ applyCachedSnapshots(snapshots)
       /\ replies' = replies \ {snapshots}
  /\ UNCHANGED <<settingVars, backendVars, events, booted, cooling, manual, active,
                 lost, hydrating>>
-----------------------------------------------------------------------------
Backend ==
  \E b \in BatchId :
    \/ start_probe_batch(b)
    \/ ScheduledBatch(b)
    \/ EmitResult(b)
    \/ CompleteBatch(b)
    \/ \E k \in Key, kind \in Kind : ProbeEnds(b, k, kind)
    \/ \E k \in Key : ProbePanics(b, k)

Starting ==
  \/ Bootstrap
  \/ handleRefreshAll
  \/ \E p \in Provider : handleRetryPlugin(p) \/ handleToggle(p)
  \/ \E a \in AccountKey :
       AccountAdded(a) \/ CodexLoginComplete(a) \/ PersistCodexAccount(a)
                       \/ RemoveAccount(a)
  \/ \E b \in BatchId : RequestFails(b)
  \/ \E k \in Key : CooldownPasses(k)

Receiving ==
  \/ DeliverResult
  \/ DeliverComplete
  \/ DeliverUpdated
  \/ BecomesVisible
  \/ get_cached_usage
  \/ Hydrate

Next == Backend \/ Starting \/ Receiving

Spec == Init /\ [][Next]_vars

\* Threads run, probes end by their deadline, events and replies arrive.
\* Nothing is assumed of the user, of failures or of what probes return.
Fairness ==
  /\ \A b \in BatchId :
       /\ WF_vars(start_probe_batch(b))
       /\ WF_vars(EmitResult(b) \/ CompleteBatch(b))
       /\ \A k \in Key : WF_vars(\/ ProbePanics(b, k)
                                 \/ \E kind \in Kind : ProbeEnds(b, k, kind))
  /\ WF_vars(DeliverResult \/ DeliverComplete \/ DeliverUpdated)
  /\ WF_vars(get_cached_usage)
  /\ WF_vars(Hydrate)
  /\ \A a \in AccountKey : WF_vars(PersistCodexAccount(a))

FairSpec == Spec /\ Fairness
-----------------------------------------------------------------------------
\* A batch the webview listens to will still say something of key k.
Covered(k) ==
  \E b \in active :
    \/ batch[b].state = "requested" /\ k \in batch[b].keys
    \/ k \in batch[b].awaited
    \/ \E e \in batch[b].ended : e.key = k
    \/ \E i \in 1 .. Len(events) : /\ events[i].type = "result"
                                   /\ events[i].batch = b
                                   /\ events[i].end.key = k

\* A spinner, and a manual refresh that makes further ones refused, always
\* has a batch in flight that will end it, unless the probe panicked or the
\* backend did not know the account.
SpinnerHasBatch ==
  \A k \in Key : ui[k].loading \/ k \in manual => Covered(k) \/ k \in lost

\* activeBatchIds: a batch the webview has asked for is listened to from that
\* step on, before the reply to the command, and forgotten only when nothing of
\* it is on its way: the listener of probe:result drops none of its results.
ListenedThroughout ==
  [][\A b \in BatchId :
       /\ batch'[b].state = "requested" \/ (batch'[b].state = "running" /\ ~batch'[b].scheduled)
            => b \in active'
       /\ b \in active \ active' =>
            /\ batch'[b].state = "done" /\ batch'[b].awaited = {} /\ batch'[b].ended = {}
            /\ \A i \in 1 .. Len(events') :
                 events'[i].type = "result" => events'[i].batch # b]_vars

\* A failed or rate-limited probe never replaces what an earlier probe found,
\* in the cache (and so in the local HTTP API) or on the screen.
FailureKeepsSnapshot ==
  [][\A k \in Key : /\ cache'[k] >= cache[k]
                    /\ ui[k].data # 0 => ui'[k].data # 0]_vars

\* Every spinner ends, and every manual refresh can eventually be repeated.
SpinnerEnds ==
  \A k \in Key : ui[k].loading \/ k \in manual
                   ~> (~ui[k].loading /\ k \notin manual) \/ k \in lost

\* activeBatchIds does not leak: every batch that was started is forgotten.
BatchesForgotten == \A b \in BatchId : b \in active ~> b \notin active

\* The comments of use-probe-on-account-added.ts: a newly added account is
\* refreshed, so its card fills in (or shows an error) without a manual
\* refresh.
AddedAccountFillsIn ==
  \A a \in AccountKey : a \in codex /\ ui[a].loading ~> ~ui[a].loading

\* The comment of applyCachedSnapshots: hydrating does not clobber a refresh
\* that is in flight: what a manual refresh brought is not replaced by older
\* data.
HydrateKeepsNewerData ==
  [][\A k \in Key : replies' # replies => ui'[k].data >= ui[k].data]_vars
=============================================================================
