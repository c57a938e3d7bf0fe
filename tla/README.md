# Formal models of UsagePal

UsagePal is a menu bar application: a Rust backend (Tauri) runs JavaScript plugins that ask AI providers for usage data, caches what they return and serves it; a React webview shows it, alerts on it, and manages accounts and updates. This directory holds TLA+ models of the parts of it whose correctness depends on interleavings, failures and time, TLC configurations that check them on small instances, and TLAPS proofs that hold for every instance.

- [The system](#the-system): the inventory of components, with what makes each correct
- [Modules](#modules): which module models what, and how state and actions correspond to the code
- [Runs](#runs): what TLC checks, within which bounds
- [Fairness](#fairness)
- [Proofs](#proofs)
- [Where the code departs from what it says](#where-the-code-departs-from-what-it-says)
- [What is not modelled](#what-is-not-modelled)
- [Plan](#plan)

All paths are relative to the root of the repository.

## The system

```
                      scheduler thread            HTTP clients
                            | starts                   | read
  webview --start_probe_batch--> probe batches --> usage cache --> usage-api-cache.json
     ^                        (pool of threads)        |
     |   probe:result, probe:batch-complete,           |
     +--- usage:updated <------------------------------+--- get_cached_usage (reply)
     |
     +-- pace alerts (what the cards show -> macOS notifications)
     +-- accounts    (settings.json <-> secrets on disk, written by the backend)
     +-- app update  (updater plugin, beta_updater.rs)
     +-- settings    (settings.json <-> panel, setup window)

  a probe: runtime -> provider script -> host API -> logins of other programs on disk,
                                                     the provider's service, the usage logs
  beside them: a thread that renews the prices, the global shortcut, the HTTP listener
```

Events from the backend reach the webview in the order they are emitted. Replies to commands are ordered neither with events nor with one another. Every `await` in the webview is a point where anything else may happen; every lock acquisition and file operation in the backend is one too.

| component | state | operations | hard because | correct when |
| --- | --- | --- | --- | --- |
| **Usage cache** `src-tauri/src/local_http_api/cache.rs` | snapshots, dirty and flushed generation, `flush_scheduled`, write lock; the cache file and its temporary file | insert, debounced flush with retry, exit flush, load at start | insertions between copying and recording; a worker that decides to return while one arrives; two flushing threads and one temporary file; quitting, crashing, failing writes | "clean" means durable, no insertion is stranded, quitting loses nothing, the file never goes back, a restart continues from a version that existed |
| **Probe batches** `src-tauri/src/lib.rs`, `plugin_engine/account.rs` | queue of units, counter of units left, one control state per thread | take, probe, cache, emit, count, announce | several threads on one queue; the last counter is not the last emitter; panics | a unit is probed once (its token may be single-use), completion is announced once and last, the cache agrees with the events, every batch ends |
| **Usage pipeline** `lib.rs`, `src/hooks/app/use-probe*.ts`, `use-probe-events.ts`, `use-usage-sync.ts`, `use-accounts.ts` | batches, events and replies under way, the state of each card, manual marks, active batches | bootstrap, retry, refresh all, toggle, account added or removed, hydrate, receive results, scheduled batches | overlapping batches for one key, cache reads that are applied late, requests that are rejected after the screen has changed, two listeners of one event | a spinner always has something that will end it and does end, failures do not replace data, hydrating respects a refresh, a batch is remembered for as long as it is under way |
| **Auto-update scheduler** `lib.rs` | deadline, start of cycle, the current sleep | begin a cycle, look at the clock, sleep a slice, wake, refresh | sleeps stop while the machine is suspended, the wall clock does not, and may be corrected | a due refresh is soon, none is early, none is delayed beyond the interval |
| **Pace alerts** `src/lib/pace-status.ts`, `pace-notifications.ts`, `use-pace-notifications.ts` | for each metric: window, fired milestones, last bucket, edges | evaluate, deliver, mark, toggles | marks are committed after an await; readings without data; toggles that are off when something happens; deliveries that fail | nothing is told twice without a recovery, nothing due is lost |
| **App update** `src/hooks/use-app-update.ts`, `src-tauri/src/beta_updater.rs` | the button, three in-flight flags, channel cycle, the stable object, the backend's one slot | check, choose, download, install, switch the channel | continuations of an earlier cycle, unidentified events, two parallel checks of which one fails | the button is truthful, one thing at a time, nothing of the beta channel without opt-in |
| **Accounts** `src-tauri/src/accounts.rs`, `use-accounts.ts`, `add-account-dialog.tsx`, `pages/settings.tsx` | staging directories, profiles and key files, `settings.json`, watcher threads | begin and finish a Codex sign-in, add with a key or a snapshot, remove, list | two stores without a transaction, several hooks that load, edit and save one list, a deadline, crashes | an account is listed exactly when its secret is there; a sign-in that is complete is listed |
| **Provider plugins** `plugins/*/plugin.js` | logins, keys and tokens of other programs on disk, in the keychain and in the environment; Claude's waits; Copilot's copy of a token | find a credential, refresh and store it, ask, build lines | overlapping probes and the provider's own tool refresh one single-use token; several places and endpoints are tried in turn; figures may be missing, zero, negative or excessive; state is kept in files that are rewritten whole | a stored login stays good, a good one is used, an outage is not taken for a logout, an endpoint that asked for a pause gets it, the host accepts the lines |
| **Plugin runtime, host API** `src-tauri/src/plugin_engine/runtime.rs`, `host_api.rs` | the active ccusage queries, cancel flags | call a script, check its lines; query the usage logs with a timeout | a load cannot be killed and outlives its query; one flag is shared by all queries of a provider | one bad line costs the lines of that probe only; a load at a time, and each query gets its own answer |
| **Settings** `src/lib/settings.ts`, `use-settings-*.ts`, `use-plugin-settings-refresh.ts`, `onboarding.rs`, `src/components/onboarding/` | `settings.json` and its store in memory, the completion marker, what the panel shows, the setup window | load, migrate, normalize, toggle, order, set up, reload | two windows write the same keys whole; a file torn by a crash; awaits between reading and showing; keys of earlier versions | what the user chose last is shown, stored and in force; a completed setup does not come back |
| **Pricing cache** `plugin_engine/pricing_cache.rs` | list in memory, next attempt, the file and its date | start, fetch, store, install | the date of the file is not the program's; suspensions; corrections of the clock | a fetch is never put off for long, whatever happened to the file |
| **Global shortcut** `lib.rs`, `use-settings-system-actions.ts` | stored, shown, remembered and registered shortcut | register at start, replace | releasing or registering fails in the middle | the one shown is the one that works |
| **Local HTTP server** `local_http_api/server.rs` | connection count, permits | accept, refuse, answer | a counter shared without a lock | slots are given back and not given twice |
| Manifests, windows, panel, tray, keys, config, views, usage arithmetic, licence, sharing | see [What is not modelled](#what-is-not-modelled) | | | |

## Modules

| module | models | composes |
| --- | --- | --- |
| `DurableMap` | abstract: a map with a durable copy | |
| `UsageCache` | the write-behind cache | implements `DurableMap` |
| `BatchContract` | abstract: what a batch promises its listeners | |
| `ProbeBatch` | the pool of threads of one batch | implements `BatchContract` |
| `UsagePipeline` | batches, cache and event channel of the backend with the hooks of the webview | batches in the granularity of `BatchContract`; started by `Scheduler` |
| `Scheduler` | the timing of the native scheduler | its `Fire` is `ScheduledBatch` of the pipeline |
| `PaceStatus` | arithmetic and reading of a meter, as operators | |
| `PaceNotifications` | milestones, the effect and the deliveries | extends `PaceStatus` |
| `AppUpdate` | the hook of the updater and the slot of the backend | |
| `Accounts` | the two stores of accounts and who writes them | its events and entries are `CodexLoginComplete` and `registered` of the pipeline |
| `PluginRuntime` | what the runtime makes of the lines a script returns; the words in which scripts are written down | |
| `LoginProviders`, `KeyProviders`, `AppProviders` | every script that ships: which credential, which requests, which errors, which lines | extend `PluginRuntime` |
| `ProviderProbes` | one call of a script, from its credentials to what the runtime keeps | extends the three |
| `LoginProbe` | seven scripts that refresh a borrowed login, one of them also a snapshot of it, in overlapping probes | its answered probes are the calls of `LoginProviders` |
| `ClaudeUsageState` | the file by which Claude's script spares the endpoint | |
| `CopilotToken` | where Copilot's script finds its token | |
| `CcusageQuery` | the query of the usage logs with its worker, guard and cancel flag | |
| `PricingCache` | the thread that renews the prices | |
| `GlobalShortcut` | the shortcut from the settings view to the system | |
| `HttpServer` | the slots of the HTTP listener | |
| `ProviderSettings` | the shown providers, the setup window and the completion flag | |
| `Preferences` | all other settings, by how the panel loads them | its store is that of `ProviderSettings` |
| `MCBackend` | instance: `Scheduler`, the provider modules, `PricingCache`, `CcusageQuery`, `GlobalShortcut`, `HttpServer`, one per *scene* | |
| `MCPanel` | instance: `PaceNotifications`, `AppUpdate`, `ProviderSettings`, `Preferences`, one per *scene* | |
| other `MC...` | instances for TLC | the module after `MC` |
| `UsageCacheProofs`, `ProbeBatchProofs`, `UsagePipelineProofs`, `PaceNotificationsProofs`, `AccountsProofs`, `ServiceProofs`, `PanelProofs`, `ProviderStateProofs` | theorems and proofs, see [Proofs](#proofs) | the modules they are about |

Machines that share no state are checked in one run: the first state chooses a *scene*, the machine of the scene moves and the others stay as they start. That is neither a composition nor more than the sum of separate runs.

Definitions keep the name of the function they translate (`cache_successful_output`, `woke_from_suspend`, `checkForUpdates`). An action covers what runs between two points where another actor can intervene. Operators marked *Mutant* beside a definition are the same definition with a plausible mistake in it; no specification uses them, and substituting one must make a property fail.

### UsageCache

A snapshot is represented by its *stamp*, its position among all insertions, so that "older" and "newer" are comparable; a file is a map, missing, or garbled. `cache_successful_output` is one critical section (insert, bump the generation, spawn a worker unless one is scheduled). A flush is five steps of the flushing thread, since the code drops its state lock in between: `AcquireWriteLock`, `pending_cache_write` (copy under the state lock, or clear `flush_scheduled` and return), `WriteTemp`, `RenameTemp`, `mark_cache_flushed`; `SaveFails` is an error of either file operation, and of a write it may leave half a file. The main thread makes the same flush for each of the two exit events. `Crash` ends the process at any point, and `init` starts the next one from the file. Delays (the debounce, the backoff) are not timed: a sleeping worker may wake at any moment.

### ProbeBatch

Units are numbered in queue order, so that the queue is `next .. N`. `Take` is the pop under the queue lock, `Probe` is `run_probe_for_account` under `catch_unwind` with its four kinds of outcome, then `CacheOutput`, `EmitResult`, `Count` (`fetch_sub`, which returns the value before) and for the thread that counted the last unit `EmitComplete` and `EmitUpdated`. A probe that hangs ends at the deadline the runtime gives it and is an error outcome.

### UsagePipeline

A key is a provider (its default account) or an added account. A batch goes through *requested* (the webview has invoked the command), *running* and *done*; `ProbeEnds` caches, `EmitResult` appends the event, `CompleteBatch` appends completion and, for a scheduled batch, `usage:updated`. `ProbePanics` loses a unit. On the webview's side `ui` holds data and loading of each key; `startBatch` sets the loading marks before the command is invoked; `RequestFails` undoes them; `handleProbeResult`, `DeliverComplete` and `DeliverUpdated` consume the event channel in order. `get_cached_usage` reads the cache at one moment, `Hydrate` applies what it read at a later one. `CodexLoginComplete` marks the account as loading and starts its batch while `PersistCodexAccount`, the other listener of the same event, saves the account later. `cooling` is the manual refresh cooldown, `lost` records the keys for which a batch will not say anything: a panic, or an account the backend did not know.

### Scheduler

`Tick` is time awake (a sleep advances, or a thread that could run waits for the processor, at most `Jitter`), `Suspend` advances only the wall clock, `SetBack` corrects it. The thread: `BeginCycle`, `scheduler_step` (fire or sleep at most a slice), `Wake` (compares the wall clock with the sleep it asked for), `Fire`. The remaining variables record how long the thread has been awake in the cycle, how long the refresh has been due, and what the clock gained over the time awake.

### PaceStatus and PaceNotifications

Rates are compared by multiplying out, so the arithmetic is exact on integers. One metric is modelled, because the state of different metrics is kept apart. Every `Refresh` (a reading arrives), `Rerender` (another card changed) and `SetToggles` runs a `Pass`: `transitions` with window reset, priming, session, exhaustion, pace edges and the 10 % edge in the order of the code. What a pass fires is sent one alert after the other; `Settle` ends a delivery and, if it succeeded, adds the mark to the state *of that moment*. `told` restates the promise of `docs/notifications.md` independently of the code's state: what has been told and has neither recovered nor been left behind by a new window.

### AppUpdate

Checks, downloads and installs are tasks that remember the channel cycle they were begun in. A check holds its two answers separately, because `Promise.all` settles at the first failure while the other call goes on. A download goes through *asked*, *running* (the backend has cloned what the slot holds), *finished* (the event), *done* or *failed* and is then resolved by the hook. `SetBetaUpdatesEnabled` starts a new cycle with the resets of the effect and leaves tasks alone, as the code does.

### Accounts

A staging directory is absent, empty, holds an unfinished `auth.json`, or the finished one of an account. The watcher of `begin_codex_login` looks first (`Look`) and compares the clock with its deadline only when it found nothing (`GiveUpOrSleep`). `finalize_codex_login`, called by the watcher or by the command `finish_codex_login`, is three steps: read, delete the old profile, rename. Deliveries of `codex:login-complete` start a task in every mounted `useAccounts` hook; a task loads the list, sets the store and saves it. Additions by key, removals and their failures are there too, and `Crash` keeps the disk only. `exposed` records the accounts to which one of the listed mishaps has happened.

### PluginRuntime and the provider scripts

A script is written down as two operators: `..._fetch` says, for the places that hold a credential and what each request meets (an answer, a refusal, an error, silence), whether the script gets to its figures or what it throws; `..._lines` says which lines it makes of which figures. The figures a service may report are constants, `Amounts` (used or left), `Limits` and `Parts` (of a limit), and any of them may be missing; the limits, models and files listed are at most `MaxList` and `MaxFiles`. A line keeps its label, amount, limit and unit. `parse_lines` puts an error line in the place of a line the runtime rejects, and `run_probe_with_timeout` makes of that the outcome of the probe. The arithmetic of dates, plan names and other texts is left out; where a script chooses by a date, both choices are there.

### LoginProbe

A login is a number, the n-th pair of tokens the server has issued for its source, since the server replaces the refresh token each time it is used and accepts only the newest. `Load` reads the sources in the order of the script and prefers as it does, `Check` is the test for an expiring token, `Refreshed`, `Refused` and `RefreshFails` are the answers to a refresh, `SaveCredentials` writes back what was obtained (or loses it; a write that fails, tears the file or is never made because the application ends counts as one that left the old login), `Answered`, `RateLimited` and `UsageRefused` are the answers to the usage request; `retryOnceOnAuth` and `reloadAuthState` are what they are in the code. Between any two of them another probe, the provider's own tool (`ToolRefreshes`) or time (`GrowsOld`) may act. `lost` and `raced` record what is not written back and what somebody else refreshed.

The two tokens of a login are kept apart in `store` and `access`, since the script of cursor does. Of Cursor's own login, in its database or the keychain, `persistAccessToken` writes the access token only and drops the new refresh token (`cursor/plugin.js:202-210`, `292-296`), so that every refresh leaves the used one there (`OnlyAccessIsKept`). The snapshot that `accounts.rs` takes of this login is the provider `managed-cursor`: `persistManagedAuth` writes both tokens, while Cursor refreshes its own copy, of which the snapshot hears nothing (`ToolRefreshes`). In both the probe itself goes on with the refresh token it has read (`KnownTokens`), so that its second refresh uses one that has been used. Whether Cursor's server replaces refresh tokens is unverified (`cursor/plugin.js:26-29`); the model assumes it of every server. Grok reads its file once and goes from entry to entry of what it has read, codex reads each source when its turn comes (`NextSource`).

### ClaudeUsageState and CopilotToken

`ClaudeUsageState` has the time of the last fetch, of the end of the wait and of the last renewal in a file that each probe reads at its start and writes whole at its end; waits are cut off as the code does. A write is two steps, since `std::fs::write` truncates the file before it fills it (`host_api.rs:807-815`): `persistUsageState` fails at once or leaves the file torn, and `WriteEnds` leaves all of the text, none of it or a part, after any steps of others or none at all when the application ends. The script swallows the failures, and takes a file that cannot be read or parsed for one that says nothing (`hydrateUsageState`). What the last answer said is `kept`, `unsaved` tells that it is not on file, `slipped` that some write or read has gone wrong, and `mixed` that probes have written over each other. `CopilotToken` has the copy of the token in the keychain and in a file, which may each refuse to be written or deleted, and the tool's own login that changes meanwhile.

### CcusageQuery, PricingCache, GlobalShortcut, HttpServer

`CcusageQuery` has for each query its caller (waiting, or late) and its worker, which runs on after the caller has given up; the actions are the statements of `run_ccusage_query` between which another query can act, and `Loaded` is where the vendored loader looks at the flag. `PricingCache` has the wall clock, which a suspension or a correction moves while the thread sleeps on; the steps of the thread take no time compared with a tick. `GlobalShortcut` serves the commands of the panel in order; the system may refuse to register or to release. `HttpServer` separates the load from the compare-exchange of `acquire`; a handler may end before or after it has read its request.

### ProviderSettings and Preferences

The panel and the setup window share one store in memory whose calls are served in the order they are issued: a *set* takes effect in the step that issues it, and the reply of a *get* is used in a later step. The file is written behind and not atomically; a crash within a save leaves it torn and it then loads as empty. `ProviderSettings` has the load at launch in three steps (`LoadPlugins`, `SaveNormalized`, `ShowSettings`), the toggles and orders, the merge of the setup window, the completion in the store and in the marker file (`finish_onboarding`), and the reload of the panel. `normalizePluginSettings`, `mergeProviderSelection` and `migrateWindsurfToDevin` are pure operators. `Preferences` has the sequential load at launch, in which a failed read yields the default, the records that are hydrated, the options of the strip, the synchronization of the login item, the migration of the tray style, and the writes of the setup window. `want` is what the user chose last, `crossed` and `stale` record what a property excepts: a change in one window that the other had yet to hear of, a setup finished before the panel had loaded, a key changed before it was loaded or whose read failed.

## Runs

`tlc -config <run>.cfg <module>.tla`. States are distinct states.

| configuration | properties | states |
| --- | --- | --- |
| `MCUsageCache` | CleanMeansDurable, DirtyHasWorker, ExitPersists, DiskNeverGoesBack, InsertedIsPersisted, ImplementsFairDurableMap | 115 008 |
| `MCProbeBatch` | ProbedOnce, CompleteIsLast, CacheAgreesWithEvents, BatchCompletes, ImplementsContract | 16 202 |
| `MCUsagePipeline` | SpinnerHasBatch, FailureKeepsSnapshot | 6 356 242 |
| `MCUsagePipelineLive` (module `MCUsagePipeline`) | SpinnerEnds, BatchesForgotten, ListenedThroughout | 19 798 |
| `MCBackend` | DueSoon, RefreshesKeepComing, NoEarlyRefresh (*scheduler*), LoginKept (*login*), EndpointIsSpared (*usage*), GoodLoginIsUsed (*copilot*), OutageIsNotLogout, FiguresSurvive (*script*), PricesAreRenewed (*prices*), LoadsAreTheirOwn (*ccusage*), ShownIsRegistered (*shortcut*), SlotsAreGivenBack (*http*) | 2 956 992 |
| `MCPanel` | AlertsAreNotRepeated, WorseningIsTold (*pace*), ReadyCanBeInstalled, InstallsWhatIsShown, OneAtATime, BetaNeedsOptIn (*update*), ChoiceIsKept, SetupIsNotRepeated (*providers*), PreferenceIsKept (*preferences*, *strip*, *alerts*) | 4 355 467 |
| `MCAccounts` | ListedHasSecret, SignInIsListed, SignInIsCarried | 158 729 |
| `MCCodexAdded`, `MCHydrateRace` (module `MCUsagePipeline`), `MCPaceFailed`, `MCUpdateStuck`, `MCSetupAlerts` (module `MCPanel`) | one property each, which TLC refutes; see [below](#where-the-code-departs-from-what-it-says) | |

The type invariants are theorems and no longer part of a run.

What they show, and why the bounds are enough:

**Usage cache.** Two keys, two worker identities (reused when a worker ends) and the main thread; three insertions and one failing file operation along a behaviour, any number of quits, crashes and restarts. Two keys are needed to tell a whole version from a mixture, two workers because the exit flush clears `flush_scheduled` under a live worker so that a second is spawned, three stamps so that an older copy, a newer one and memory can all differ. The cache never takes itself for clean when it is not, strands nothing, loses nothing on quit unless an operation fails, never moves the file backwards, and is a `DurableMap`; under fairness each insertion gets into the file or is replaced by a newer one or the process ends. An insertion that finds both worker identities in use is not explored, which is a bound of the instance and not of the theorems.

**Probe batch.** Three units on two threads, so that the queue is shared and a thread takes a second unit, with every outcome. The batch ends, so deadlock is not checked.

**Usage pipeline.** One provider with one addable account and two batches are the least with which a manual, a scheduled and an account batch overlap for one key and each key has a result of its own; two stamps and two events under way suffice to reorder data against events. Panics, rejected requests and removals are on. Every spinner and every manual mark has an active batch that will still say something about the key, or the key is in `lost`; failures never replace data in the cache or on the screen. In this run `MaxHydrate = 0` means that cache reads are those of the mount and of `usage:updated`; the live run and the hydrate run add one when the panel shows. Batches are interchangeable, and the safety run is reduced by that symmetry. The live run has no added account, because of the first divergence below, and otherwise everything: all spinners end and no batch is remembered for ever. `ListenedThroughout` says when it is right to forget one: `activeBatchIds` holds a batch from the step that requests it, and what is forgotten has ended, with no result still in the channel for the listener to drop.

**Scheduler** (scene of `MCBackend`)**.** Slices of 2, intervals of 1 and 7 (shorter than a slice; several slices with a remainder), slack and jitter of 1, suspensions of 1, 2 and 7 (unnoticeable, just noticeable, beyond any deadline) at any moment, corrections backwards of at most 2 in a cycle, until the clock shows 12.

**Probes** (`MCBackend`)**.** The two probes of *login*, *usage* and *copilot* are model values and interchangeable (`Symmetry`; the run has no liveness property).

**Logins** (`MCBackend`)**.** Seven providers and the snapshot of Cursor's login, two overlapping probes, two replacements by the server and one refresh by the provider's tool: the least with which a probe holds a login that another has replaced and a third party replaces it again. A source keeps the login the server accepts unless a probe is about to write it, an answer or a write was lost, grok wrote its file over a newer login, the script has refreshed Cursor's own login, whose new refresh token it drops, or Cursor has refreshed the login a snapshot was taken of. That a refresh of the snapshot leaves Cursor itself with a used token is not counted: Cursor's copy is not one of the sources. A probe asks for a login only with a cause: one was lost, a refresh failed or was overtaken, or the server refused what it had just issued to this probe.

**Claude's endpoint** (`MCBackend`)**.** Two probes, waits of 0 and of more than the maximum, instants 2 to 5 with an interval of 1, a cooldown of 1 and waits of 0 and 2, failing reads and failing or torn writes, restarts at any step: a probe can be refused, renew, wait, and be followed by one that asks after the wait has ended. Whatever goes wrong, a probe that can read the file keeps to what the last answer said if that is on file. What was not written, or cannot be read, is not kept to: the next probe asks at once. A lost note of a renewal can also be missed later, so the cooldown holds until a first write or read goes wrong.

**Copilot** (`MCBackend`)**.** Two probes and two tokens, so that the copy, the tool's login and what a probe holds can all differ.

**Scripts** (`MCBackend`)**.** Every script with every combination of credentials and replies, and figures on both sides of the scripts' conditions: the amounts 0 and 250 (nothing, more than any limit and than 100 percent), the limits 0 and 50, a part of 5, of which fifteen model calls of minimax make no whole prompt, lists of up to three limits or models and two quota files. Scripts that are not in *login* ask for a login only after a refusal or without a credential; antigravity's exceptions, the limits of zero that four scripts pass on and the counts of requests that synthetic passes on although the service left them out are named in the properties.

**Services** (`MCBackend`)**.** Prices: a TTL of 4, a retry after 2, a tick of 1, instants up to 12, files dated in the past, at one TTL and beyond all instants, corrections by -1 and suspensions of 3. Queries of one provider: three, so that one can time out beside its successor while a third is refused, for both loaders. Shortcuts: two, and three commands on their way. Connections: three for two slots.

**Pace alerts** (scene of `MCPanel`)**.** A limit of 100 and a period of 40, the amounts 0, 45, 60, 92, 99, 100 and the instants 1, 20, 38, 41, 60, 78: on both sides of every threshold of the code (5 % elapsed, 80 % and 100 % of the linear pace, 10 % left, 99 % used, nothing used) in two windows; four settings of the toggles (none, one, two, all), changed at any time; readings without a meter; failing deliveries.

**App update** (scene of `MCPanel`)**.** Two versions per channel, so that one can be superseded during a download; one switch of the channel; two tasks at a time, which is what a failed check that left a call running needs. With `~disturbed` (never switched under a call, no failed check left a call running) the restart button works, installs what it shows and only one thing is under way. Without any exception, nothing of the beta channel is shown while it is off.

**Settings** (scenes of `MCPanel`)**.** Providers: three listed ones (one of a former name, one that is detected or not, one that needs its key), files of earlier versions with and without the former name, two launches and two changes. Preferences: the keys of the load that something else depends on, one record with one field and one option of the strip, in three parts that share no key but `startOnLogin`; two launches, two changes (one beside the setup window, which changes the same keys) and one failing read or synchronization. A second launch is what migrates, loads and normalizes again what the first one wrote. A write or removal of the completion marker that fails is not explored.

**Accounts.** Two scenes in one run, chosen by the first state: two sign-ins that yield the same account and race for its profile, and one sign-in beside an account with a key. Two hooks, one user change under way at a time, one death of the application. Two sign-ins are the least that interfere, a second hook is the least that makes saves of the list overlap. `ListedHasSecret` speaks of the accounts not in `exposed`; `SignInIsListed` says that a sign-in complete before its watcher wakes up is never timed out, and `SignInIsCarried`, its safety half, that each step hands a complete sign-in on: from the watcher to its finalizer, to the event, to a task, to the list. A sign-in that completes between a look that finds nothing and the deadline is not carried: the watcher gives up, as in the code.

## Fairness

Nothing is assumed of the user, of failures, crashes, or of what probes return.

- `UsageCache`: a thread inside a flush goes on (weak fairness); a thread waiting for the write lock eventually gets it although others take it in between (strong fairness). A worker sleeps outside the lock before every turn, and the main thread flushes only twice, so the lock is free again and again.
- `ProbeBatch`: each blocking thread runs. A probe ends because the runtime interrupts it at its deadline.
- `UsagePipeline`: commands are executed, running batches proceed, the event channel and replies are delivered, the list of accounts is eventually saved. No fairness for panics alone, rejected requests, cooldowns or anything the user does.
- `Accounts`: watcher threads and finalizers run, events are delivered, promises of the webview settle. None for the CLI, whose process is not ours, and none for crashes.
- All other modules: safety only. The scheduler's progress is stated as bounds on elapsed time instead.

## Proofs

The theorems hold for every value of the constants that satisfies the assumption of the module. The assumptions are ranges of the parameters and distinct model values (`ConstantAssumption`, `BatchAssumption`, `PipelineAssumption`, `PaceAssumption`, `UpdateAssumption`, `AccountsAssumption`, `UsageStateAssumption`, `CopilotAssumption`, `LoginAssumption`, `HttpAssumption`), and for five modules also something about what they are given:

- `SchedulerAssumption`: `Jitter <= Slack`, which the comment on the slack in `lib.rs` states.
- `PriceAssumption`: a retry comes no later than a renewal (`RETRY_AFTER_FAILURE <= CACHE_TTL`, half an hour and a day in `pricing_cache.rs`).
- `PrefAssumption`: the load migrates the style of the tray before it reads it and synchronizes the login item after it has read `startOnLogin` (the order of `loadSettings`), keys of different kinds are different keys, and a default is a valid value.
- `FigureAssumption`: amounts, limits and parts are natural numbers. What a script does with a negative amount of a service is outside the theorems about the scripts.
- `ProviderAssumption`: the id that the migration replaces is no longer listed, no provider has the name that stands for an absent key, and what earlier versions left are lists of ids.

The bounds of the instances are constants too, so they may be arbitrarily large. TLC has checked each inductive invariant on the instances above before it was proved. A module may hold the proofs about several machines that share no variable.

| module | about | theorems |
| --- | --- | --- |
| `UsageCacheProofs` | `UsageCache` | TypeCorrect, CleanIsDurable, NoLostWakeup, ExitIsDurable, DiskIsMonotone, CacheImplementsMap |
| `ProbeBatchProofs` | `ProbeBatch` | TypeCorrect, UnitsProbedOnce, CompletionIsLast, CacheMatchesEvents, PoolImplementsContract |
| `UsagePipelineProofs` | `UsagePipeline` | PipelineTypeCorrect, SpinnersAreCovered, FailuresKeepSnapshots, NoIdleBatchIsActive, BatchesAreHeardOut |
| `ServiceProofs` | `Scheduler` | TypeCorrect, DueRefreshIsSoon, RefreshIsPeriodic, NoSpuriousRefresh |
| | `HttpServer`, `GlobalShortcut`, `CcusageQuery`, `PricingCache` | SlotsReturn, ShownWorks, LoadsOfTheirOwn, PricesRenewed |
| `PaceNotificationsProofs` | `PaceNotifications`, `PaceStatus` | TypeCorrect, NoRepeats, WorseningsAreTold, DeficitIffBehind |
| `PanelProofs` | `AppUpdate` | UpdateTypeCorrect, OptInRespected, OneTaskAtATime, ShownIsInstalled, ReadyInstalls |
| | `ProviderSettings`, `Preferences` | SetupStaysDone, ChoicesAreKept, PreferencesAreKept |
| `AccountsProofs` | `Accounts` | AccountsTypeCorrect, SecretsMatchEntries, SignInsAreCarried |
| `ProviderStateProofs` | `LoginProbe`, `ClaudeUsageState`, `CopilotToken` | LoginsAreKept, ClaudeSparesEndpoint, CopilotUsesGoodLogin |
| | `ProviderProbes` and the scripts | FiguresAreAccepted, OutagesAreNotLogouts |

**UsageCache.** "Clean means durable" is not inductive: recording a generation preserves it only if the copy with that generation is what the file holds now. `LockInv` (the write lock is held by exactly the thread inside a flush) makes the copy, the temporary file and the file those of one thread; `DataInv` orders file <= copy <= memory and ties equal generations to equal contents at every control state. `WorkerInv` strengthens the absence of lost wakeups by covering a set `flush_scheduled`, without which a worker that ends could leave the flag behind. `ProcessInv` and `ExitInv` say that the first exit flush already makes the snapshots of the quit durable, so the second cannot hurt. For the refinement of `DurableMap`, `VersionInv` makes the generations positions in the abstract map's list of versions: memory is the newest, a copy is the version of its generation, the file that of the recorded one or of the copy just renamed. Then a rename is the abstract step that makes a version durable, an insertion the one that adds a version, the start and the end of a process those of the abstract map, and all other steps stutter.

**ProbeBatch.** `OwnerInv`: a unit in hand was taken from the queue and belongs to one thread. `QueueInv`, `HandInv`, `HistoryInv`: what has happened to a unit in the queue, in each control state, and ever. `CountInv` ties the shared counter to the cardinality of the counted units (the finite set theorems are used here), from which the thread that sees 1 is the last; `EndInv` follows. `PoolImplementsContract` maps `Probe` of a panic to `Lose`, `EmitResult` to `Report`, `EmitComplete` to `Complete` and all other steps to stuttering.

**UsagePipeline.** That a spinner has a batch which will end it is a statement about a path with several stations: the batch is still requested, or runs and awaits the key, or holds its result, or has emitted it and the event is on its way. `SpinnerInv` says which, also for the marks of a manual refresh. It needs the order of the events (`EventsInv`): only a running batch has units left, nothing is heard of a batch before it runs, a completion that was emitted is of a batch that is done, and no result of a batch follows its completion. `DataInv` is what the action property needs: a result that succeeded has a stamp of the past that is not zero, in the batch as well as in the queue of events, so neither caching nor handling it takes data away. `NoIdleBatchIsActive` and `BatchesAreHeardOut` need the order of the events once more: a batch ends in the step that puts its completion on the way, every delivery but its own leaves a completion there (`CompletingShifts`), and the completion is the last event of its batch, so that whoever forgets the batch then has heard all of it; a batch that was rejected had said nothing.

**Scheduler.** `SleepInv` is the equation that relates the wall clock to the sleep: `now = before + (asked - left) + late + jumped`. With it a noticed suspension is exactly a gain above the slack, and `OverdueInv` and `WaitInv` bound by control state how long a refresh has been due and how long the cycle has lasted. The bounds `MaxSlice + 3 * Jitter` and `interval + 3 * Jitter` are those of the three times the thread waits for the processor on the way from one sleep to the refresh; a correction of the clock adds to the second exactly what it set back.

**Services.** *HTTP*: the counter is the cardinality of the connections that hold a slot, and between the load of `acquire` and its exchange the number seen is below the limit; the exchange succeeds only if it still holds. *Shortcut*: unless one was withheld, what is registered is what the backend manages; the last command on its way is what the panel shows; once the queue is empty and nothing was refused the two meet. *Log queries*: one query holds the guard from its beginning to the end of its worker (`OneLoads`), and a load that finds the flag set is that of a caller who no longer waits (`FlagIsItsOwn`), unless a query timed out under the load of another. *Prices*: the time awake since the last attempt and what the clock says is left until the next one are together at most the term (`DueInTerm`), and the thread is never asleep for longer than a tick (`NapEnds`), so that it looks in time (`LooksInTerm`), unless the clock was set back.

**Pace alerts.** `Known` connects the promise (`told`) to the code's state: what was told is visible as a bucket, a set edge flag or a cleared one, and therefore is not fired again; marks are not even needed for it. `NoRepeats` assumes that plugins report the reset instant of a window unchanged (`"jitter" \notin Disturbance`), and nothing of deliveries. `WorseningsAreTold` goes the other way: what the code's state takes for told was told (`Heard`), and so was what a mark blocks (`MarksInv`). The second has two exceptions which the proof had to find harmless: marks whose window is over, because the pass of the next window drops them, and the mark of *running out* in the last hundredth of a window, where a pace is behind only if the metric is exhausted, which is another alert. It assumes besides that a delivery ends before the next pass (`"slow" \notin Disturbance`); slow deliveries do lose alerts, see below. `DeficitIffBehind`: whenever a pace can be computed, the deficit of the tooltip is positive exactly when the status is *behind*.

**App update.** `ChecksInv` and `DownloadsInv` say that whatever belongs to the current cycle and asks the beta channel was begun with beta updates on; `RefInv` and `ChoiceInv` are needed for the types of what a choice starts. The other three theorems are about an updater that was never disturbed. Each of their properties needs all of `CalmInv`: every task is of the current cycle (`CyclesInv`) and alone (`AloneInv`), has its flag (`FlagsInv`) and its status (`KindInv`), a beta version that was found is in the backend's slot until it is downloaded (`FoundInv`), a download is of the version in its label and of what its slot holds (`LabelInv`), what is ready is what the slot's bytes are of (`ReadyInv`), and so is what is installed (`InstallInv`).

**Setup and preferences.** The setup: a completed setup is known to the marker while the application runs, and to the marker or the flag of the file when it starts; a torn file is one of a running application. Preferences: a choice travels from the store to what the load has got, or to a reply, and from there to the screen. `StoreInv`, `LaunchInv` and `RepliesInv` say that each of these is the choice for every key that nothing has disturbed, with the file of an older version telling of the style through its own key until the migration is past; `LoginInv` says that a synchronization under way is the only one and saw the login item as it is. An undisturbed key can become disturbed by any failure or early change, and again undisturbed by a later change, so each step needs both directions.

**Shown providers.** `ChoicesAreKept` has two halves. One is about the pure functions: the settings are read through `migrateWindsurfToDevin` and `normalizePluginSettings`, and an order is rearranged by `handleReorder`, each a loop over a list. The model writes the loops as recursive functions over their rounds (`Once`, `Merged`). The library's induction takes a predicate as a parameter, which the provers cannot instantiate; the proof says it with sets instead: a set of rounds that holds the first, and the next of each, holds all of them, since it could not miss a least one (`EveryRound`, from the well-foundedness of the numbers), and by the same argument a function with the rounds exists (`Recursion`), without which a recursive definition says nothing. From there: a loop that filters and deduplicates leaves every id that passes, once (`OnceFacts`); a rearrangement loses and doubles no provider (`MergedFacts`); whatever a file tells of a provider, its load keeps (`LoadKeeps`). The other half is the invariant `HeedInv`, which says where the last choice of every provider is found: in the file between two launches (`StoppedInv`), in what the load has got until the panel shows it (`LoadingInv`), and from then on in the store, which is what the panel shows unless the setup window is a step ahead of it (`ShownInv`). The last two hold until the windows cross: the panel is changed before it has heard of the selection, or a selection is made before the panel has loaded.

**Accounts.** Secrets and entries are related through what is under way: a secret is listed or will be (`KeptInv`), what is listed or will be has its secret unless it is being removed or replaced (`WholeInv`), a set entry stays set until it is saved (`SetInv`), store and file differ only in entries not saved yet (`SavedInv`), a removal is alone with its account (`RemovalInv`), and a finalizer owns the staging directory it will rename (`OwnInv`). All but the last speak only of accounts not in `exposed`. For `SignInsAreCarried` two steps need the invariant: no finalizer moves the directory of a watcher that has not read it yet (`FinalizerSparesWatched`, from `OwnInv`: it would be the command's, which exposes the account), and a rename that fails because the profile is there leaves the account to the sign-in that made the profile, whose secret `KeptInv` ties to the list.

**Logins.** Tokens are numbers, so "the login the server accepts" is `latest`, and nobody knows a later one (`IssuedInv`). A login about to be written is nowhere else, not even among the tokens its probe goes on with (`SaverInv`), and everybody else has it in `raced` (`RacedInv`); what a probe at work holds is the newest or has a cause, which is what a request to log in needs (`HeldInv`, `CauseInv`), and the one case left, a refresh token that the script of cursor has used itself, becomes a cause when the access token it was given for it is refused (`Outdated`). That Cursor refreshes its own copy only while nobody is about to write a newer login follows from the count of its refreshes (`CopyInv`). The proof goes through the seven scripts' differences as the model has them: which source is preferred, whether a refused token is retried, whether an error is remembered.

**Claude's endpoint.** `EndpointIsSpared` relates two history flags and is not inductive. As long as probes have not written over each other, at most one is writing (`SoleWriter`), and what the history keeps is what the file says, or what is being written to it, or is `unsaved` (`KeptInv`). Until, moreover, a first write or read goes wrong, a probe that nobody has overtaken knows the renewal that is on file (`MemInv`), and every renewal, also one about to be made, is on file or in what is being written, and any two are further apart than the cooldown (`RenewInv`).

**Copilot.** `GoodProbe`, for a probe during which the tool has held an accepted token all along: while it asks, the tool still holds that token, and it asks with it unless a copy came first, which is followed by the tool's own.

**Provider scripts.** `ScriptInv` says what a script has in hand in each stage: before the requests a setting of its own, with the figures what its lines depend on, which for jetbrains is that some file holds a quota, and at the end a list that is *sound*, every line of it one the runtime takes. A script puts its list together from parts, so soundness is shown of the empty list, of one line and of two lists joined (`SoundConcat`), and then once per script, from what it clamps and what it leaves out. Three scripts choose among what they are given, and a choice is worth something only if there is one to make: the first of the limits that qualify and the worst of a pool of models exist by the least number of a set (`LeastNatural`), and a best quota because the preference of `pickBestState` is total and transitive (`PreferredIsOrder`), which needs that ratios multiplied out compare as ratios do (`RatiosCompare`). For `OutagesAreNotLogouts` each script's refusals are followed back to their cause: with its figures it throws no request to log in (`ReturnsNoLogin`), and without them only if no place held a credential or a request was refused (`FetchesExcused`), where minimax, devin and antigravity need their several attempts taken together.

*Only model-checked*: liveness and every statement under fairness (InsertedIsPersisted, BatchCompletes, SpinnerEnds, BatchesForgotten, SignInIsListed, the fair parts of the two refinements), which are out of the prover's reach.

## Where the code departs from what it says

Five runs refute a statement of the repository.

1. **A new Codex account can load for ever** (`MCCodexAdded`, `AddedAccountFillsIn`). `codex:login-complete` has two listeners. `use-probe-on-account-added.ts:56` marks the account as loading and starts a batch, while `use-accounts.ts:124` still loads and saves the list from which `start_probe_batch` learns the accounts. If the batch reads first, the account has no unit and no result: its card loads until a refresh by hand of the provider, and hydrates skip it. The comment at line 18 promises that the card fills in without one.
2. **A hydrate can put back older data** (`MCHydrateRace`, `HydrateKeepsNewerData`). `applyCachedSnapshots` skips keys that are loading *when the reply is applied*; a reply read before the refresh ended and applied after it replaces the result. The comment at `use-probe-state.ts:128` says an in-flight refresh is not clobbered.
3. **A failed alert is not repeated** (`MCPaceFailed`, `FailedDeliveryRefires`). `pace-notifications.ts:312` says a failed delivery re-fires at the next pass. The mark is left out, but the pass has already advanced the bucket or the edge flag, so the next one sees no edge.
4. **A dead restart button** (`MCUpdateStuck`, `RestartWorks`). Beta updates switched off and on again during a beta download: the Finished event of the old download makes the status *ready* while the flag the install asks for stays false, and a check is refused because the status is *ready*.
5. **The alerts chosen in the setup window wait for the next launch** (`MCSetupAlerts`, `SetupAlertsApply`). The panel reads the alert settings once, when its window is created (`app-notifications-store.ts:29`), and the setup window of the first launch saves the selection later; only the providers are reloaded. A toggle in the settings meanwhile writes the panel's record over the selection. `docs/notifications.md:3` says that alerts are set up during onboarding.

Further behaviour that the models have, which a property has to name as an exception or which the configuration leaves out:

- *Marks of slow deliveries.* A delivery that ends after a recovery, or in the next window, adds its mark to the state of that moment and blocks the next alert (`use-pace-notifications.ts:72`). With `"slow"` in `Disturbance` and `MaxSending = 2`, WorseningIsTold is violated.
- *Jittering reset instants.* The plugins that compute the reset from their own clock (`plugins/codex/plugin.js:458`, `plugins/minimax/plugin.js:294`) can report it later by one unit, which `pace-notifications.ts:159` takes for a new window: the alerts of the window come again, against `docs/notifications.md:21`. With `"jitter"`, AlertsAreNotRepeated is violated.
- *Baseline of an old snapshot.* At launch the first pass may see the hydrated snapshot of an earlier run, so the first probe can alert although `docs/notifications.md:23` rules out launch alerts for what was so already. `"cached"` models it.
- *Continuations of an earlier channel cycle* clear flags of the current one (`use-app-update.ts:96`, `136`, `162`, `187`, `196`), so that a second check may start beside one under way. Settings are loaded after the first render, so users of the beta channel switch once at every launch: the check begun before is discarded, and the next comes after 15 minutes.
- *A failed check leaves its other call running* (`use-app-update.ts:158`): the unheard `check_beta_update` can replace or empty the slot under a finished download (`beta_updater.rs:67`), and bytes are stored into whatever the slot holds (`beta_updater.rs:110`), which can be another version than the one shown.
- *A crash during a sign-in.* No later process looks at a staging directory, so a sign-in that was pending is lost, and so is the profile that was being replaced (`accounts.rs:451` deletes it before the rename). Directories of refused and timed-out sign-ins stay.
- *`finish_codex_login` beside the watcher* of the same sign-in can delete the profile the other one has just moved into place.
- *Lost updates of the list of accounts* (`use-accounts.ts:126`): a list loaded before another task's save and set after it undoes that change.

Settings:

- Skipping or finishing the setup before the panel has loaded shows an empty list of providers until the next launch; a toggle in the panel between the setup's save and the reload overwrites its selection.
- When the completion cannot be saved the setup stays open and `plugins:changed` is not sent.
- Switching *start at login* on and off quickly can leave the login item on (`autostart.ts:19` reads it and changes it after an await); chosen in the setup, it is shown as before until the next launch.
- An alert that is toggled before the stored record was read writes the defaults of the other fields. `notifications-section.tsx:21` and `use-pace-notifications.ts:38` both hydrate, and the later reply is shown over a toggle.

Provider scripts:

- After a refused token, a refresh that gets no answer reads as *log in* for the OAuth providers. For antigravity so do a Google refresh without an answer and a login without models, although the comment at `plugins/antigravity/plugin.js:778` says that an outage does not read as signed out.
- Limits of zero that cursor, factory (standard), synthetic and zai pass on make the runtime reject the whole probe (`docs/plugins/api.md:433`: the limit is positive). So does a count of requests that the service leaves out: synthetic passes `requests` on unchecked (`synthetic/plugin.js:213`, `227`, `245`), undefined or, rounded, NaN. The line *Tiny sliver* of the mock plugin is rejected always, so that it always fails.
- cline-pass passes `body` where the host forwards only `bodyText` (`host_api.rs:1127`), so its refresh cannot succeed, and after a failed one it does not try the saved key, which its comment (lines 201-203) puts before the environment.
- Claude: a clock that is set back after a fetch blocks further ones until it has caught up; overlapping probes erase each other's wait; a server error is not recorded, so it does not throttle; nor is an answer whose write fails, and a torn or unreadable file reads as one that asks for no wait. Copilot shows the old account as long as its cached token is accepted after the tool has switched. Cursor drops the new refresh token of a rotation unless the login is a snapshot, and in memory also then, so that a second refresh of the probe, and the next one, use the old (`cursor/plugin.js:202-210`, `292-296`, `460`, `510`); refreshing a snapshot uses up the token of Cursor itself, and the other way round. A managed file without an access token falls back to the default login. Grok rewrites the file whole with entries it read earlier. Perplexity never asks for a login. Two unnamed models of codex are both called *Model*.

Services:

- A log query that times out just as its load ends sets the flag that the next query has cleared (`host_api.rs:2105`, against the comments at lines 2060 and 2083). Claude's loader then stops within a file and its partial figures count as complete; codex's fails. With `overrun` not excepted, LoadsAreTheirOwn is violated.
- A clock that is set back while the application runs postpones the next fetch of the prices by as much; only the start clamps (`pricing_cache.rs:159`).
- A refused shortcut stays on the screen and in the settings although it does not work; a former one that the system did not release is forgotten when the shortcut is switched off, and still opens the panel.

## What is not modelled

- **Manifests**: loaded and validated once, in one thread.
- **Plugin runtime, host API**: the JavaScript engine and its limits; files, HTTP, keychain and SQLite appear as what they return; what the ccusage loader computes.
- **Provider plugins**: the history of tokens and prices (antigravity 541-738, the unused spend of cline-pass), how antigravity's language server is found, dates, plan names and wording.
- **Local HTTP server**: parsing a request, and the routes, which read the usage cache under its lock.
- **Pricing cache**: looking up the rates of a model.
- **Settings**: the debug level, the share page's record (a record as the alerts' with values of its own), retired values of the strip's style, and the wording of the steps.
- **Windows, panel, tray, system notifications**: calls of the platform with little state of their own.
- **Keys and configuration**: one file each, read and written whole.
- **Views, usage arithmetic**: rendering and pure functions over the lines of an output; the merge of lines is abstracted in `handleProbeResult` to "keeps data".
- **Licence and sharing**: an external service and the rendering of an image.
- Within modelled components: texts of errors and notifications, percentages of progress, labels and the order field of accounts, the display state of the add-account dialog (it reacts to the completion of any sign-in, `add-account-dialog.tsx:186`), the relaunch command and signature checks of the updater.

## Plan

Done: `DurableMap` and `UsageCache`; `BatchContract` and `ProbeBatch`; `UsagePipeline`; `Scheduler`; `PaceStatus` and `PaceNotifications`; `AppUpdate`; `Accounts`; `LoginProbe`, `ClaudeUsageState` and `CopilotToken`; `PricingCache`, `CcusageQuery`, `GlobalShortcut` and `HttpServer`; `Preferences` and `ProviderSettings`; the runtime and the provider scripts. All with proofs.

To come, models: the merge of lines and the arithmetic of the views as operators checked against reference definitions; the order field and the selected account of `Accounts`, and the display state of its dialog.

What is left without a theorem: the liveness properties, whose safety halves are proved (`SpinnersAreCovered`, `BatchesAreHeardOut`, `SignInsAreCarried`, `NoLostWakeup`).
