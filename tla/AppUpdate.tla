------------------------------ MODULE AppUpdate ------------------------------
(***************************************************************************)
(* The in-app updater: the hook src/hooks/use-app-update.ts, which keeps   *)
(* what the update button shows, and src-tauri/src/beta_updater.rs, which  *)
(* keeps the beta update it has found and downloaded in one slot.          *)
(*                                                                         *)
(* Every await of the hook is a task: a check, a download or an install    *)
(* that is answered later and then continues, possibly after the user has  *)
(* turned beta updates on or off, which starts a new channel cycle.        *)
(***************************************************************************)
EXTENDS Integers, FiniteSets

CONSTANTS
  MaxVersion,   \* bound: the latest version a channel publishes
  MaxCycle,     \* bound: how often beta updates are switched on or off
  MaxTasks      \* bound: checks and downloads under way at the same time

ASSUME UpdateAssumption ==
  /\ MaxVersion \in Nat \ {0}
  /\ MaxCycle \in Nat
  /\ MaxTasks \in Nat \ {0}

Channels == {"stable", "beta"}
Versions == 1 .. MaxVersion
None == 0                        \* no version: nothing newer than this build
Waiting == 0 - 1                 \* the answer of a call that is under way
Failed == 0 - 2
Answers == Versions \cup {None, Waiting, Failed}
Ids == 1 .. MaxTasks + 1         \* one more than tasks: updateRef keeps one

Kinds == {"idle", "checking", "choice", "up-to-date", "downloading", "installing",
          "ready", "error"}

VARIABLES
  published,    \* the newest version of each channel at the server
  status,       \* statusRef: [kind, channel, stable, beta]
  updateRef,    \* the stable Update object: [id, version, bytes]
  betaUpdateReady, channelCycle, betaUpdatesEnabled,
  downloadingUpdate,   \* [channel, version], version None when null
  inFlight,     \* [checking, downloading, installing]
  upToDateTimeout,     \* whether the timer that hides "up to date" runs
  checks,       \* checks under way
  downloads,    \* downloads under way
  install,      \* the install under way: [channel, version], or None
  pending,      \* the slot of the backend: [version, bytes], None when empty
  installed,    \* history: the last install, what was shown and what was installed
  disturbed     \* history: beta updates were switched, or a check failed, while
                \* something it did not wait for was under way

updateVars == <<published, status, updateRef, betaUpdateReady, channelCycle, betaUpdatesEnabled,
          downloadingUpdate, inFlight, upToDateTimeout, checks, downloads, install,
          pending, installed, disturbed>>

Status(kind) == [kind |-> kind, channel |-> "stable", stable |-> None, beta |-> None]

Ready(channel, version) ==
  [Status("ready") EXCEPT !.channel = channel,
     !.stable = IF channel = "stable" THEN version ELSE None,
     !.beta   = IF channel = "beta" THEN version ELSE None]

Shown(s) == IF s.channel = "stable" THEN s.stable ELSE s.beta

NoUpdate == [id |-> 0, version |-> None, bytes |-> None]
NoDownload == [channel |-> "stable", version |-> None]
NoPending == [version |-> None, bytes |-> None]
Free == [checking |-> FALSE, downloading |-> FALSE, installing |-> FALSE]

Busy == inFlight.checking \/ inFlight.downloading \/ inFlight.installing

\* The identity of a check, a download, and of the Update object it leads to.
FreshIds == Ids \ ({c.id : c \in checks} \cup {d.id : d \in downloads} \cup {updateRef.id})

-----------------------------------------------------------------------------
(* Checks.                                                                 *)

\* Mutant: a check may start while another one is under way.
checkForUpdates_Busy ==
  /\ Cardinality(checks) + Cardinality(downloads) < MaxTasks
  /\ status.kind \notin {"ready", "choice"}
  /\ upToDateTimeout' = FALSE
  /\ inFlight' = [inFlight EXCEPT !.checking = TRUE]
  /\ status' = Status("checking")
  /\ \E id \in FreshIds :
       checks' = checks \cup
         {[id |-> id, cycle |-> channelCycle, resolved |-> FALSE, stable |-> Waiting,
           beta |-> IF betaUpdatesEnabled THEN Waiting ELSE None]}
  /\ UNCHANGED <<published, updateRef, betaUpdateReady, channelCycle, betaUpdatesEnabled,
                 downloadingUpdate, downloads, install, pending, installed, disturbed>>

\* A button, the 15 min interval or the first render.  A check without beta
\* updates has its second answer from the start.
checkForUpdates ==
  /\ Cardinality(checks) + Cardinality(downloads) < MaxTasks
  /\ ~Busy
  /\ status.kind \notin {"ready", "choice"}
  /\ upToDateTimeout' = FALSE
  /\ inFlight' = [inFlight EXCEPT !.checking = TRUE]
  /\ status' = Status("checking")
  /\ \E id \in FreshIds :
       checks' = checks \cup
         {[id |-> id, cycle |-> channelCycle, resolved |-> FALSE, stable |-> Waiting,
           beta |-> IF betaUpdatesEnabled THEN Waiting ELSE None]}
  /\ UNCHANGED <<published, updateRef, betaUpdateReady, channelCycle, betaUpdatesEnabled,
                 downloadingUpdate, downloads, install, pending, installed, disturbed>>

\* check() of the updater plugin answers.
StableAnswers(c) ==
  /\ c.stable = Waiting
  /\ \E answer \in {published["stable"], Failed} :
       checks' = (checks \ {c}) \cup
         IF c.resolved /\ c.beta # Waiting THEN {} ELSE {[c EXCEPT !.stable = answer]}
  /\ UNCHANGED <<published, status, updateRef, betaUpdateReady, channelCycle, betaUpdatesEnabled,
                 downloadingUpdate, inFlight, upToDateTimeout, downloads, install, pending,
                 installed, disturbed>>

\* check_beta_update: what it finds replaces what the slot held.
check_beta_update(c) ==
  /\ c.beta = Waiting
  /\ \E answer \in {published["beta"], Failed} :
       /\ checks' = (checks \ {c}) \cup
            IF c.resolved /\ c.stable # Waiting THEN {} ELSE {[c EXCEPT !.beta = answer]}
       /\ pending' = IF answer = Failed THEN pending ELSE [version |-> answer, bytes |-> None]
       /\ disturbed' = (disturbed \/ (c.resolved /\ answer # Failed))
  /\ UNCHANGED <<published, status, updateRef, betaUpdateReady, channelCycle, betaUpdatesEnabled,
                 downloadingUpdate, inFlight, upToDateTimeout, downloads, install, installed>>

\* Promise.all settles with both answers or with the first failure; a call
\* whose check was already rejected is answered later, unheard.
Settles(c) ==
  /\ ~c.resolved
  /\ \/ c.stable # Waiting /\ c.beta # Waiting
     \/ Failed \in {c.stable, c.beta}

Unheard(c) == IF Waiting \in {c.stable, c.beta} THEN {[c EXCEPT !.resolved = TRUE]} ELSE {}

\* The download of a found version, begun by a check or by a choice.
Starts(channel, version, id) ==
  /\ inFlight' = [inFlight EXCEPT !.checking = FALSE, !.downloading = TRUE]
  /\ downloadingUpdate' = [channel |-> channel, version |-> version]
  /\ status' = Status("downloading")
  /\ downloads' = downloads \cup
       {[id |-> id, cycle |-> channelCycle, channel |-> channel, version |-> version,
         of |-> IF channel = "stable" THEN version ELSE None, state |-> "asked"]}
  /\ updateRef' = IF channel = "stable" THEN [id |-> id, version |-> version, bytes |-> None]
                  ELSE updateRef

\* The continuation of a check.  A check of an earlier channel cycle ends
\* silently, but not before it has cleared the checking flag.
CheckResolves(c) ==
  /\ Settles(c)
  /\ checks' = (checks \ {c}) \cup Unheard(c)
  /\ \/ /\ c.cycle # channelCycle
        /\ inFlight' = [inFlight EXCEPT !.checking = FALSE]
        /\ UNCHANGED <<status, updateRef, betaUpdateReady, downloadingUpdate, upToDateTimeout,
                       downloads>>
     \/ /\ c.cycle = channelCycle /\ Failed \in {c.stable, c.beta}
        /\ inFlight' = [inFlight EXCEPT !.checking = FALSE]
        /\ status' = Status("error")
        /\ UNCHANGED <<updateRef, betaUpdateReady, downloadingUpdate, upToDateTimeout, downloads>>
     \/ /\ c.cycle = channelCycle /\ c.stable \in Versions /\ c.beta \in Versions
        /\ inFlight' = [inFlight EXCEPT !.checking = FALSE]
        /\ updateRef' = [id |-> c.id, version |-> c.stable, bytes |-> None]
        /\ betaUpdateReady' = FALSE
        /\ status' = [Status("choice") EXCEPT !.stable = c.stable, !.beta = c.beta]
        /\ UNCHANGED <<downloadingUpdate, upToDateTimeout, downloads>>
     \/ /\ c.cycle = channelCycle /\ c.stable \in Versions /\ c.beta = None
        /\ Starts("stable", c.stable, c.id)
        /\ UNCHANGED <<betaUpdateReady, upToDateTimeout>>
     \/ /\ c.cycle = channelCycle /\ c.stable = None /\ c.beta \in Versions
        /\ Starts("beta", c.beta, c.id)
        /\ UNCHANGED <<betaUpdateReady, upToDateTimeout>>
     \/ /\ c.cycle = channelCycle /\ c.stable = None /\ c.beta = None
        /\ inFlight' = [inFlight EXCEPT !.checking = FALSE]
        /\ betaUpdateReady' = IF betaUpdatesEnabled THEN FALSE ELSE betaUpdateReady
        /\ status' = Status("up-to-date")
        /\ upToDateTimeout' = TRUE
        /\ UNCHANGED <<updateRef, downloadingUpdate, downloads>>
  /\ UNCHANGED <<published, channelCycle, betaUpdatesEnabled, install, pending, installed, disturbed>>

\* Three seconds after "up to date".
UpToDateReset ==
  /\ upToDateTimeout
  /\ upToDateTimeout' = FALSE
  /\ status' = Status("idle")
  /\ UNCHANGED <<published, updateRef, betaUpdateReady, channelCycle, betaUpdatesEnabled,
                 downloadingUpdate, inFlight, checks, downloads, install, pending, installed, disturbed>>

\* Mutant: either choice is labelled with the stable version.
chooseUpdate_StableLabel(channel) ==
  /\ status.kind = "choice"
  /\ ~Busy
  /\ Cardinality(checks) + Cardinality(downloads) < MaxTasks
  /\ channel = "stable" => updateRef # NoUpdate
  /\ \E id \in FreshIds :
       Starts(channel, status.stable, IF channel = "stable" THEN updateRef.id ELSE id)
  /\ UNCHANGED <<published, betaUpdateReady, channelCycle, betaUpdatesEnabled, upToDateTimeout,
                 checks, install, pending, installed, disturbed>>

chooseUpdate(channel) ==
  /\ status.kind = "choice"
  /\ ~Busy
  /\ Cardinality(checks) + Cardinality(downloads) < MaxTasks
  /\ channel = "stable" => updateRef # NoUpdate
  /\ \E id \in FreshIds :
       Starts(channel, IF channel = "stable" THEN status.stable ELSE status.beta,
              IF channel = "stable" THEN updateRef.id ELSE id)
  /\ UNCHANGED <<published, betaUpdateReady, channelCycle, betaUpdatesEnabled, upToDateTimeout,
                 checks, install, pending, installed, disturbed>>

-----------------------------------------------------------------------------
(* Downloads.                                                              *)

Becomes(d, e) == downloads' = (downloads \ {d}) \cup {e}

\* The backend begins: a beta download takes a clone of what the slot holds.
DownloadBegins(d) ==
  /\ d.state = "asked"
  /\ IF d.channel = "beta" /\ pending = NoPending
     THEN Becomes(d, [d EXCEPT !.state = "failed"])
     ELSE Becomes(d, [d EXCEPT !.state = "running",
                               !.of = IF d.channel = "beta" THEN pending.version ELSE @])
  /\ UNCHANGED <<published, status, updateRef, betaUpdateReady, channelCycle, betaUpdatesEnabled,
                 downloadingUpdate, inFlight, upToDateTimeout, checks, install, pending, installed, disturbed>>

\* Mutant: the listener for beta events is not disposed of.
Heard_Undisposed(d) ==
  IF d.channel = "stable" THEN d.cycle = channelCycle ELSE TRUE

\* Whether an event of the download reaches the status: the callback of a
\* stable download knows its cycle, the events of beta downloads do not, and
\* are listened to while beta updates are on.
Heard(d) ==
  IF d.channel = "stable" THEN d.cycle = channelCycle ELSE betaUpdatesEnabled

Progress(d) ==
  /\ d.state = "running" /\ Heard(d)
  /\ status' = Status("downloading")
  /\ status' # status
  /\ UNCHANGED <<published, updateRef, betaUpdateReady, channelCycle, betaUpdatesEnabled,
                 downloadingUpdate, inFlight, upToDateTimeout, checks, downloads, install,
                 pending, installed, disturbed>>

\* The Finished event, which precedes the answer.
Finished(d) ==
  /\ d.state = "running"
  /\ Becomes(d, [d EXCEPT !.state = "finished"])
  /\ status' = IF ~Heard(d) THEN status
               ELSE IF d.channel = "stable" THEN Ready("stable", d.version)
               ELSE IF downloadingUpdate = NoDownload THEN status
               ELSE Ready(downloadingUpdate.channel, downloadingUpdate.version)
  /\ UNCHANGED <<published, updateRef, betaUpdateReady, channelCycle, betaUpdatesEnabled,
                 downloadingUpdate, inFlight, upToDateTimeout, checks, install, pending, installed, disturbed>>

\* The bytes are stored: in the Update object, or in whatever the slot holds now.
DownloadEnds(d) ==
  /\ d.state = "finished"
  /\ Becomes(d, [d EXCEPT !.state = "done"])
  /\ pending' = IF d.channel = "beta" /\ pending # NoPending
                THEN [pending EXCEPT !.bytes = d.of] ELSE pending
  /\ updateRef' = IF d.channel = "stable" /\ updateRef.id = d.id
                  THEN [updateRef EXCEPT !.bytes = d.of] ELSE updateRef
  /\ UNCHANGED <<published, status, betaUpdateReady, channelCycle, betaUpdatesEnabled,
                 downloadingUpdate, inFlight, upToDateTimeout, checks, install, installed, disturbed>>

DownloadFails(d) ==
  /\ d.state = "running"
  /\ Becomes(d, [d EXCEPT !.state = "failed"])
  /\ UNCHANGED <<published, status, updateRef, betaUpdateReady, channelCycle, betaUpdatesEnabled,
                 downloadingUpdate, inFlight, upToDateTimeout, checks, install, pending, installed, disturbed>>

\* The continuation of a download.  The finally block runs in every case, for
\* a download of an earlier channel cycle too.
DownloadResolves(d) ==
  /\ d.state \in {"done", "failed"}
  /\ downloads' = downloads \ {d}
  /\ inFlight' = [inFlight EXCEPT !.downloading = FALSE]
  /\ downloadingUpdate' = NoDownload
  /\ betaUpdateReady' =
       IF d.channel = "beta" /\ d.state = "failed" THEN FALSE
       ELSE IF d.channel = "beta" /\ d.cycle = channelCycle THEN TRUE
       ELSE betaUpdateReady
  /\ status' = IF d.cycle # channelCycle THEN status
               ELSE IF d.state = "done" THEN Ready(d.channel, d.version)
               ELSE Status("error")
  /\ UNCHANGED <<published, updateRef, channelCycle, betaUpdatesEnabled, upToDateTimeout,
                 checks, install, pending, installed, disturbed>>

-----------------------------------------------------------------------------
(* Installing.                                                             *)

NoInstall == NoDownload

triggerInstall ==
  /\ status.kind = "ready"
  /\ IF status.channel = "beta" THEN betaUpdateReady ELSE updateRef # NoUpdate
  /\ ~inFlight.installing /\ ~inFlight.downloading
  /\ install = NoInstall           \* bound: one install under way
  /\ inFlight' = [inFlight EXCEPT !.installing = TRUE]
  /\ install' = [channel |-> status.channel, version |-> Shown(status)]
  /\ status' = Status("installing")
  /\ UNCHANGED <<published, updateRef, betaUpdateReady, channelCycle, betaUpdatesEnabled,
                 downloadingUpdate, upToDateTimeout, checks, downloads, pending, installed, disturbed>>

\* What the update that is installed consists of.
Bytes(channel) == IF channel = "beta" THEN pending.bytes ELSE updateRef.bytes

\* Mutant: after a failed install the button offers to restart again.
InstallEnds_OfferAgain ==
  /\ install # NoInstall
  /\ pending' = IF install.channel = "beta" THEN NoPending ELSE pending
  /\ inFlight' = [inFlight EXCEPT !.installing = FALSE]
  /\ install' = NoInstall
  /\ status' = Ready(install.channel, install.version)
  /\ UNCHANGED <<published, updateRef, betaUpdateReady, channelCycle, betaUpdatesEnabled,
                 downloadingUpdate, upToDateTimeout, checks, downloads, installed, disturbed>>

\* install_beta_update empties the slot whatever follows; the install or the
\* relaunch after it may fail.
InstallEnds ==
  /\ install # NoInstall
  /\ pending' = IF install.channel = "beta" THEN NoPending ELSE pending
  /\ inFlight' = [inFlight EXCEPT !.installing = FALSE]
  /\ install' = NoInstall
  /\ \/ /\ Bytes(install.channel) # None
        /\ installed' = [shown |-> install.version, got |-> Bytes(install.channel)]
        /\ betaUpdateReady' = IF install.channel = "beta" THEN FALSE ELSE betaUpdateReady
        /\ status' = Status("idle")
     \/ /\ status' = Status("error")
        /\ UNCHANGED <<betaUpdateReady, installed>>
  /\ UNCHANGED <<published, updateRef, channelCycle, betaUpdatesEnabled, downloadingUpdate,
                 upToDateTimeout, checks, downloads, disturbed>>

-----------------------------------------------------------------------------
(* The user and the server.                                                *)

\* Beta updates are switched on or off, by the user or by the settings that
\* are loaded after the first render: a new cycle, without a check of its own.
SetBetaUpdatesEnabled ==
  /\ channelCycle < MaxCycle
  /\ betaUpdatesEnabled' = ~betaUpdatesEnabled
  /\ channelCycle' = channelCycle + 1
  /\ betaUpdateReady' = FALSE
  /\ updateRef' = NoUpdate
  /\ inFlight' = Free
  /\ upToDateTimeout' = FALSE
  /\ status' = Status("idle")
  /\ disturbed' = (disturbed \/ checks # {} \/ downloads # {} \/ install # NoInstall)
  /\ UNCHANGED <<published, downloadingUpdate, checks, downloads, install, pending, installed>>

Publish(channel) ==
  /\ published[channel] < MaxVersion
  /\ published' = [published EXCEPT ![channel] = @ + 1]
  /\ UNCHANGED <<status, updateRef, betaUpdateReady, channelCycle, betaUpdatesEnabled,
                 downloadingUpdate, inFlight, upToDateTimeout, checks, downloads, install,
                 pending, installed, disturbed>>

UpdateInit ==
  /\ published \in [Channels -> {None, 1}]
  /\ status = Status("idle")
  /\ updateRef = NoUpdate
  /\ betaUpdateReady = FALSE /\ channelCycle = 0 /\ betaUpdatesEnabled \in BOOLEAN
  /\ downloadingUpdate = NoDownload
  /\ inFlight = Free
  /\ upToDateTimeout = FALSE
  /\ checks = {} /\ downloads = {}
  /\ install = NoInstall
  /\ pending = NoPending
  /\ installed = [shown |-> None, got |-> None]
  /\ disturbed = FALSE

Check == \E c \in checks : StableAnswers(c) \/ check_beta_update(c) \/ CheckResolves(c)
Download ==
  \E d \in downloads : \/ DownloadBegins(d) \/ Finished(d) \/ DownloadEnds(d)
                       \/ DownloadFails(d) \/ DownloadResolves(d)

UpdateNext ==
  \/ checkForUpdates \/ Check \/ UpToDateReset
  \/ \E channel \in Channels : chooseUpdate(channel) \/ Publish(channel)
  \/ Download \/ \E d \in downloads : Progress(d)
  \/ triggerInstall \/ InstallEnds
  \/ SetBetaUpdatesEnabled

UpdateSpec == UpdateInit /\ [][UpdateNext]_updateVars

-----------------------------------------------------------------------------
(* Properties.                                                             *)

UpdateTypeOK ==
  /\ published \in [Channels -> Versions \cup {None}]
  /\ status \in [kind : Kinds, channel : Channels, stable : Versions \cup {None},
                 beta : Versions \cup {None}]
  /\ updateRef \in [id : Ids \cup {0}, version : Versions \cup {None},
                    bytes : Versions \cup {None}]
  /\ betaUpdateReady \in BOOLEAN /\ betaUpdatesEnabled \in BOOLEAN
  /\ channelCycle \in 0 .. MaxCycle
  /\ downloadingUpdate \in [channel : Channels, version : Versions \cup {None}]
  /\ inFlight \in [checking : BOOLEAN, downloading : BOOLEAN, installing : BOOLEAN]
  /\ upToDateTimeout \in BOOLEAN
  /\ checks \subseteq [id : Ids, cycle : 0 .. MaxCycle, resolved : BOOLEAN,
                       stable : Answers, beta : Answers]
  /\ downloads \subseteq [id : Ids, cycle : 0 .. MaxCycle, channel : Channels, version : Versions,
                          of : Versions \cup {None},
                          state : {"asked", "running", "finished", "done", "failed"}]
  /\ install \in [channel : Channels, version : Versions \cup {None}]
  /\ pending \in [version : Versions \cup {None}, bytes : Versions \cup {None}]
  /\ disturbed \in BOOLEAN
  /\ installed \in [shown : Versions \cup {None}, got : Versions \cup {None}]

\* What is installed is the version the button showed, as long as the setting
\* was never switched under a check, a download or an install, and no failed
\* check left its other call running.
InstallsWhatIsShown == ~disturbed => installed.shown = installed.got

\* One thing at a time: a check or a download of the current channel cycle is
\* never under way without its flag, so no second one can be started.
OneAtATime ==
  ~disturbed =>
    /\ \A c \in checks : c.cycle = channelCycle /\ ~c.resolved => inFlight.checking
    /\ \A d \in downloads : d.cycle = channelCycle => inFlight.downloading

\* Whoever has not asked for beta updates is not shown any: after they are
\* switched off, no late answer or event of the beta channel reaches the button.
BetaNeedsOptIn ==
  status.kind = "choice" \/ (status.kind = "ready" /\ status.channel = "beta")
    => betaUpdatesEnabled

\* The button that offers to restart into the update can do so: once nothing
\* is under way, what is shown as ready has been downloaded and may be installed.
RestartWorks ==
  status.kind = "ready" /\ checks = {} /\ downloads = {} =>
    IF status.channel = "beta" THEN betaUpdateReady /\ pending.bytes # None
    ELSE updateRef.bytes # None

\* ... which holds with the same exception.
ReadyCanBeInstalled == ~disturbed => RestartWorks
=============================================================================
