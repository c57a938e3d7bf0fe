------------------------------ MODULE PanelProofs ------------------------------
(***************************************************************************)
(* Proofs about three machines of the panel that share no variable: the    *)
(* in-app updater, the providers shown with the setup and the file they    *)
(* are recorded in, and the preferences.                                   *)
(*                                                                         *)
(* The updater, for every number of versions, switches and tasks.  What    *)
(* keeps the beta channel off the button is that every check and download  *)
(* of the current channel cycle that asks the beta channel was begun under *)
(* the setting that still holds; a switch starts a cycle no task belongs   *)
(* to.                                                                     *)
(***************************************************************************)
EXTENDS AppUpdate, ProviderSettings, Preferences, SequenceTheorems, FiniteSetTheorems,
        NaturalsInduction, WellFoundedInduction, TLAPS

Maybe == Versions \cup {None}

CheckRecord ==
  [id : Ids, cycle : 0 .. MaxCycle, resolved : BOOLEAN, stable : Answers, beta : Answers]

DownloadRecord ==
  [id : Ids, cycle : 0 .. MaxCycle, channel : Channels, version : Versions, of : Maybe,
   state : {"asked", "running", "finished", "done", "failed"}]

\* An Update object is known by the task that found it.
RefInv == updateRef.id = 0 => updateRef = NoUpdate

\* A choice is between two versions.
ChoiceInv ==
  status.kind = "choice" => status.stable \in Versions /\ status.beta \in Versions

ChecksInv ==
  \A c \in checks :
    /\ c.cycle <= channelCycle
    /\ c.cycle = channelCycle /\ c.beta # None => betaUpdatesEnabled

DownloadsInv ==
  \A d \in downloads :
    /\ d.cycle <= channelCycle
    /\ d.cycle = channelCycle /\ d.channel = "beta" => betaUpdatesEnabled

IInv == UpdateTypeOK /\ RefInv /\ ChoiceInv /\ ChecksInv /\ DownloadsInv /\ BetaNeedsOptIn

-----------------------------------------------------------------------------
LEMMA Constants ==
  MaxVersion \in Nat \ {0} /\ MaxCycle \in Nat /\ MaxTasks \in Nat \ {0}
  BY Zenon, UpdateAssumption DEF UpdateAssumption

StatusRecord == [kind : Kinds, channel : Channels, stable : Maybe, beta : Maybe]
UpdateRecord == [id : Ids \cup {0}, version : Maybe, bytes : Maybe]
FlightRecord == [checking : BOOLEAN, downloading : BOOLEAN, installing : BOOLEAN]
DownloadOf == [channel : Channels, version : Maybe]
PendingRecord == [version : Maybe, bytes : Maybe]

\* UpdateTypeOK in the names above.
TypeParts ==
  /\ published \in [Channels -> Maybe]
  /\ status \in StatusRecord
  /\ updateRef \in UpdateRecord
  /\ betaUpdateReady \in BOOLEAN
  /\ betaUpdatesEnabled \in BOOLEAN
  /\ channelCycle \in 0 .. MaxCycle
  /\ downloadingUpdate \in DownloadOf
  /\ inFlight \in FlightRecord
  /\ upToDateTimeout \in BOOLEAN
  /\ checks \subseteq CheckRecord
  /\ downloads \subseteq DownloadRecord
  /\ install \in DownloadOf
  /\ pending \in PendingRecord
  /\ disturbed \in BOOLEAN
  /\ installed \in [shown : Maybe, got : Maybe]

LEMMA TypeIsParts == UpdateTypeOK <=> TypeParts
BY Zenon DEF UpdateTypeOK, TypeParts, StatusRecord, UpdateRecord, FlightRecord, DownloadOf,
             PendingRecord, CheckRecord, DownloadRecord, Maybe

LEMMA TypeIsPartsNext == UpdateTypeOK' <=> TypeParts'
BY Zenon DEF UpdateTypeOK, TypeParts, StatusRecord, UpdateRecord, FlightRecord, DownloadOf,
             PendingRecord, CheckRecord, DownloadRecord, Maybe

LEMMA Values ==
  /\ None \in Maybe /\ Versions \subseteq Maybe
  /\ None \in Answers /\ Waiting \in Answers /\ Failed \in Answers /\ Maybe \subseteq Answers
  /\ None \notin Versions /\ Waiting \notin Versions /\ Failed \notin Versions
  /\ 0 \notin Ids /\ FALSE \in BOOLEAN /\ TRUE \in BOOLEAN
  /\ "stable" \in Channels /\ "beta" \in Channels
BY Constants DEF None, Maybe, Versions, Waiting, Failed, Answers, Ids, Channels

LEMMA StatusType ==
  /\ \A kind \in Kinds : Status(kind) \in StatusRecord
  /\ \A channel \in Channels, version \in Maybe : Ready(channel, version) \in StatusRecord
BY Values DEF Status, Ready, StatusRecord, Kinds, Channels

LEMMA EmptyType ==
  /\ NoUpdate \in UpdateRecord /\ NoDownload \in DownloadOf /\ NoInstall \in DownloadOf
  /\ NoPending \in PendingRecord /\ Free \in FlightRecord
BY Values DEF NoUpdate, UpdateRecord, NoDownload, NoInstall, DownloadOf, NoPending, PendingRecord,
              Free, FlightRecord

LEMMA InitIInv == UpdateInit => IInv
<1> SUFFICES ASSUME UpdateInit PROVE IInv
  OBVIOUS
<1>1. betaUpdatesEnabled \in BOOLEAN
  BY Zenon DEF UpdateInit
<1>2. betaUpdateReady \in BOOLEAN /\ upToDateTimeout \in BOOLEAN /\ disturbed \in BOOLEAN
  BY Zenon, Values DEF UpdateInit
<1>3. status \in StatusRecord
  BY StatusType DEF UpdateInit, Kinds
<1>4. /\ published \in [Channels -> Maybe]
      /\ updateRef \in UpdateRecord /\ downloadingUpdate \in DownloadOf
      /\ inFlight \in FlightRecord /\ install \in DownloadOf /\ pending \in PendingRecord
      /\ checks \subseteq CheckRecord /\ downloads \subseteq DownloadRecord
      /\ installed \in [shown : Maybe, got : Maybe]
  BY EmptyType, Values, Constants DEF UpdateInit, Maybe, Versions
<1>5. channelCycle \in 0 .. MaxCycle
  BY Constants DEF UpdateInit
<1>6. UpdateTypeOK
  BY <1>1, <1>2, <1>3, <1>4, <1>5, TypeIsParts, Zenon DEF TypeParts
<1>7. RefInv /\ ChoiceInv /\ ChecksInv /\ DownloadsInv /\ BetaNeedsOptIn
  BY DEF UpdateInit, RefInv, ChoiceInv, ChecksInv, DownloadsInv, BetaNeedsOptIn, Status, NoUpdate
<1> QED
  BY <1>6, <1>7 DEF IInv

-----------------------------------------------------------------------------
(* Checks.                                                                 *)

LEMMA FlightType ==
  ASSUME NEW f \in FlightRecord
  PROVE  /\ \A b \in BOOLEAN : [f EXCEPT !.checking = b] \in FlightRecord
         /\ \A b \in BOOLEAN : [f EXCEPT !.downloading = b] \in FlightRecord
         /\ \A b \in BOOLEAN : [f EXCEPT !.installing = b] \in FlightRecord
         /\ [f EXCEPT !.checking = FALSE, !.downloading = TRUE] \in FlightRecord
BY DEF FlightRecord

LEMMA CheckForUpdatesInv == IInv /\ checkForUpdates => IInv'
<1> SUFFICES ASSUME IInv, checkForUpdates PROVE IInv'
  OBVIOUS
<1>0. TypeParts
  BY TypeIsParts DEF IInv
<1>1. PICK id \in FreshIds :
        checks' = checks \cup
          {[id |-> id, cycle |-> channelCycle, resolved |-> FALSE, stable |-> Waiting,
            beta |-> IF betaUpdatesEnabled THEN Waiting ELSE None]}
  BY DEF checkForUpdates
<1> DEFINE c == [id |-> id, cycle |-> channelCycle, resolved |-> FALSE, stable |-> Waiting,
                 beta |-> IF betaUpdatesEnabled THEN Waiting ELSE None]
<1>2. c \in CheckRecord
  BY <1>0, Values DEF TypeParts, CheckRecord, FreshIds
<1>3. TypeParts'
  <2>1. status' \in StatusRecord
    BY StatusType DEF checkForUpdates, Kinds
  <2>2. inFlight' \in FlightRecord
    BY <1>0, FlightType, Values DEF checkForUpdates, TypeParts
  <2>3. checks' \subseteq CheckRecord
    BY <1>0, <1>1, <1>2 DEF TypeParts
  <2>4. upToDateTimeout' \in BOOLEAN
    BY Values, Zenon DEF checkForUpdates
  <2> QED
    BY <1>0, <2>1, <2>2, <2>3, <2>4, Zenon DEF TypeParts, checkForUpdates
<1>4. ChecksInv'
  <2> SUFFICES ASSUME NEW e \in checks'
               PROVE  /\ e.cycle <= channelCycle'
                      /\ e.cycle = channelCycle' /\ e.beta # None => betaUpdatesEnabled'
    BY DEF ChecksInv
  <2>1. channelCycle' = channelCycle /\ betaUpdatesEnabled' = betaUpdatesEnabled
    BY DEF checkForUpdates
  <2>2. CASE e \in checks
    BY <2>1, <2>2 DEF IInv, ChecksInv
  <2>3. CASE e = c
    <3>1. e.cycle = channelCycle /\ (e.beta # None => betaUpdatesEnabled)
      BY <2>3
    <3> QED
      BY <1>0, <2>1, <3>1, Constants DEF TypeParts
  <2> QED
    BY <1>1, <2>2, <2>3
<1>5. RefInv' /\ DownloadsInv' /\ ChoiceInv' /\ BetaNeedsOptIn'
  BY DEF IInv, checkForUpdates, RefInv, DownloadsInv, ChoiceInv, BetaNeedsOptIn, Status
<1> QED
  BY <1>3, <1>4, <1>5, TypeIsPartsNext DEF IInv

\* Answering a check leaves its identity and its cycle alone.
LEMMA AnswerInv ==
  ASSUME IInv, NEW c \in checks, NEW e \in CheckRecord,
         e.cycle = c.cycle, c.beta = None => e.beta = None,
         checks' \subseteq (checks \ {c}) \cup {e},
         UNCHANGED <<status, updateRef, betaUpdatesEnabled, channelCycle, downloads>>
  PROVE  ChecksInv' /\ RefInv' /\ ChoiceInv' /\ DownloadsInv' /\ BetaNeedsOptIn'
<1>1. ChecksInv'
  BY DEF IInv, ChecksInv
<1>2. RefInv' /\ ChoiceInv' /\ DownloadsInv' /\ BetaNeedsOptIn'
  BY DEF IInv, RefInv, DownloadsInv, ChoiceInv, BetaNeedsOptIn
<1> QED
  BY <1>1, <1>2

LEMMA StableAnswersInv == ASSUME IInv, NEW c \in checks, StableAnswers(c) PROVE IInv'
<1>0. TypeParts
  BY TypeIsParts DEF IInv
<1>1. PICK answer \in {published["stable"], Failed} :
        checks' = (checks \ {c}) \cup
          IF c.resolved /\ c.beta # Waiting THEN {} ELSE {[c EXCEPT !.stable = answer]}
  BY DEF StableAnswers
<1> DEFINE e == [c EXCEPT !.stable = answer]
<1>2. answer \in Answers
  BY <1>0, Values DEF TypeParts
<1>3. e \in CheckRecord /\ e.cycle = c.cycle /\ (c.beta = None => e.beta = None)
  BY <1>0, <1>2 DEF TypeParts, CheckRecord
<1>4. checks' \subseteq (checks \ {c}) \cup {e}
  BY <1>1
<1> HIDE DEF e
<1>5. TypeParts'
  <2>1. checks' \subseteq CheckRecord
    BY <1>0, <1>3, <1>4 DEF TypeParts
  <2> QED
    BY <1>0, <2>1, Zenon DEF TypeParts, StableAnswers
<1>6. UNCHANGED <<status, updateRef, betaUpdatesEnabled, channelCycle, downloads>>
  BY DEF StableAnswers
<1> QED
  BY <1>3, <1>4, <1>5, <1>6, AnswerInv, TypeIsPartsNext DEF IInv

LEMMA CheckBetaInv == ASSUME IInv, NEW c \in checks, check_beta_update(c) PROVE IInv'
<1>0. TypeParts
  BY TypeIsParts DEF IInv
<1>1. PICK answer \in {published["beta"], Failed} :
        /\ checks' = (checks \ {c}) \cup
             IF c.resolved /\ c.stable # Waiting THEN {} ELSE {[c EXCEPT !.beta = answer]}
        /\ pending' = IF answer = Failed THEN pending ELSE [version |-> answer, bytes |-> None]
        /\ disturbed' = (disturbed \/ (c.resolved /\ answer # Failed))
  BY Zenon DEF check_beta_update
<1> DEFINE e == [c EXCEPT !.beta = answer]
<1>2. answer \in Answers /\ (answer # Failed => answer \in Maybe)
  BY <1>0, Values DEF TypeParts
<1>3. e \in CheckRecord /\ e.cycle = c.cycle /\ (c.beta = None => e.beta = None)
  BY <1>0, <1>2, Values DEF TypeParts, CheckRecord, check_beta_update, Waiting, None
<1>4. checks' \subseteq (checks \ {c}) \cup {e}
  BY <1>1
<1> HIDE DEF e
<1>5. TypeParts'
  <2>1. checks' \subseteq CheckRecord
    BY <1>0, <1>3, <1>4 DEF TypeParts
  <2>2. pending' \in PendingRecord
    BY <1>0, <1>1, <1>2, Values DEF TypeParts, PendingRecord
  <2>3. disturbed' \in BOOLEAN
    BY <1>1, Zenon
  <2> QED
    BY <1>0, <2>1, <2>2, <2>3, Zenon DEF TypeParts, check_beta_update
<1>6. UNCHANGED <<status, updateRef, betaUpdatesEnabled, channelCycle, downloads>>
  BY DEF check_beta_update
<1> QED
  BY <1>3, <1>4, <1>5, <1>6, AnswerInv, TypeIsPartsNext DEF IInv

\* What every start of a download establishes.
LEMMA StartsInv ==
  ASSUME IInv, NEW channel \in Channels, NEW version \in Versions, NEW id \in Ids,
         Starts(channel, version, id), channel = "beta" => betaUpdatesEnabled,
         UNCHANGED <<betaUpdatesEnabled, channelCycle>>
  PROVE  /\ inFlight' \in FlightRecord /\ downloadingUpdate' \in DownloadOf
         /\ status' \in StatusRecord /\ downloads' \subseteq DownloadRecord
         /\ updateRef' \in UpdateRecord
         /\ RefInv' /\ ChoiceInv' /\ DownloadsInv' /\ BetaNeedsOptIn'
<1>0. TypeParts
  BY TypeIsParts DEF IInv
<1> DEFINE d == [id |-> id, cycle |-> channelCycle, channel |-> channel, version |-> version,
                 of |-> IF channel = "stable" THEN version ELSE None, state |-> "asked"]
<1>1. d \in DownloadRecord
  BY <1>0, Values DEF TypeParts, DownloadRecord
<1>2. downloads' = downloads \cup {d} /\ d.cycle = channelCycle /\ d.channel = channel
  BY DEF Starts
<1> HIDE DEF d
<1>3. inFlight' \in FlightRecord
  BY <1>0, FlightType DEF Starts, TypeParts
<1>4. downloadingUpdate' \in DownloadOf
  BY Values DEF Starts, DownloadOf
<1>5. status' = Status("downloading") /\ status' \in StatusRecord
  BY StatusType DEF Starts, Kinds
<1>6. downloads' \subseteq DownloadRecord
  BY <1>0, <1>1, <1>2 DEF TypeParts
<1>7. updateRef' \in UpdateRecord
  BY <1>0, Values DEF Starts, TypeParts, UpdateRecord
<1>8. RefInv'
  BY Values DEF IInv, RefInv, Starts
<1>9. ChoiceInv' /\ BetaNeedsOptIn'
  BY <1>5 DEF ChoiceInv, BetaNeedsOptIn, Status
<1>10. DownloadsInv'
  <2> SUFFICES ASSUME NEW e \in downloads'
               PROVE  /\ e.cycle <= channelCycle'
                      /\ e.cycle = channelCycle' /\ e.channel = "beta" => betaUpdatesEnabled'
    BY DEF DownloadsInv
  <2>1. CASE e \in downloads
    BY <2>1 DEF IInv, DownloadsInv
  <2>2. CASE e = d
    BY <1>0, <1>2, <2>2, Constants DEF TypeParts
  <2> QED
    BY <1>2, <2>1, <2>2
<1> QED
  BY <1>3, <1>4, <1>5, <1>6, <1>7, <1>8, <1>9, <1>10

LEMMA CheckResolvesInv == ASSUME IInv, NEW c \in checks, CheckResolves(c) PROVE IInv'
<1>0. TypeParts
  BY TypeIsParts DEF IInv
<1>1. checks' \subseteq CheckRecord /\ ChecksInv'
  <2> DEFINE e == [c EXCEPT !.resolved = TRUE]
  <2>1. c \in CheckRecord
    BY <1>0 DEF TypeParts
  <2>2. e \in CheckRecord /\ e.cycle = c.cycle /\ e.beta = c.beta
    BY <2>1 DEF CheckRecord
  <2>3. checks' \subseteq (checks \ {c}) \cup {e}
    BY DEF CheckResolves, Unheard
  <2>4. channelCycle' = channelCycle /\ betaUpdatesEnabled' = betaUpdatesEnabled
    BY DEF CheckResolves
  <2> HIDE DEF e
  <2>5. checks' \subseteq CheckRecord
    BY <1>0, <2>2, <2>3 DEF TypeParts
  <2>6. ChecksInv'
    BY <2>2, <2>3, <2>4 DEF IInv, ChecksInv
  <2> QED
    BY <2>5, <2>6
<1>2. UNCHANGED <<published, channelCycle, betaUpdatesEnabled, install, pending, installed,
                  disturbed>>
  BY DEF CheckResolves
<1>3. c.id \in Ids /\ c.id # 0
  BY <1>0, Values DEF TypeParts, CheckRecord
<1>4. c.cycle = channelCycle /\ c.beta \in Versions => betaUpdatesEnabled
  BY Values DEF IInv, ChecksInv
<1>5. [inFlight EXCEPT !.checking = FALSE] \in FlightRecord
  BY <1>0, FlightType, Values DEF TypeParts
<1> DEFINE Rest == /\ inFlight' \in FlightRecord /\ downloadingUpdate' \in DownloadOf
                   /\ status' \in StatusRecord /\ downloads' \subseteq DownloadRecord
                   /\ updateRef' \in UpdateRecord
                   /\ betaUpdateReady' \in BOOLEAN /\ upToDateTimeout' \in BOOLEAN
                   /\ RefInv' /\ ChoiceInv' /\ DownloadsInv' /\ BetaNeedsOptIn'
<1>6. SUFFICES Rest
  <2>1. Rest => TypeParts'
    BY <1>0, <1>1, <1>2, Zenon DEF TypeParts
  <2> QED
    BY <1>1, <2>1, TypeIsPartsNext DEF IInv
<1>7. CASE /\ c.cycle # channelCycle
           /\ inFlight' = [inFlight EXCEPT !.checking = FALSE]
           /\ UNCHANGED <<status, updateRef, betaUpdateReady, downloadingUpdate, upToDateTimeout,
                          downloads>>
  <2>1. RefInv' /\ ChoiceInv' /\ DownloadsInv' /\ BetaNeedsOptIn'
    BY <1>2, <1>7 DEF IInv, RefInv, ChoiceInv, DownloadsInv, BetaNeedsOptIn
  <2> QED
    BY <1>0, <1>5, <1>7, <2>1, Zenon DEF TypeParts
<1>8. CASE /\ inFlight' = [inFlight EXCEPT !.checking = FALSE]
           /\ status' = Status("error")
           /\ UNCHANGED <<updateRef, betaUpdateReady, downloadingUpdate, upToDateTimeout,
                          downloads>>
  <2>1. RefInv' /\ ChoiceInv' /\ DownloadsInv' /\ BetaNeedsOptIn'
    BY <1>2, <1>8 DEF IInv, RefInv, ChoiceInv, DownloadsInv, BetaNeedsOptIn, Status
  <2>2. status' \in StatusRecord
    BY <1>8, StatusType DEF Kinds
  <2> QED
    BY <1>0, <1>5, <1>8, <2>1, <2>2, Zenon DEF TypeParts
<1>9. CASE /\ c.cycle = channelCycle /\ c.stable \in Versions /\ c.beta \in Versions
           /\ inFlight' = [inFlight EXCEPT !.checking = FALSE]
           /\ updateRef' = [id |-> c.id, version |-> c.stable, bytes |-> None]
           /\ betaUpdateReady' = FALSE
           /\ status' = [Status("choice") EXCEPT !.stable = c.stable, !.beta = c.beta]
           /\ UNCHANGED <<downloadingUpdate, upToDateTimeout, downloads>>
  <2>1. status'.kind = "choice" /\ status'.stable = c.stable /\ status'.beta = c.beta
    BY <1>9 DEF Status
  <2>2. RefInv' /\ ChoiceInv' /\ DownloadsInv' /\ BetaNeedsOptIn'
    BY <1>2, <1>3, <1>4, <1>9, <2>1 DEF IInv, RefInv, ChoiceInv, DownloadsInv, BetaNeedsOptIn
  <2>3. status' \in StatusRecord
    BY <1>9, Values DEF Status, StatusRecord, Kinds
  <2>4. updateRef' \in UpdateRecord
    BY <1>3, <1>9, Values DEF UpdateRecord
  <2> QED
    BY <1>0, <1>5, <1>9, <2>2, <2>3, <2>4, Values, Zenon DEF TypeParts
<1>10. CASE /\ c.cycle = channelCycle /\ c.stable \in Versions /\ c.beta = None
            /\ Starts("stable", c.stable, c.id)
            /\ UNCHANGED <<betaUpdateReady, upToDateTimeout>>
  BY <1>0, <1>2, <1>3, <1>10, StartsInv, Values DEF TypeParts
<1>11. CASE /\ c.cycle = channelCycle /\ c.stable = None /\ c.beta \in Versions
            /\ Starts("beta", c.beta, c.id)
            /\ UNCHANGED <<betaUpdateReady, upToDateTimeout>>
  BY <1>0, <1>2, <1>3, <1>4, <1>11, StartsInv, Values DEF TypeParts
<1>12. CASE /\ inFlight' = [inFlight EXCEPT !.checking = FALSE]
            /\ betaUpdateReady' = IF betaUpdatesEnabled THEN FALSE ELSE betaUpdateReady
            /\ status' = Status("up-to-date")
            /\ upToDateTimeout' = TRUE
            /\ UNCHANGED <<updateRef, downloadingUpdate, downloads>>
  <2>1. RefInv' /\ ChoiceInv' /\ DownloadsInv' /\ BetaNeedsOptIn'
    BY <1>2, <1>12 DEF IInv, RefInv, ChoiceInv, DownloadsInv, BetaNeedsOptIn, Status
  <2>2. status' \in StatusRecord
    BY <1>12, StatusType DEF Kinds
  <2>3. betaUpdateReady' \in BOOLEAN /\ upToDateTimeout' \in BOOLEAN
    BY <1>0, <1>12, Zenon DEF TypeParts
  <2> QED
    BY <1>0, <1>5, <1>12, <2>1, <2>2, <2>3, Zenon DEF TypeParts
<1> QED
  BY <1>7, <1>8, <1>9, <1>10, <1>11, <1>12, Zenon DEF CheckResolves

LEMMA UpToDateResetInv == IInv /\ UpToDateReset => IInv'
<1> SUFFICES ASSUME IInv, UpToDateReset PROVE IInv'
  OBVIOUS
<1>0. TypeParts
  BY TypeIsParts DEF IInv
<1>1. status' \in StatusRecord /\ upToDateTimeout' \in BOOLEAN
  BY StatusType DEF UpToDateReset, Kinds
<1>2. TypeParts'
  BY <1>0, <1>1, Zenon DEF TypeParts, UpToDateReset
<1>3. RefInv' /\ ChoiceInv' /\ ChecksInv' /\ DownloadsInv' /\ BetaNeedsOptIn'
  BY DEF IInv, UpToDateReset, RefInv, ChoiceInv, ChecksInv, DownloadsInv, BetaNeedsOptIn, Status
<1> QED
  BY <1>2, <1>3, TypeIsPartsNext DEF IInv

LEMMA ChooseUpdateInv ==
  ASSUME IInv, NEW channel \in Channels, chooseUpdate(channel) PROVE IInv'
<1>0. TypeParts
  BY TypeIsParts DEF IInv
<1> DEFINE version == IF channel = "stable" THEN status.stable ELSE status.beta
<1>1. PICK id \in FreshIds :
        Starts(channel, version, IF channel = "stable" THEN updateRef.id ELSE id)
  BY DEF chooseUpdate
<1>2. version \in Versions
  BY DEF IInv, ChoiceInv, chooseUpdate
<1>3. (IF channel = "stable" THEN updateRef.id ELSE id) \in Ids
  BY <1>0 DEF IInv, RefInv, chooseUpdate, TypeParts, UpdateRecord, FreshIds
<1>4. channel = "beta" => betaUpdatesEnabled
  BY DEF IInv, BetaNeedsOptIn, chooseUpdate
<1>5. UNCHANGED <<published, betaUpdateReady, channelCycle, betaUpdatesEnabled, upToDateTimeout,
                  checks, install, pending, installed, disturbed>>
  BY DEF chooseUpdate
<1> HIDE DEF version
<1>6. /\ inFlight' \in FlightRecord /\ downloadingUpdate' \in DownloadOf
      /\ status' \in StatusRecord /\ downloads' \subseteq DownloadRecord
      /\ updateRef' \in UpdateRecord
      /\ RefInv' /\ ChoiceInv' /\ DownloadsInv' /\ BetaNeedsOptIn'
  BY <1>1, <1>2, <1>3, <1>4, <1>5, StartsInv
<1>7. TypeParts'
  BY <1>0, <1>5, <1>6, Zenon DEF TypeParts
<1>8. ChecksInv'
  BY <1>5 DEF IInv, ChecksInv
<1> QED
  BY <1>6, <1>7, <1>8, TypeIsPartsNext DEF IInv

-----------------------------------------------------------------------------
(* Downloads.                                                              *)

\* A download that goes on keeps its channel and its cycle.
LEMMA BecomesInv ==
  ASSUME IInv, NEW d \in downloads, NEW e \in DownloadRecord,
         e.cycle = d.cycle, e.channel = d.channel, Becomes(d, e),
         UNCHANGED <<betaUpdatesEnabled, channelCycle>>
  PROVE  downloads' \subseteq DownloadRecord /\ DownloadsInv'
<1>1. downloads \subseteq DownloadRecord
  BY TypeIsParts DEF IInv, TypeParts
<1>2. downloads' \subseteq DownloadRecord
  BY <1>1 DEF Becomes
<1>3. DownloadsInv'
  BY DEF IInv, DownloadsInv, Becomes
<1> QED
  BY <1>2, <1>3

LEMMA StateType ==
  ASSUME NEW d \in DownloadRecord,
         NEW x \in {"asked", "running", "finished", "done", "failed"}
  PROVE  /\ [d EXCEPT !.state = x] \in DownloadRecord
         /\ [d EXCEPT !.state = x].cycle = d.cycle
         /\ [d EXCEPT !.state = x].channel = d.channel
         /\ \A v \in Maybe :
              /\ [d EXCEPT !.state = x, !.of = v] \in DownloadRecord
              /\ [d EXCEPT !.state = x, !.of = v].cycle = d.cycle
              /\ [d EXCEPT !.state = x, !.of = v].channel = d.channel
BY DEF DownloadRecord

LEMMA DownloadBeginsInv == ASSUME IInv, NEW d \in downloads, DownloadBegins(d) PROVE IInv'
<1>0. TypeParts
  BY TypeIsParts DEF IInv
<1>1. d \in DownloadRecord
  BY <1>0 DEF TypeParts
<1>2. UNCHANGED <<betaUpdatesEnabled, channelCycle>>
  BY DEF DownloadBegins
<1>3. downloads' \subseteq DownloadRecord /\ DownloadsInv'
  <2>1. CASE Becomes(d, [d EXCEPT !.state = "failed"])
    <3>1. /\ [d EXCEPT !.state = "failed"] \in DownloadRecord
          /\ [d EXCEPT !.state = "failed"].cycle = d.cycle
          /\ [d EXCEPT !.state = "failed"].channel = d.channel
      BY <1>1, StateType
    <3> QED
      BY <1>2, <2>1, <3>1, BecomesInv
  <2>2. CASE Becomes(d, [d EXCEPT !.state = "running",
                                  !.of = IF d.channel = "beta" THEN pending.version ELSE @])
    <3> DEFINE v == IF d.channel = "beta" THEN pending.version ELSE d.of
               e == [d EXCEPT !.state = "running", !.of = v]
    <3>1. v \in Maybe
      BY <1>0, <1>1 DEF TypeParts, PendingRecord, DownloadRecord
    <3>2. Becomes(d, e)
      BY <2>2
    <3> HIDE DEF v
    <3>3. e \in DownloadRecord /\ e.cycle = d.cycle /\ e.channel = d.channel
      BY <1>1, <3>1, StateType
    <3> HIDE DEF e
    <3> QED
      BY <1>2, <3>2, <3>3, BecomesInv
  <2> QED
    BY <2>1, <2>2 DEF DownloadBegins
<1>4. TypeParts'
  BY <1>0, <1>3, Zenon DEF TypeParts, DownloadBegins
<1>5. RefInv' /\ ChoiceInv' /\ ChecksInv' /\ BetaNeedsOptIn'
  BY DEF IInv, DownloadBegins, RefInv, ChoiceInv, ChecksInv, BetaNeedsOptIn
<1> QED
  BY <1>3, <1>4, <1>5, TypeIsPartsNext DEF IInv

LEMMA ProgressInv == ASSUME IInv, NEW d \in downloads, Progress(d) PROVE IInv'
<1>0. TypeParts
  BY TypeIsParts DEF IInv
<1>1. status' = Status("downloading") /\ status' \in StatusRecord
  BY StatusType DEF Progress, Kinds
<1>2. TypeParts'
  BY <1>0, <1>1, Zenon DEF TypeParts, Progress
<1>3. RefInv' /\ ChoiceInv' /\ ChecksInv' /\ DownloadsInv' /\ BetaNeedsOptIn'
  BY <1>1 DEF IInv, Progress, RefInv, ChoiceInv, ChecksInv, DownloadsInv, BetaNeedsOptIn, Status
<1> QED
  BY <1>2, <1>3, TypeIsPartsNext DEF IInv

LEMMA FinishedInv == ASSUME IInv, NEW d \in downloads, Finished(d) PROVE IInv'
<1>0. TypeParts
  BY TypeIsParts DEF IInv
<1>1. d \in DownloadRecord /\ downloadingUpdate \in DownloadOf
  BY <1>0 DEF TypeParts
<1>2. UNCHANGED <<published, updateRef, betaUpdateReady, channelCycle, betaUpdatesEnabled,
                  downloadingUpdate, inFlight, upToDateTimeout, checks, install, pending,
                  installed, disturbed>>
  BY DEF Finished
<1>3. downloads' \subseteq DownloadRecord /\ DownloadsInv'
  <2>1. /\ [d EXCEPT !.state = "finished"] \in DownloadRecord
        /\ [d EXCEPT !.state = "finished"].cycle = d.cycle
        /\ [d EXCEPT !.state = "finished"].channel = d.channel
    BY <1>1, StateType
  <2> QED
    BY <1>2, <2>1, BecomesInv DEF Finished
<1>4. status' \in StatusRecord /\ ChoiceInv' /\ BetaNeedsOptIn'
  <2>1. CASE status' = status
    BY <1>0, <1>2, <2>1 DEF TypeParts, IInv, ChoiceInv, BetaNeedsOptIn
  <2>2. CASE status' = Ready("stable", d.version)
    <3>1. status' \in StatusRecord
      BY <1>1, <2>2, StatusType, Values DEF DownloadRecord
    <3> QED
      BY <2>2, <3>1 DEF Ready, Status, ChoiceInv, BetaNeedsOptIn
  <2>3. CASE betaUpdatesEnabled /\ status' = Ready(downloadingUpdate.channel,
                                                   downloadingUpdate.version)
    <3>1. status' \in StatusRecord
      BY <1>1, <2>3, StatusType DEF DownloadOf
    <3> QED
      BY <1>2, <2>3, <3>1 DEF Ready, Status, ChoiceInv, BetaNeedsOptIn
  <2> QED
    BY <2>1, <2>2, <2>3, Zenon DEF Finished, Heard
<1>5. TypeParts'
  BY <1>0, <1>2, <1>3, <1>4, Zenon DEF TypeParts
<1>6. RefInv' /\ ChecksInv'
  BY <1>2 DEF IInv, RefInv, ChecksInv
<1> QED
  BY <1>3, <1>4, <1>5, <1>6, TypeIsPartsNext DEF IInv

LEMMA DownloadEndsInv == ASSUME IInv, NEW d \in downloads, DownloadEnds(d) PROVE IInv'
<1>0. TypeParts
  BY TypeIsParts DEF IInv
<1>1. d \in DownloadRecord /\ d.of \in Maybe
  BY <1>0 DEF TypeParts, DownloadRecord
<1>2. UNCHANGED <<published, status, betaUpdateReady, channelCycle, betaUpdatesEnabled,
                  downloadingUpdate, inFlight, upToDateTimeout, checks, install, installed,
                  disturbed>>
  BY DEF DownloadEnds
<1>3. downloads' \subseteq DownloadRecord /\ DownloadsInv'
  <2>1. /\ [d EXCEPT !.state = "done"] \in DownloadRecord
        /\ [d EXCEPT !.state = "done"].cycle = d.cycle
        /\ [d EXCEPT !.state = "done"].channel = d.channel
    BY <1>1, StateType
  <2> QED
    BY <1>2, <2>1, BecomesInv DEF DownloadEnds
<1>4. pending' \in PendingRecord /\ updateRef' \in UpdateRecord
  BY <1>0, <1>1 DEF TypeParts, DownloadEnds, PendingRecord, UpdateRecord
<1>5. RefInv'
  <2>1. CASE updateRef' = updateRef
    BY <2>1 DEF IInv, RefInv
  <2>2. CASE updateRef.id = d.id /\ updateRef' = [updateRef EXCEPT !.bytes = d.of]
    <3>1. updateRef'.id = d.id /\ d.id # 0
      BY <1>0, <1>1, <2>2, Values DEF TypeParts, UpdateRecord, DownloadRecord
    <3> QED
      BY <3>1 DEF RefInv
  <2> QED
    BY <2>1, <2>2 DEF DownloadEnds
<1>6. TypeParts'
  BY <1>0, <1>2, <1>3, <1>4, Zenon DEF TypeParts
<1>7. ChoiceInv' /\ ChecksInv' /\ BetaNeedsOptIn'
  BY <1>2 DEF IInv, ChoiceInv, ChecksInv, BetaNeedsOptIn
<1> QED
  BY <1>3, <1>5, <1>6, <1>7, TypeIsPartsNext DEF IInv

LEMMA DownloadFailsInv == ASSUME IInv, NEW d \in downloads, DownloadFails(d) PROVE IInv'
<1>0. TypeParts
  BY TypeIsParts DEF IInv
<1>1. d \in DownloadRecord
  BY <1>0 DEF TypeParts
<1>2. UNCHANGED <<published, status, updateRef, betaUpdateReady, channelCycle,
                  betaUpdatesEnabled, downloadingUpdate, inFlight, upToDateTimeout, checks,
                  install, pending, installed, disturbed>>
  BY DEF DownloadFails
<1>3. downloads' \subseteq DownloadRecord /\ DownloadsInv'
  <2>1. /\ [d EXCEPT !.state = "failed"] \in DownloadRecord
        /\ [d EXCEPT !.state = "failed"].cycle = d.cycle
        /\ [d EXCEPT !.state = "failed"].channel = d.channel
    BY <1>1, StateType
  <2> QED
    BY <1>2, <2>1, BecomesInv DEF DownloadFails
<1>4. TypeParts'
  BY <1>0, <1>2, <1>3, Zenon DEF TypeParts
<1>5. RefInv' /\ ChoiceInv' /\ ChecksInv' /\ BetaNeedsOptIn'
  BY <1>2 DEF IInv, RefInv, ChoiceInv, ChecksInv, BetaNeedsOptIn
<1> QED
  BY <1>3, <1>4, <1>5, TypeIsPartsNext DEF IInv

LEMMA DownloadResolvesInv == ASSUME IInv, NEW d \in downloads, DownloadResolves(d) PROVE IInv'
<1>0. TypeParts
  BY TypeIsParts DEF IInv
<1>1. d \in DownloadRecord /\ d.channel \in Channels /\ d.version \in Maybe
  BY <1>0, Values DEF TypeParts, DownloadRecord
<1>2. UNCHANGED <<published, updateRef, channelCycle, betaUpdatesEnabled, upToDateTimeout,
                  checks, install, pending, installed, disturbed>>
  BY DEF DownloadResolves
<1>3. downloads' \subseteq DownloadRecord /\ DownloadsInv'
  BY <1>0, <1>2 DEF TypeParts, DownloadResolves, IInv, DownloadsInv
<1>4. inFlight' \in FlightRecord /\ downloadingUpdate' \in DownloadOf
  BY <1>0, FlightType, EmptyType, Values DEF TypeParts, DownloadResolves
<1>5. betaUpdateReady' \in BOOLEAN
  BY <1>0, Values, Zenon DEF TypeParts, DownloadResolves
<1>6. status' \in StatusRecord /\ ChoiceInv' /\ BetaNeedsOptIn'
  <2>1. CASE status' = status
    BY <1>0, <1>2, <2>1 DEF TypeParts, IInv, ChoiceInv, BetaNeedsOptIn
  <2>2. CASE d.cycle = channelCycle /\ status' = Ready(d.channel, d.version)
    <3>1. status' \in StatusRecord
      BY <1>1, <2>2, StatusType
    <3>2. status'.kind = "ready" /\ status'.channel = d.channel
      BY <2>2 DEF Ready, Status
    <3>3. d.channel = "beta" => betaUpdatesEnabled
      BY <2>2 DEF IInv, DownloadsInv
    <3> QED
      BY <1>2, <3>1, <3>2, <3>3 DEF ChoiceInv, BetaNeedsOptIn
  <2>3. CASE status' = Status("error")
    <3>1. status' \in StatusRecord
      BY <2>3, StatusType DEF Kinds
    <3> QED
      BY <2>3, <3>1 DEF Status, ChoiceInv, BetaNeedsOptIn
  <2> QED
    BY <2>1, <2>2, <2>3 DEF DownloadResolves
<1>7. TypeParts'
  BY <1>0, <1>2, <1>3, <1>4, <1>5, <1>6, Zenon DEF TypeParts
<1>8. RefInv' /\ ChecksInv'
  BY <1>2 DEF IInv, RefInv, ChecksInv
<1> QED
  BY <1>3, <1>6, <1>7, <1>8, TypeIsPartsNext DEF IInv

-----------------------------------------------------------------------------
(* Installing, switching, publishing.                                      *)

LEMMA TriggerInstallInv == IInv /\ triggerInstall => IInv'
<1> SUFFICES ASSUME IInv, triggerInstall PROVE IInv'
  OBVIOUS
<1>0. TypeParts
  BY TypeIsParts DEF IInv
<1>1. status' = Status("installing") /\ status' \in StatusRecord
  BY StatusType DEF triggerInstall, Kinds
<1>2. inFlight' \in FlightRecord
  BY <1>0, FlightType, Values DEF TypeParts, triggerInstall
<1>3. install' \in DownloadOf
  BY <1>0 DEF TypeParts, triggerInstall, Shown, StatusRecord, DownloadOf
<1>4. TypeParts'
  BY <1>0, <1>1, <1>2, <1>3, Zenon DEF TypeParts, triggerInstall
<1>5. RefInv' /\ ChoiceInv' /\ ChecksInv' /\ DownloadsInv' /\ BetaNeedsOptIn'
  BY <1>1 DEF IInv, triggerInstall, RefInv, ChoiceInv, ChecksInv, DownloadsInv, BetaNeedsOptIn,
              Status
<1> QED
  BY <1>4, <1>5, TypeIsPartsNext DEF IInv

LEMMA InstallEndsInv == IInv /\ InstallEnds => IInv'
<1> SUFFICES ASSUME IInv, InstallEnds PROVE IInv'
  OBVIOUS
<1>0. TypeParts
  BY TypeIsParts DEF IInv
<1>1. UNCHANGED <<published, updateRef, channelCycle, betaUpdatesEnabled, downloadingUpdate,
                  upToDateTimeout, checks, downloads, disturbed>>
  BY DEF InstallEnds
<1>2. /\ pending' \in PendingRecord /\ install' \in DownloadOf /\ inFlight' \in FlightRecord
  BY <1>0, EmptyType, FlightType, Values DEF TypeParts, InstallEnds
<1>3. installed' \in [shown : Maybe, got : Maybe]
  <2>1. install.version \in Maybe /\ Bytes(install.channel) \in Maybe
    BY <1>0 DEF TypeParts, Bytes, PendingRecord, UpdateRecord, DownloadOf
  <2>2. CASE installed' = [shown |-> install.version, got |-> Bytes(install.channel)]
    BY <2>1, <2>2
  <2>3. CASE installed' = installed
    BY <1>0, <2>3 DEF TypeParts
  <2> QED
    BY <2>2, <2>3, Zenon DEF InstallEnds
<1>4. betaUpdateReady' \in BOOLEAN
  BY <1>0, Values, Zenon DEF TypeParts, InstallEnds
<1>5. /\ status' \in StatusRecord
      /\ status' \in {Status("idle"), Status("error")}
  BY StatusType DEF InstallEnds, Kinds
<1>6. TypeParts'
  BY <1>0, <1>1, <1>2, <1>3, <1>4, <1>5, Zenon DEF TypeParts
<1>7. RefInv' /\ ChoiceInv' /\ ChecksInv' /\ DownloadsInv' /\ BetaNeedsOptIn'
  BY <1>1, <1>5 DEF IInv, RefInv, ChoiceInv, ChecksInv, DownloadsInv, BetaNeedsOptIn, Status
<1> QED
  BY <1>6, <1>7, TypeIsPartsNext DEF IInv

\* A new channel cycle is one that no check and no download belongs to.
LEMMA SetBetaUpdatesEnabledInv == IInv /\ SetBetaUpdatesEnabled => IInv'
<1> SUFFICES ASSUME IInv, SetBetaUpdatesEnabled PROVE IInv'
  OBVIOUS
<1>0. TypeParts
  BY TypeIsParts DEF IInv
<1>1. channelCycle' = channelCycle + 1 /\ channelCycle' \in 0 .. MaxCycle
  BY <1>0, Constants DEF TypeParts, SetBetaUpdatesEnabled
<1>2. betaUpdatesEnabled' \in BOOLEAN /\ disturbed' \in BOOLEAN
      /\ betaUpdateReady' \in BOOLEAN /\ upToDateTimeout' \in BOOLEAN
  BY Zenon, Values DEF SetBetaUpdatesEnabled
<1>3. status' = Status("idle") /\ status' \in StatusRecord
  BY StatusType DEF SetBetaUpdatesEnabled, Kinds
<1>4. updateRef' \in UpdateRecord /\ inFlight' \in FlightRecord
  BY EmptyType DEF SetBetaUpdatesEnabled
<1>5. UNCHANGED <<published, downloadingUpdate, checks, downloads, install, pending, installed>>
  BY DEF SetBetaUpdatesEnabled
<1>6. TypeParts'
  BY <1>0, <1>1, <1>2, <1>3, <1>4, <1>5, Zenon DEF TypeParts
<1>7. RefInv' /\ ChoiceInv' /\ BetaNeedsOptIn'
  BY <1>3 DEF SetBetaUpdatesEnabled, RefInv, ChoiceInv, BetaNeedsOptIn, Status
<1>8. ChecksInv'
  <2> SUFFICES ASSUME NEW c \in checks
               PROVE  c.cycle <= channelCycle' /\ c.cycle # channelCycle'
    BY <1>5 DEF ChecksInv
  <2>1. c.cycle <= channelCycle /\ c.cycle \in Int /\ channelCycle \in Int
    BY <1>0, Constants DEF IInv, ChecksInv, TypeParts, CheckRecord
  <2> QED
    BY <1>1, <2>1
<1>9. DownloadsInv'
  <2> SUFFICES ASSUME NEW d \in downloads
               PROVE  d.cycle <= channelCycle' /\ d.cycle # channelCycle'
    BY <1>5 DEF DownloadsInv
  <2>1. d.cycle <= channelCycle /\ d.cycle \in Int /\ channelCycle \in Int
    BY <1>0, Constants DEF IInv, DownloadsInv, TypeParts, DownloadRecord
  <2> QED
    BY <1>1, <2>1
<1> QED
  BY <1>6, <1>7, <1>8, <1>9, TypeIsPartsNext DEF IInv

LEMMA PublishInv == ASSUME IInv, NEW channel \in Channels, Publish(channel) PROVE IInv'
<1>0. TypeParts
  BY TypeIsParts DEF IInv
<1>1. published' \in [Channels -> Maybe]
  <2>1. published[channel] + 1 \in Maybe
    BY <1>0, Constants DEF TypeParts, Publish, Maybe, Versions, None
  <2> QED
    BY <1>0, <2>1 DEF TypeParts, Publish
<1>2. TypeParts'
  BY <1>0, <1>1, Zenon DEF TypeParts, Publish
<1>3. RefInv' /\ ChoiceInv' /\ ChecksInv' /\ DownloadsInv' /\ BetaNeedsOptIn'
  BY DEF IInv, Publish, RefInv, ChoiceInv, ChecksInv, DownloadsInv, BetaNeedsOptIn
<1> QED
  BY <1>2, <1>3, TypeIsPartsNext DEF IInv

LEMMA StutterInv == IInv /\ UNCHANGED updateVars => IInv'
<1> SUFFICES ASSUME IInv, UNCHANGED updateVars PROVE IInv'
  OBVIOUS
<1>1. TypeParts => TypeParts'
  BY Zenon DEF updateVars, TypeParts
<1>2. RefInv' /\ ChoiceInv' /\ ChecksInv' /\ DownloadsInv' /\ BetaNeedsOptIn'
  BY DEF updateVars, IInv, RefInv, ChoiceInv, ChecksInv, DownloadsInv, BetaNeedsOptIn
<1> QED
  BY <1>1, <1>2, TypeIsParts, TypeIsPartsNext DEF IInv

LEMMA NextInv == IInv /\ [UpdateNext]_updateVars => IInv'
<1> SUFFICES ASSUME IInv, [UpdateNext]_updateVars PROVE IInv'
  OBVIOUS
<1>1. ASSUME NEW c \in checks, StableAnswers(c) \/ check_beta_update(c) \/ CheckResolves(c)
      PROVE  IInv'
  BY <1>1, StableAnswersInv, CheckBetaInv, CheckResolvesInv
<1>2. ASSUME NEW d \in downloads,
             \/ DownloadBegins(d) \/ Finished(d) \/ DownloadEnds(d)
             \/ DownloadFails(d) \/ DownloadResolves(d) \/ Progress(d)
      PROVE  IInv'
  BY <1>2, DownloadBeginsInv, FinishedInv, DownloadEndsInv, DownloadFailsInv,
     DownloadResolvesInv, ProgressInv
<1>3. ASSUME NEW channel \in Channels, chooseUpdate(channel) \/ Publish(channel)
      PROVE  IInv'
  BY <1>3, ChooseUpdateInv, PublishInv
<1>4. CASE checkForUpdates \/ UpToDateReset \/ triggerInstall \/ InstallEnds
           \/ SetBetaUpdatesEnabled
  BY <1>4, CheckForUpdatesInv, UpToDateResetInv, TriggerInstallInv, InstallEndsInv,
     SetBetaUpdatesEnabledInv
<1>5. CASE UNCHANGED updateVars
  BY <1>5, StutterInv
<1> QED
  BY <1>1, <1>2, <1>3, <1>4, <1>5 DEF UpdateNext, Check, Download

-----------------------------------------------------------------------------
\* The state of the updater is well typed.
THEOREM UpdateTypeCorrect == UpdateSpec => []UpdateTypeOK
<1>1. IInv => UpdateTypeOK
  BY DEF IInv
<1> QED
  BY InitIInv, NextInv, <1>1, PTL DEF UpdateSpec

\* However many checks and downloads overlap, fail or end late, and however
\* often beta updates are switched on and off, the button offers nothing of
\* the beta channel while they are off.
THEOREM OptInRespected == UpdateSpec => []BetaNeedsOptIn
<1>1. IInv => BetaNeedsOptIn
  BY DEF IInv
<1> QED
  BY InitIInv, NextInv, <1>1, PTL DEF UpdateSpec

-----------------------------------------------------------------------------
(* Undisturbed.  As long as beta updates are switched only while nothing is*)
(* under way, and no failed check leaves a call that still finds something,*)
(* every task is of the current cycle, the kind of the status tells which  *)
(* task is under way, and what the status shows is what the slots hold.    *)

\* The checks whose continuation is still to come.
Open == {c \in checks : c.resolved = FALSE}

CyclesInv ==
  /\ \A c \in checks : c.cycle = channelCycle
  /\ \A d \in downloads : d.cycle = channelCycle

AloneInv ==
  /\ \A c, e \in Open : c = e
  /\ \A d, e \in downloads : d = e

FlagsInv ==
  /\ Open # {} => inFlight.checking
  /\ downloads # {} => inFlight.downloading
  /\ install # NoInstall => inFlight.installing

KindInv ==
  /\ Open # {} => status.kind = "checking"
  /\ downloads # {} => status.kind \in {"downloading", "ready"}
  /\ install # NoInstall => status.kind = "installing"
  /\ upToDateTimeout => status.kind = "up-to-date"

\* A beta version that was found is in the slot until it is downloaded.
FoundInv ==
  /\ \A c \in Open : c.beta \in Versions => pending.version = c.beta
  /\ status.kind = "choice" => pending.version = status.beta

StableDownload(d) ==
  /\ d.of = d.version /\ updateRef.id = d.id
  /\ d.state = "done" => updateRef.bytes = d.version

BetaDownload(d) ==
  /\ pending.version = d.version
  /\ d.state \in {"running", "finished", "done"} => d.of = d.version
  /\ d.state = "done" => pending.bytes = d.version

\* A download is of the version it is labelled with.
LabelInv ==
  \A d \in downloads :
    /\ downloadingUpdate = [channel |-> d.channel, version |-> d.version]
    /\ IF d.channel = "stable" THEN StableDownload(d) ELSE BetaDownload(d)

ReadyInv ==
  status.kind = "ready" /\ downloads = {} =>
    /\ Shown(status) # None /\ Bytes(status.channel) = Shown(status)
    /\ status.channel = "beta" => betaUpdateReady

InstallInv ==
  /\ install # NoInstall => Bytes(install.channel) = install.version
  /\ installed.shown = installed.got

CalmInv ==
  /\ CyclesInv /\ AloneInv /\ FlagsInv /\ KindInv
  /\ FoundInv /\ LabelInv /\ ReadyInv /\ InstallInv

UndisturbedInv == ~disturbed => CalmInv

LEMMA InitCalm == UpdateInit => CalmInv
BY DEF UpdateInit, CalmInv, Open, CyclesInv, AloneInv, FlagsInv, KindInv, FoundInv, LabelInv,
       ReadyInv, InstallInv, Status

\* What excludes what, by the kind of the status and by the flags.
LEMMA Exclusion ==
  ASSUME CalmInv
  PROVE  /\ Open # {} => downloads = {} /\ install = NoInstall /\ ~upToDateTimeout
         /\ downloads # {} => Open = {} /\ install = NoInstall /\ ~upToDateTimeout
         /\ install # NoInstall => Open = {} /\ downloads = {} /\ ~upToDateTimeout
         /\ status.kind \in {"choice", "ready"} =>
              Open = {} /\ install = NoInstall /\ ~upToDateTimeout
         /\ status.kind = "choice" => downloads = {}
         /\ ~Busy => Open = {} /\ downloads = {} /\ install = NoInstall
<1>1. /\ Open # {} => status.kind = "checking"
      /\ downloads # {} => status.kind \in {"downloading", "ready"}
      /\ install # NoInstall => status.kind = "installing"
      /\ upToDateTimeout => status.kind = "up-to-date"
  BY Zenon DEF CalmInv, KindInv
<1>2. ~Busy => Open = {} /\ downloads = {} /\ install = NoInstall
  BY Zenon DEF CalmInv, FlagsInv, Busy
<1> HIDE DEF Open, NoInstall
<1>3. Open # {} => downloads = {} /\ install = NoInstall /\ ~upToDateTimeout
  BY <1>1
<1>4. downloads # {} => Open = {} /\ install = NoInstall /\ ~upToDateTimeout
  BY <1>1
<1>5. install # NoInstall => Open = {} /\ downloads = {} /\ ~upToDateTimeout
  BY <1>1
<1>6. status.kind \in {"choice", "ready"} => Open = {} /\ install = NoInstall /\ ~upToDateTimeout
  BY <1>1
<1>7. status.kind = "choice" => downloads = {}
  BY <1>1
<1> QED
  BY <1>2, <1>3, <1>4, <1>5, <1>6, <1>7, Zenon

LEMMA CheckForUpdatesCalm == CalmInv /\ IInv /\ checkForUpdates => CalmInv'
<1> SUFFICES ASSUME CalmInv, IInv, checkForUpdates PROVE CalmInv'
  OBVIOUS
<1>1. Open = {} /\ downloads = {} /\ install = NoInstall
  BY Exclusion, Zenon DEF checkForUpdates
<1>2. PICK id \in FreshIds :
        checks' = checks \cup
          {[id |-> id, cycle |-> channelCycle, resolved |-> FALSE, stable |-> Waiting,
            beta |-> IF betaUpdatesEnabled THEN Waiting ELSE None]}
  BY DEF checkForUpdates
<1> DEFINE c == [id |-> id, cycle |-> channelCycle, resolved |-> FALSE, stable |-> Waiting,
                 beta |-> IF betaUpdatesEnabled THEN Waiting ELSE None]
<1>3. c.cycle = channelCycle /\ c.beta \notin Versions
  BY Values
<1>4. checks' = checks \cup {c}
  BY <1>2
<1> HIDE DEF c
<1>5. Open' \subseteq {c}
  BY <1>1, <1>4 DEF Open
<1>6. /\ status' = Status("checking") /\ downloads' = {} /\ install' = NoInstall
      /\ channelCycle' = channelCycle /\ pending' = pending /\ installed' = installed
  BY <1>1 DEF checkForUpdates
<1>7. status'.kind = "checking"
  BY <1>6 DEF Status
<1>8. inFlight'.checking
  <2>1. inFlight \in FlightRecord
    BY TypeIsParts DEF IInv, TypeParts
  <2> QED
    BY <2>1 DEF FlightRecord, checkForUpdates
<1>9. ~upToDateTimeout'
  BY DEF checkForUpdates
<1>10. CyclesInv' /\ AloneInv'
  BY <1>3, <1>4, <1>5, <1>6 DEF CalmInv, CyclesInv, AloneInv
<1>11. FlagsInv' /\ KindInv'
  BY <1>6, <1>7, <1>8, <1>9, Zenon DEF FlagsInv, KindInv, NoInstall
<1>12. FoundInv' /\ LabelInv' /\ ReadyInv' /\ InstallInv'
  BY <1>3, <1>5, <1>6, <1>7 DEF CalmInv, FoundInv, LabelInv, ReadyInv, InstallInv, NoInstall
<1> QED
  BY <1>10, <1>11, <1>12 DEF CalmInv

\* An answer leaves a check open or not as it was; what it says of the beta
\* channel is what the slot holds.
LEMMA AnswerCalm ==
  ASSUME CalmInv, NEW c \in checks, NEW e, e.cycle = c.cycle, e.resolved = c.resolved,
         checks' \subseteq (checks \ {c}) \cup {e},
         c \in Open /\ e.beta \in Versions => pending'.version = e.beta,
         \/ pending' = pending
         \/ c \in Open,
         UNCHANGED <<status, updateRef, betaUpdateReady, channelCycle, betaUpdatesEnabled,
                 downloadingUpdate, inFlight, upToDateTimeout, downloads, install, installed>>
  PROVE  CalmInv'
<1>1. \A x \in Open' : (x \in Open /\ x # c) \/ (x = e /\ c \in Open)
  BY DEF Open
<1>2. Open # {} => downloads = {} /\ install = NoInstall /\ status.kind = "checking"
  BY Exclusion, Zenon DEF CalmInv, KindInv
<1>3. Open' # {} => Open # {}
  BY <1>1
<1>4. CyclesInv' /\ AloneInv'
  BY <1>1 DEF CalmInv, CyclesInv, AloneInv
<1>5. FlagsInv' /\ KindInv'
  BY <1>3, Zenon DEF CalmInv, FlagsInv, KindInv, NoInstall
<1>6. FoundInv'
  BY <1>1, <1>2 DEF CalmInv, FoundInv, AloneInv
<1>7. LabelInv'
  BY <1>2 DEF CalmInv, LabelInv, StableDownload, BetaDownload
<1>8. ReadyInv' /\ InstallInv'
  BY <1>2 DEF CalmInv, ReadyInv, InstallInv, Shown, Bytes, NoInstall
<1> QED
  BY <1>4, <1>5, <1>6, <1>7, <1>8 DEF CalmInv

LEMMA StableAnswersCalm ==
  ASSUME CalmInv, IInv, NEW c \in checks, StableAnswers(c) PROVE CalmInv'
<1>1. PICK answer \in {published["stable"], Failed} :
        checks' = (checks \ {c}) \cup
          IF c.resolved /\ c.beta # Waiting THEN {} ELSE {[c EXCEPT !.stable = answer]}
  BY DEF StableAnswers
<1> DEFINE e == [c EXCEPT !.stable = answer]
<1>2. c \in CheckRecord
  BY TypeIsParts DEF IInv, TypeParts
<1>3. e.cycle = c.cycle /\ e.resolved = c.resolved /\ e.beta = c.beta
  BY <1>2 DEF CheckRecord
<1>4. checks' \subseteq (checks \ {c}) \cup {e}
  BY <1>1
<1> HIDE DEF e
<1>5. c \in Open /\ e.beta \in Versions => pending'.version = e.beta
  BY <1>3 DEF CalmInv, FoundInv, StableAnswers
<1>6. UNCHANGED <<status, updateRef, betaUpdateReady, channelCycle, betaUpdatesEnabled,
                  downloadingUpdate, inFlight, upToDateTimeout, downloads, install, installed,
                  pending>>
  BY DEF StableAnswers
<1> QED
  BY <1>3, <1>4, <1>5, <1>6, AnswerCalm

\* An answer to a check that was rejected does not count, unless it finds
\* something, which is a disturbance.
LEMMA CheckBetaCalm ==
  ASSUME CalmInv, IInv, NEW c \in checks, check_beta_update(c), ~disturbed' PROVE CalmInv'
<1>1. PICK answer \in {published["beta"], Failed} :
        /\ checks' = (checks \ {c}) \cup
             IF c.resolved /\ c.stable # Waiting THEN {} ELSE {[c EXCEPT !.beta = answer]}
        /\ pending' = IF answer = Failed THEN pending ELSE [version |-> answer, bytes |-> None]
        /\ disturbed' = (disturbed \/ (c.resolved /\ answer # Failed))
  BY Zenon DEF check_beta_update
<1> DEFINE e == [c EXCEPT !.beta = answer]
<1>2. c \in CheckRecord
  BY TypeIsParts DEF IInv, TypeParts
<1>3. e.cycle = c.cycle /\ e.resolved = c.resolved /\ e.beta = answer
  BY <1>2 DEF CheckRecord
<1>4. checks' \subseteq (checks \ {c}) \cup {e}
  BY <1>1
<1> HIDE DEF e
<1>5. e.beta \in Versions => pending'.version = e.beta
  BY <1>1, <1>3, Values
<1>6. pending' = pending \/ c \in Open
  <2>1. answer = Failed \/ ~c.resolved
    BY <1>1, Zenon
  <2>2. ~c.resolved => c \in Open
    BY <1>2 DEF CheckRecord, Open
  <2> QED
    BY <1>1, <2>1, <2>2
<1>7. UNCHANGED <<status, updateRef, betaUpdateReady, channelCycle, betaUpdatesEnabled,
                  downloadingUpdate, inFlight, upToDateTimeout, downloads, install, installed>>
  BY DEF check_beta_update
<1> QED
  BY <1>3, <1>4, <1>5, <1>6, <1>7, AnswerCalm

\* A download that starts when nothing else is under way.
LEMMA StartsCalm ==
  ASSUME CalmInv, IInv, NEW channel \in Channels, NEW version \in Versions, NEW id \in Ids,
         Starts(channel, version, id), channel = "beta" => pending.version = version,
         downloads = {}, install = NoInstall, Open' = {}, ~upToDateTimeout,
         \A c \in checks' : c.cycle = channelCycle,
         UNCHANGED <<betaUpdateReady, channelCycle, upToDateTimeout, install, pending, installed>>
  PROVE  CalmInv'
<1> DEFINE d == [id |-> id, cycle |-> channelCycle, channel |-> channel, version |-> version,
                 of |-> IF channel = "stable" THEN version ELSE None, state |-> "asked"]
<1>1. downloads' = {d}
  BY DEF Starts
<1>2. /\ d.id = id /\ d.cycle = channelCycle /\ d.channel = channel /\ d.version = version
      /\ d.of = (IF channel = "stable" THEN version ELSE None) /\ d.state = "asked"
  OBVIOUS
<1> HIDE DEF d
<1>3. status'.kind = "downloading"
  BY DEF Starts, Status
<1>4. inFlight'.downloading
  <2>1. inFlight \in FlightRecord
    BY TypeIsParts DEF IInv, TypeParts
  <2> QED
    BY <2>1 DEF FlightRecord, Starts
<1>5. CyclesInv' /\ AloneInv'
  BY <1>1, <1>2 DEF CyclesInv, AloneInv
<1>6. FlagsInv'
  BY <1>4, Zenon DEF FlagsInv, NoInstall
<1>7. KindInv'
  BY <1>3, Zenon DEF KindInv, NoInstall
<1>8. FoundInv' /\ ReadyInv' /\ InstallInv'
  BY <1>3 DEF CalmInv, FoundInv, ReadyInv, InstallInv, NoInstall
<1>9. LabelInv'
  BY <1>1, <1>2 DEF LabelInv, Starts, StableDownload, BetaDownload, Channels
<1> QED
  BY <1>5, <1>6, <1>7, <1>8, <1>9 DEF CalmInv

\* A check that ends without a download.
LEMMA EndsCalm ==
  ASSUME CalmInv, Open' = {}, downloads = {}, install = NoInstall,
         \A c \in checks' : c.cycle = channelCycle,
         status'.kind # "ready", status'.kind = "choice" => pending.version = status'.beta,
         upToDateTimeout' => status'.kind = "up-to-date",
         UNCHANGED <<channelCycle, downloads, install, pending, installed>>
  PROVE  CalmInv'
<1>1. CyclesInv' /\ AloneInv'
  BY DEF CyclesInv, AloneInv
<1>2. FlagsInv' /\ KindInv'
  BY Zenon DEF FlagsInv, KindInv, NoInstall
<1>3. FoundInv' /\ LabelInv' /\ ReadyInv' /\ InstallInv'
  BY DEF CalmInv, FoundInv, LabelInv, ReadyInv, InstallInv, NoInstall
<1> QED
  BY <1>1, <1>2, <1>3 DEF CalmInv

LEMMA CheckResolvesCalm ==
  ASSUME CalmInv, IInv, NEW c \in checks, CheckResolves(c) PROVE CalmInv'
<1>1. c \in CheckRecord
  BY TypeIsParts DEF IInv, TypeParts
<1>2. c \in Open
  BY <1>1 DEF CheckResolves, Settles, Open, CheckRecord
<1>3. downloads = {} /\ install = NoInstall /\ ~upToDateTimeout
  BY <1>2, Exclusion, Zenon
<1>4. c.cycle = channelCycle
  BY DEF CalmInv, CyclesInv
<1>5. Open' = {} /\ \A e \in checks' : e.cycle = channelCycle
  <2> DEFINE r == [c EXCEPT !.resolved = TRUE]
  <2>1. r.resolved = TRUE /\ r.cycle = c.cycle
    BY <1>1 DEF CheckRecord
  <2>2. checks' \subseteq (checks \ {c}) \cup {r}
    BY DEF CheckResolves, Unheard
  <2> HIDE DEF r
  <2> QED
    BY <1>2, <1>4, <2>1, <2>2 DEF CalmInv, CyclesInv, AloneInv, Open
<1>6. UNCHANGED <<channelCycle, install, pending, installed>>
  BY DEF CheckResolves
<1>7. c.beta \in Versions => pending.version = c.beta
  BY <1>2 DEF CalmInv, FoundInv
<1>8. c.id \in Ids
  BY <1>1 DEF CheckRecord
<1>9. CASE /\ status' = Status("error")
           /\ UNCHANGED <<updateRef, betaUpdateReady, downloadingUpdate, upToDateTimeout,
                          downloads>>
  <2>1. status'.kind = "error" /\ ~upToDateTimeout'
    BY <1>3, <1>9 DEF Status
  <2> QED
    BY <1>3, <1>5, <1>6, <1>9, <2>1, EndsCalm
<1>10. CASE /\ c.stable \in Versions /\ c.beta \in Versions
            /\ status' = [Status("choice") EXCEPT !.stable = c.stable, !.beta = c.beta]
            /\ UNCHANGED <<downloadingUpdate, upToDateTimeout, downloads>>
  <2>1. status'.kind = "choice" /\ status'.beta = c.beta /\ ~upToDateTimeout'
    BY <1>3, <1>10 DEF Status
  <2> QED
    BY <1>3, <1>5, <1>6, <1>7, <1>10, <2>1, EndsCalm
<1>11. CASE /\ c.stable \in Versions /\ Starts("stable", c.stable, c.id)
            /\ UNCHANGED <<betaUpdateReady, upToDateTimeout>>
  BY <1>3, <1>5, <1>6, <1>8, <1>11, StartsCalm, Values
<1>12. CASE /\ c.beta \in Versions /\ Starts("beta", c.beta, c.id)
            /\ UNCHANGED <<betaUpdateReady, upToDateTimeout>>
  BY <1>3, <1>5, <1>6, <1>7, <1>8, <1>12, StartsCalm, Values
<1>13. CASE /\ status' = Status("up-to-date")
            /\ UNCHANGED <<updateRef, downloadingUpdate, downloads>>
  <2>1. status'.kind = "up-to-date"
    BY <1>13 DEF Status
  <2> QED
    BY <1>3, <1>5, <1>6, <1>13, <2>1, EndsCalm
<1> QED
  BY <1>4, <1>9, <1>10, <1>11, <1>12, <1>13, Zenon DEF CheckResolves

LEMMA UpToDateResetCalm == CalmInv /\ IInv /\ UpToDateReset => CalmInv'
<1> SUFFICES ASSUME CalmInv, IInv, UpToDateReset PROVE CalmInv'
  OBVIOUS
<1>1. Open = {} /\ downloads = {} /\ install = NoInstall
  BY Exclusion, Zenon DEF UpToDateReset
<1>2. status'.kind = "idle" /\ ~upToDateTimeout'
  BY DEF UpToDateReset, Status
<1>3. UNCHANGED <<channelCycle, checks, downloads, install, pending, installed>>
  BY DEF UpToDateReset
<1>4. Open' = {} /\ \A c \in checks' : c.cycle = channelCycle
  BY <1>1, <1>3 DEF Open, CalmInv, CyclesInv
<1> QED
  BY <1>1, <1>2, <1>3, <1>4, EndsCalm

LEMMA ChooseUpdateCalm ==
  ASSUME CalmInv, IInv, NEW channel \in Channels, chooseUpdate(channel) PROVE CalmInv'
<1> DEFINE version == IF channel = "stable" THEN status.stable ELSE status.beta
<1>1. PICK id \in FreshIds :
        Starts(channel, version, IF channel = "stable" THEN updateRef.id ELSE id)
  BY DEF chooseUpdate
<1> DEFINE ref == IF channel = "stable" THEN updateRef.id ELSE id
<1>2. version \in Versions
  BY DEF IInv, ChoiceInv, chooseUpdate
<1>3. ref \in Ids
  BY TypeIsParts DEF IInv, RefInv, chooseUpdate, TypeParts, UpdateRecord, FreshIds
<1>4. Open = {} /\ downloads = {} /\ install = NoInstall /\ ~upToDateTimeout
  BY Exclusion DEF chooseUpdate
<1>5. UNCHANGED <<betaUpdateReady, channelCycle, upToDateTimeout, checks, install, pending,
                  installed>>
  BY DEF chooseUpdate
<1>6. Open' = {} /\ \A c \in checks' : c.cycle = channelCycle
  BY <1>4, <1>5 DEF Open, CalmInv, CyclesInv
<1>7. channel = "beta" => pending.version = version
  BY DEF CalmInv, FoundInv, chooseUpdate
<1>8. Starts(channel, version, ref)
  BY <1>1
<1> HIDE DEF version, ref
<1> QED
  BY <1>2, <1>3, <1>4, <1>5, <1>6, <1>7, <1>8, StartsCalm

\* A download that goes on keeps its label and its cycle; nothing else is under way.
LEMMA BecomesCalm ==
  ASSUME CalmInv, NEW d \in downloads, NEW e, e.cycle = d.cycle, e.channel = d.channel,
         e.version = d.version, Becomes(d, e),
         status'.kind \in {"downloading", "ready"},
         IF e.channel = "stable" THEN StableDownload(e)' ELSE BetaDownload(e)',
         UNCHANGED <<channelCycle, downloadingUpdate, inFlight, upToDateTimeout,
                     checks, install, installed>>
  PROVE  CalmInv'
<1>1. Open = {} /\ install = NoInstall /\ ~upToDateTimeout
  BY Exclusion
<1>2. downloads' = {e}
  BY DEF CalmInv, AloneInv, Becomes
<1>3. Open' = {}
  BY <1>1 DEF Open
<1>4. CyclesInv' /\ AloneInv'
  BY <1>2, <1>3 DEF CalmInv, CyclesInv, AloneInv
<1>5. FlagsInv'
  <2>1. downloads # {}
    OBVIOUS
  <2> QED
    BY <1>1, <1>3, <2>1, Zenon DEF CalmInv, FlagsInv, NoInstall
<1>6. KindInv'
  BY <1>1, <1>3, Zenon DEF KindInv, NoInstall
<1>7. FoundInv' /\ ReadyInv' /\ InstallInv'
  BY <1>1, <1>2, <1>3 DEF CalmInv, FoundInv, ReadyInv, InstallInv, NoInstall
<1>8. LabelInv'
  <2>1. downloadingUpdate' = [channel |-> e.channel, version |-> e.version]
    BY DEF CalmInv, LabelInv
  <2> QED
    BY <1>2, <2>1, Zenon DEF LabelInv
<1> QED
  BY <1>4, <1>5, <1>6, <1>7, <1>8 DEF CalmInv

LEMMA DownloadBeginsCalm ==
  ASSUME CalmInv, IInv, NEW d \in downloads, DownloadBegins(d) PROVE CalmInv'
<1>1. d \in DownloadRecord
  BY TypeIsParts DEF IInv, TypeParts
<1>2. IF d.channel = "stable" THEN StableDownload(d) ELSE BetaDownload(d)
  BY Zenon DEF CalmInv, LabelInv
<1>3. status'.kind \in {"downloading", "ready"}
  BY DEF CalmInv, KindInv, DownloadBegins
<1>4. UNCHANGED <<channelCycle, downloadingUpdate, inFlight, upToDateTimeout, checks, install,
                  installed, updateRef, pending>>
  BY DEF DownloadBegins
<1>5. CASE Becomes(d, [d EXCEPT !.state = "failed"])
  <2> DEFINE e == [d EXCEPT !.state = "failed"]
  <2>1. /\ e.cycle = d.cycle /\ e.channel = d.channel /\ e.version = d.version
        /\ e.of = d.of /\ e.id = d.id /\ e.state = "failed"
    BY <1>1 DEF DownloadRecord
  <2>2. Becomes(d, e)
    BY <1>5
  <2> HIDE DEF e
  <2>3. IF e.channel = "stable" THEN StableDownload(e)' ELSE BetaDownload(e)'
    BY <1>2, <1>4, <2>1 DEF StableDownload, BetaDownload
  <2> QED
    BY <1>3, <1>4, <2>1, <2>2, <2>3, BecomesCalm
<1>6. CASE Becomes(d, [d EXCEPT !.state = "running",
                                !.of = IF d.channel = "beta" THEN pending.version ELSE @])
  <2>2. (IF d.channel = "beta" THEN pending.version ELSE d.of) = d.version
    BY <1>1, <1>2 DEF StableDownload, BetaDownload, DownloadRecord, Channels
  <2> DEFINE e == [d EXCEPT !.state = "running", !.of = d.version]
  <2>1. Becomes(d, e)
    BY <1>6, <2>2
  <2>3. /\ e.cycle = d.cycle /\ e.channel = d.channel /\ e.version = d.version
        /\ e.of = d.version /\ e.id = d.id /\ e.state = "running"
    BY <1>1 DEF DownloadRecord
  <2> HIDE DEF e
  <2>4. IF e.channel = "stable" THEN StableDownload(e)' ELSE BetaDownload(e)'
    BY <1>2, <1>4, <2>3 DEF StableDownload, BetaDownload
  <2> QED
    BY <1>3, <1>4, <2>1, <2>3, <2>4, BecomesCalm
<1> QED
  BY <1>5, <1>6 DEF DownloadBegins

LEMMA ProgressCalm == ASSUME CalmInv, IInv, NEW d \in downloads, Progress(d) PROVE CalmInv'
<1>1. status'.kind = "downloading"
  BY DEF Progress, Status
<1>2. Open = {} /\ install = NoInstall /\ ~upToDateTimeout /\ downloads # {}
  BY Exclusion
<1>3. UNCHANGED <<published, updateRef, betaUpdateReady, channelCycle, betaUpdatesEnabled,
                 downloadingUpdate, inFlight, upToDateTimeout, checks, downloads, install,
                 pending, installed, disturbed>>
  BY DEF Progress
<1>4. Open' = {}
  BY <1>2, <1>3 DEF Open
<1>5. CyclesInv' /\ AloneInv'
  BY <1>3, <1>4 DEF CalmInv, CyclesInv, AloneInv
<1>6. FlagsInv' /\ KindInv'
  BY <1>1, <1>2, <1>3, <1>4, Zenon DEF CalmInv, FlagsInv, KindInv, NoInstall
<1>7. FoundInv' /\ LabelInv' /\ ReadyInv' /\ InstallInv'
  BY <1>1, <1>2, <1>3, <1>4 DEF CalmInv, FoundInv, LabelInv, ReadyInv, InstallInv, NoInstall,
     StableDownload, BetaDownload
<1> QED
  BY <1>5, <1>6, <1>7 DEF CalmInv

LEMMA FinishedCalm == ASSUME CalmInv, IInv, NEW d \in downloads, Finished(d) PROVE CalmInv'
<1>1. d \in DownloadRecord
  BY TypeIsParts DEF IInv, TypeParts
<1>2. IF d.channel = "stable" THEN StableDownload(d) ELSE BetaDownload(d)
  BY Zenon DEF CalmInv, LabelInv
<1>3. status'.kind \in {"downloading", "ready"}
  <2>1. status.kind \in {"downloading", "ready"}
    BY DEF CalmInv, KindInv
  <2>2. \A channel, version : Ready(channel, version).kind = "ready"
    BY DEF Ready, Status
  <2>3. status' = status \/ \E channel, version : status' = Ready(channel, version)
    BY Zenon DEF Finished
  <2> QED
    BY <2>1, <2>2, <2>3
<1>4. UNCHANGED <<channelCycle, downloadingUpdate, inFlight, upToDateTimeout, checks, install,
                  installed, updateRef, pending>>
  BY DEF Finished
<1> DEFINE e == [d EXCEPT !.state = "finished"]
<1>5. /\ e.cycle = d.cycle /\ e.channel = d.channel /\ e.version = d.version
      /\ e.of = d.of /\ e.id = d.id /\ e.state = "finished" /\ d.state = "running"
  BY <1>1 DEF DownloadRecord, Finished
<1>6. Becomes(d, e)
  BY DEF Finished
<1> HIDE DEF e
<1>7. IF e.channel = "stable" THEN StableDownload(e)' ELSE BetaDownload(e)'
  BY <1>2, <1>4, <1>5 DEF StableDownload, BetaDownload
<1> QED
  BY <1>3, <1>4, <1>5, <1>6, <1>7, BecomesCalm

LEMMA DownloadEndsCalm ==
  ASSUME CalmInv, IInv, NEW d \in downloads, DownloadEnds(d) PROVE CalmInv'
<1>1. /\ d \in DownloadRecord /\ updateRef \in UpdateRecord /\ pending \in PendingRecord
  BY TypeIsParts DEF IInv, TypeParts
<1>2. IF d.channel = "stable" THEN StableDownload(d) ELSE BetaDownload(d)
  BY Zenon DEF CalmInv, LabelInv
<1>3. status'.kind \in {"downloading", "ready"}
  BY DEF CalmInv, KindInv, DownloadEnds
<1>4. UNCHANGED <<channelCycle, downloadingUpdate, inFlight, upToDateTimeout, checks, install,
                  installed>>
  BY DEF DownloadEnds
<1> DEFINE e == [d EXCEPT !.state = "done"]
<1>5. /\ e.cycle = d.cycle /\ e.channel = d.channel /\ e.version = d.version
      /\ e.of = d.of /\ e.id = d.id /\ e.state = "done" /\ d.state = "finished"
  BY <1>1 DEF DownloadRecord, DownloadEnds
<1>6. Becomes(d, e)
  BY DEF DownloadEnds
<1> HIDE DEF e
<1>7. CASE d.channel = "stable"
  <2>1. updateRef' = [updateRef EXCEPT !.bytes = d.of]
    BY <1>2, <1>7 DEF DownloadEnds, StableDownload
  <2>2. updateRef'.id = d.id /\ updateRef'.bytes = d.version
    BY <1>1, <1>2, <1>7, <2>1 DEF StableDownload, UpdateRecord
  <2>3. StableDownload(e)'
    BY <1>2, <1>5, <1>7, <2>2 DEF StableDownload
  <2> QED
    BY <1>3, <1>4, <1>5, <1>6, <1>7, <2>3, BecomesCalm
<1>8. CASE d.channel # "stable"
  <2>1. d.channel = "beta" /\ d.version # None
    BY <1>1, <1>8, Values DEF DownloadRecord, Channels
  <2>2. pending' = [pending EXCEPT !.bytes = d.of]
    BY <1>2, <2>1 DEF DownloadEnds, BetaDownload, NoPending
  <2>3. pending'.version = d.version /\ pending'.bytes = d.version
    BY <1>1, <1>2, <1>5, <2>1, <2>2 DEF BetaDownload, PendingRecord
  <2>4. BetaDownload(e)'
    BY <1>2, <1>5, <2>1, <2>3 DEF BetaDownload
  <2> QED
    BY <1>3, <1>4, <1>5, <1>6, <1>8, <2>4, BecomesCalm
<1> QED
  BY <1>7, <1>8

LEMMA DownloadFailsCalm ==
  ASSUME CalmInv, IInv, NEW d \in downloads, DownloadFails(d) PROVE CalmInv'
<1>1. d \in DownloadRecord
  BY TypeIsParts DEF IInv, TypeParts
<1>2. IF d.channel = "stable" THEN StableDownload(d) ELSE BetaDownload(d)
  BY Zenon DEF CalmInv, LabelInv
<1>3. status'.kind \in {"downloading", "ready"}
  BY DEF CalmInv, KindInv, DownloadFails
<1>4. UNCHANGED <<channelCycle, downloadingUpdate, inFlight, upToDateTimeout, checks, install,
                  installed, updateRef, pending>>
  BY DEF DownloadFails
<1> DEFINE e == [d EXCEPT !.state = "failed"]
<1>5. /\ e.cycle = d.cycle /\ e.channel = d.channel /\ e.version = d.version
      /\ e.of = d.of /\ e.id = d.id /\ e.state = "failed"
  BY <1>1 DEF DownloadRecord
<1>6. Becomes(d, e)
  BY DEF DownloadFails
<1> HIDE DEF e
<1>7. IF e.channel = "stable" THEN StableDownload(e)' ELSE BetaDownload(e)'
  BY <1>2, <1>4, <1>5 DEF StableDownload, BetaDownload
<1> QED
  BY <1>3, <1>4, <1>5, <1>6, <1>7, BecomesCalm

\* What is offered after a download is what was downloaded.
LEMMA DownloadResolvesCalm ==
  ASSUME CalmInv, IInv, NEW d \in downloads, DownloadResolves(d) PROVE CalmInv'
<1>1. d \in DownloadRecord /\ d.version # None
  BY TypeIsParts, Values DEF IInv, TypeParts, DownloadRecord
<1>2. IF d.channel = "stable" THEN StableDownload(d) ELSE BetaDownload(d)
  BY Zenon DEF CalmInv, LabelInv
<1>3. UNCHANGED <<updateRef, channelCycle, upToDateTimeout, checks, install, pending, installed>>
  BY DEF DownloadResolves
<1>4. Open = {} /\ install = NoInstall /\ ~upToDateTimeout
  BY Exclusion
<1>5. downloads' = {}
  BY DEF CalmInv, AloneInv, DownloadResolves
<1>6. Open' = {}
  BY <1>3, <1>4 DEF Open
<1>7. d.cycle = channelCycle
  BY DEF CalmInv, CyclesInv
<1>8. CyclesInv' /\ AloneInv'
  BY <1>3, <1>5, <1>6 DEF CalmInv, CyclesInv, AloneInv
<1>9. FlagsInv' /\ KindInv'
  BY <1>3, <1>4, <1>5, <1>6, Zenon DEF FlagsInv, KindInv, NoInstall
<1>10. LabelInv' /\ InstallInv'
  BY <1>3, <1>4, <1>5 DEF CalmInv, LabelInv, InstallInv, NoInstall
<1>11. FoundInv' /\ ReadyInv'
  <2>1. CASE d.state = "failed"
    <3>1. status'.kind = "error"
      BY <1>7, <2>1 DEF DownloadResolves, Status
    <3> QED
      BY <1>6, <3>1 DEF FoundInv, ReadyInv
  <2>2. CASE d.state = "done"
    <3>1. status' = Ready(d.channel, d.version)
      BY <1>7, <2>2 DEF DownloadResolves
    <3>2. /\ status'.kind = "ready" /\ status'.channel = d.channel
          /\ Shown(status)' = d.version
      BY <1>1, <3>1 DEF Ready, Status, Shown, DownloadRecord, Channels
    <3>3. Bytes(status.channel)' = d.version
      BY <1>1, <1>2, <1>3, <2>2, <3>2 DEF Bytes, StableDownload, BetaDownload, DownloadRecord,
                                         Channels
    <3>4. d.channel = "beta" => betaUpdateReady'
      BY <1>7, <2>2, Zenon DEF DownloadResolves
    <3>5. FoundInv'
      BY <1>6, <3>2 DEF FoundInv
    <3>6. ReadyInv'
      BY <1>1, <3>2, <3>3, <3>4, Zenon DEF ReadyInv
    <3> QED
      BY <3>5, <3>6
  <2> QED
    BY <2>1, <2>2 DEF DownloadResolves
<1> QED
  BY <1>8, <1>9, <1>10, <1>11 DEF CalmInv

LEMMA TriggerInstallCalm == CalmInv /\ IInv /\ triggerInstall => CalmInv'
<1> SUFFICES ASSUME CalmInv, IInv, triggerInstall PROVE CalmInv'
  OBVIOUS
<1>1. Open = {} /\ ~upToDateTimeout
  BY Exclusion, Zenon DEF triggerInstall
<1>2. downloads = {}
  BY Zenon DEF triggerInstall, CalmInv, FlagsInv
<1>3. status'.kind = "installing"
  BY DEF triggerInstall, Status
<1>4. UNCHANGED <<published, updateRef, betaUpdateReady, channelCycle, betaUpdatesEnabled,
                 downloadingUpdate, upToDateTimeout, checks, downloads, pending, installed, disturbed>>
  BY DEF triggerInstall
<1>5. inFlight'.installing
  <2>1. inFlight \in FlightRecord
    BY TypeIsParts DEF IInv, TypeParts
  <2> QED
    BY <2>1 DEF FlightRecord, triggerInstall
<1>6. Open' = {} /\ downloads' = {}
  BY <1>1, <1>2, <1>4 DEF Open
<1>7. CyclesInv' /\ AloneInv'
  BY <1>4, <1>6 DEF CalmInv, CyclesInv, AloneInv
<1>8. FlagsInv' /\ KindInv'
  BY <1>1, <1>3, <1>4, <1>5, <1>6, Zenon DEF FlagsInv, KindInv
<1>9. FoundInv' /\ LabelInv' /\ ReadyInv'
  BY <1>3, <1>6 DEF FoundInv, LabelInv, ReadyInv
<1>10. InstallInv'
  <2>1. Bytes(status.channel) = Shown(status)
    BY <1>2 DEF CalmInv, ReadyInv, triggerInstall
  <2>2. install' = [channel |-> status.channel, version |-> Shown(status)]
    BY DEF triggerInstall
  <2> QED
    BY <1>4, <2>1, <2>2 DEF CalmInv, InstallInv, Bytes
<1> QED
  BY <1>7, <1>8, <1>9, <1>10 DEF CalmInv

LEMMA InstallEndsCalm == CalmInv /\ IInv /\ InstallEnds => CalmInv'
<1> SUFFICES ASSUME CalmInv, IInv, InstallEnds PROVE CalmInv'
  OBVIOUS
<1>1. Open = {} /\ downloads = {} /\ ~upToDateTimeout
  BY Exclusion, Zenon DEF InstallEnds
<1>2. UNCHANGED <<channelCycle, upToDateTimeout, checks, downloads>>
  BY DEF InstallEnds
<1>3. status'.kind \in {"idle", "error"}
  <2>1. status' = Status("idle") \/ status' = Status("error")
    BY Zenon DEF InstallEnds
  <2> QED
    BY <2>1 DEF Status
<1>4. Open' = {} /\ downloads' = {} /\ install' = NoInstall
  BY <1>1, <1>2 DEF Open, InstallEnds
<1>5. CyclesInv' /\ AloneInv'
  BY <1>2, <1>4 DEF CalmInv, CyclesInv, AloneInv
<1>6. FlagsInv' /\ KindInv'
  BY <1>1, <1>2, <1>4, Zenon DEF FlagsInv, KindInv, NoInstall
<1>7. FoundInv' /\ LabelInv' /\ ReadyInv'
  BY <1>3, <1>4 DEF FoundInv, LabelInv, ReadyInv
<1>8. InstallInv'
  <2>1. \/ installed' = [shown |-> install.version, got |-> Bytes(install.channel)]
        \/ installed' = installed
    BY Zenon DEF InstallEnds
  <2>2. install # NoInstall
    BY Zenon DEF InstallEnds
  <2>3. installed'.shown = installed'.got
    BY <2>1, <2>2 DEF CalmInv, InstallInv
  <2> QED
    BY <1>4, <2>3, Zenon DEF InstallInv, NoInstall
<1> QED
  BY <1>5, <1>6, <1>7, <1>8 DEF CalmInv

\* A switch that disturbs nothing finds nothing under way.
LEMMA SetBetaUpdatesEnabledCalm ==
  CalmInv /\ IInv /\ SetBetaUpdatesEnabled /\ ~disturbed' => CalmInv'
<1> SUFFICES ASSUME CalmInv, IInv, SetBetaUpdatesEnabled, ~disturbed' PROVE CalmInv'
  OBVIOUS
<1>1. checks = {} /\ downloads = {} /\ install = NoInstall
  BY Zenon DEF SetBetaUpdatesEnabled
<1>2. UNCHANGED <<checks, downloads, install, pending, installed>>
  BY DEF SetBetaUpdatesEnabled
<1>3. checks' = {} /\ downloads' = {} /\ Open' = {} /\ install' = NoInstall
  BY <1>1, <1>2 DEF Open
<1>4. status'.kind = "idle" /\ ~upToDateTimeout'
  BY DEF SetBetaUpdatesEnabled, Status
<1>5. CyclesInv' /\ AloneInv'
  BY <1>3 DEF CyclesInv, AloneInv
<1>6. FlagsInv' /\ KindInv'
  BY <1>3, <1>4, Zenon DEF FlagsInv, KindInv, NoInstall
<1>7. FoundInv' /\ LabelInv' /\ ReadyInv' /\ InstallInv'
  BY <1>2, <1>3, <1>4 DEF CalmInv, FoundInv, LabelInv, ReadyInv, InstallInv, NoInstall
<1> QED
  BY <1>5, <1>6, <1>7 DEF CalmInv

LEMMA StutterCalm ==
  ASSUME CalmInv,
         UNCHANGED <<status, updateRef, betaUpdateReady, channelCycle, downloadingUpdate,
                     inFlight, upToDateTimeout, checks, downloads, install, pending, installed>>
  PROVE  CalmInv'
BY Zenon DEF CalmInv, CyclesInv, AloneInv, FlagsInv, KindInv, FoundInv, LabelInv, ReadyInv,
             InstallInv, Open, StableDownload, BetaDownload, Shown, Bytes, NoInstall

LEMMA NextUndisturbed ==
  IInv /\ UndisturbedInv /\ [UpdateNext]_updateVars => UndisturbedInv'
<1> SUFFICES ASSUME IInv, UndisturbedInv, [UpdateNext]_updateVars, ~disturbed' PROVE CalmInv'
  BY DEF UndisturbedInv
<1>1. disturbed => disturbed'
  BY Zenon DEF UpdateNext, updateVars, checkForUpdates, Check, StableAnswers, check_beta_update,
     CheckResolves, UpToDateReset, chooseUpdate, Publish, Download, DownloadBegins, Finished,
     DownloadEnds, DownloadFails, DownloadResolves, Progress, triggerInstall, InstallEnds,
     SetBetaUpdatesEnabled
<1>2. CalmInv
  BY <1>1, Zenon DEF UndisturbedInv
<1>3. ASSUME NEW c \in checks, StableAnswers(c) \/ check_beta_update(c) \/ CheckResolves(c)
      PROVE  CalmInv'
  BY <1>2, <1>3, StableAnswersCalm, CheckBetaCalm, CheckResolvesCalm
<1>4. ASSUME NEW d \in downloads,
             \/ DownloadBegins(d) \/ Finished(d) \/ DownloadEnds(d)
             \/ DownloadFails(d) \/ DownloadResolves(d) \/ Progress(d)
      PROVE  CalmInv'
  BY <1>2, <1>4, DownloadBeginsCalm, FinishedCalm, DownloadEndsCalm, DownloadFailsCalm,
     DownloadResolvesCalm, ProgressCalm
<1>5. ASSUME NEW channel \in Channels, chooseUpdate(channel) \/ Publish(channel)
      PROVE  CalmInv'
  <2>1. CASE chooseUpdate(channel)
    BY <1>2, <2>1, ChooseUpdateCalm
  <2>2. CASE Publish(channel)
    BY <1>2, <2>2, StutterCalm DEF Publish
  <2> QED
    BY <1>5, <2>1, <2>2
<1>6. CASE checkForUpdates \/ UpToDateReset \/ triggerInstall \/ InstallEnds
           \/ SetBetaUpdatesEnabled
  BY <1>2, <1>6, CheckForUpdatesCalm, UpToDateResetCalm, TriggerInstallCalm, InstallEndsCalm,
     SetBetaUpdatesEnabledCalm
<1>7. CASE UNCHANGED updateVars
  BY <1>2, <1>7, StutterCalm DEF updateVars
<1> QED
  BY <1>3, <1>4, <1>5, <1>6, <1>7 DEF UpdateNext, Check, Download

LEMMA UndisturbedUpdates == UpdateSpec => [](IInv /\ UndisturbedInv)
<1>1. UpdateInit => IInv /\ UndisturbedInv
  BY InitIInv, InitCalm DEF UndisturbedInv
<1> QED
  BY <1>1, NextInv, NextUndisturbed, PTL DEF UpdateSpec

\* One thing at a time: no check and no download of the current channel cycle
\* is ever under way without its flag, so none can be started beside it.
THEOREM OneTaskAtATime == UpdateSpec => []OneAtATime
<1>1. UndisturbedInv => OneAtATime
  <2> SUFFICES ASSUME CalmInv
               PROVE  /\ \A c \in checks : ~c.resolved => inFlight.checking
                      /\ \A d \in downloads : inFlight.downloading
    BY Zenon DEF UndisturbedInv, OneAtATime
  <2>1. ASSUME NEW c \in checks, ~c.resolved PROVE inFlight.checking
    BY <2>1 DEF CalmInv, FlagsInv, Open
  <2>2. ASSUME NEW d \in downloads PROVE inFlight.downloading
    BY <2>2 DEF CalmInv, FlagsInv
  <2> QED
    BY <2>1, <2>2
<1> QED
  BY UndisturbedUpdates, <1>1, PTL

\* However many versions are published between the steps, and whichever calls
\* fail, what is installed is the version the button showed.
THEOREM ShownIsInstalled == UpdateSpec => []InstallsWhatIsShown
<1>1. UndisturbedInv => InstallsWhatIsShown
  BY Zenon DEF UndisturbedInv, InstallsWhatIsShown, CalmInv, InstallInv
<1> QED
  BY UndisturbedUpdates, <1>1, PTL

\* Once nothing is under way, what the button offers to restart into has been
\* downloaded and may be installed.
THEOREM ReadyInstalls == UpdateSpec => []ReadyCanBeInstalled
<1>1. UndisturbedInv => ReadyCanBeInstalled
  <2> SUFFICES ASSUME CalmInv, status.kind = "ready", downloads = {}
               PROVE  IF status.channel = "beta" THEN betaUpdateReady /\ pending.bytes # None
                      ELSE updateRef.bytes # None
    BY Zenon DEF UndisturbedInv, ReadyCanBeInstalled, RestartWorks
  <2>1. /\ Shown(status) # None /\ Bytes(status.channel) = Shown(status)
        /\ status.channel = "beta" => betaUpdateReady
    BY Zenon DEF CalmInv, ReadyInv
  <2>2. IF status.channel = "beta" THEN pending.bytes # None ELSE updateRef.bytes # None
    BY <2>1 DEF Bytes
  <2> QED
    BY <2>1, <2>2, Zenon
<1> QED
  BY UndisturbedUpdates, <1>1, PTL

-----------------------------------------------------------------------------
(***************************************************************************)
(* The setup.                                                              *)
(***************************************************************************)

\* A setup that was completed is known to the marker while the application runs,
\* and to the marker or the flag of the file when it starts.
CompletedInv ==
    /\ completed => marker \/ (~Running /\ file.done)
    /\ completed => setup.at # "steps"

\* A step that neither completes nor resets the setup, nor opens its window.
LEMMA SetupFrame ==
    ASSUME CompletedInv, UNCHANGED <<marker, completed>>,
           Running \/ (UNCHANGED <<boot, file>>),
           setup'.at # "steps" \/ setup' = setup
    PROVE  CompletedInv'
<1>1. completed' => marker' \/ (~Running' /\ file'.done)
    BY Zenon DEF CompletedInv, Running
<1>2. completed' => setup'.at # "steps"
    BY Zenon DEF CompletedInv
<1> QED
    BY <1>1, <1>2, Zenon DEF CompletedInv

LEMMA SetupBegins == ASSUME CompletedInv, Launch PROVE CompletedInv'
<1>1. /\ ~Running /\ completed' = completed /\ marker' = (marker \/ file.done)
      /\ setup' = IF ShowsSetup THEN [NoSetup EXCEPT !.at = "steps"] ELSE NoSetup
    BY Zenon DEF Launch
<1>2. completed' => marker \/ file.done
    BY <1>1, Zenon DEF CompletedInv
<1>3. completed' => marker'
    BY <1>1, <1>2, Zenon
<1>4. completed' => setup' = NoSetup
    BY <1>1, <1>2, Zenon DEF ShowsSetup
<1>5. NoSetup.at # "steps"
    BY DEF NoSetup
<1> QED
    BY <1>3, <1>4, <1>5, Zenon DEF CompletedInv

LEMMA SetupKeeps == ASSUME CompletedInv, [ProviderNext]_providerVars PROVE CompletedInv'
<1>1. NoSetup.at = "closed" /\ \A at : [NoSetup EXCEPT !.at = at].at = at
    BY DEF NoSetup
<1> HIDE DEF NoSetup
<1>2. CASE Launch
    BY <1>2, SetupBegins
<1>3. CASE Save
    BY <1>3, SetupFrame DEF Save
<1>4. CASE Exit
    <2>1. Running /\ marker' = marker /\ completed' = completed /\ setup' = NoSetup
        BY <1>4, Zenon DEF Exit
    <2> QED
        BY <1>1, <2>1, SetupFrame
<1>5. CASE LoadPlugins \/ SaveNormalized \/ ShowSettings
    <2>1. Running /\ UNCHANGED <<marker, completed, setup>>
        BY <1>5 DEF LoadPlugins, SaveNormalized, ShowSettings, Running
    <2> QED
        BY <2>1, SetupFrame
<1>6. ASSUME \/ \E id \in Known : handleToggle(id)
             \/ \E ordered : handleReorder(ordered)
      PROVE  CompletedInv'
    <2>1. Running /\ UNCHANGED <<marker, completed, setup>>
        BY <1>6, Zenon DEF handleToggle, handleReorder, MayChange, Changed
    <2> QED
        BY <2>1, SetupFrame
<1>7. CASE PickProviders
    <2>1. UNCHANGED <<marker, completed, boot, file>>
        BY <1>7, Zenon DEF PickProviders
    <2>2. setup'.at # "steps"
        BY <1>1, <1>7 DEF PickProviders
    <2> QED
        BY <2>1, <2>2, SetupFrame
<1>8. CASE SaveSelection \/ SkipSetup
    <2>1. /\ UNCHANGED <<marker, completed, boot, file>>
          /\ setup' = [NoSetup EXCEPT !.at = "finishing"]
        BY <1>8, Zenon DEF SaveSelection, SkipSetup
    <2> QED
        BY <1>1, <2>1, SetupFrame
<1>9. CASE finish_onboarding
    <2>1. marker' = TRUE /\ setup' = NoSetup
        BY <1>9, Zenon DEF finish_onboarding
    <2>2. marker' /\ setup'.at # "steps"
        BY <1>1, <2>1, Zenon
    <2> QED
        BY <2>2, Zenon DEF CompletedInv
<1>10. CASE FinishFails
    <2>1. setup'.at # "steps"
        BY <1>1, <1>10 DEF FinishFails
    <2>2. CASE UNCHANGED <<file, marker, completed>>
        <3>1. UNCHANGED <<file, marker, completed, boot>>
            BY <1>10, <2>2, Zenon DEF FinishFails
        <3> QED
            BY <2>1, <3>1, SetupFrame
    <2>3. CASE marker' = TRUE
        <3>1. marker'
            BY <2>3, Zenon
        <3> QED
            BY <2>1, <3>1, Zenon DEF CompletedInv
    <2> QED
        BY <1>10, <2>2, <2>3, Zenon DEF FinishFails
<1>11. CASE ReadReload \/ ApplyReload
    <2>1. UNCHANGED <<marker, completed, boot, file, setup>>
        BY <1>11, Zenon DEF ReadReload, ApplyReload
    <2> QED
        BY <2>1, SetupFrame
<1>12. CASE reset_onboarding
    <2>1. completed' = FALSE
        BY <1>12, Zenon DEF reset_onboarding
    <2>2. ~completed'
        BY <2>1, Zenon
    <2> QED
        BY <2>2, Zenon DEF CompletedInv
<1>13. CASE ResetFails
    <2>1. UNCHANGED <<marker, completed, boot, file, setup>>
        BY <1>13, Zenon DEF ResetFails
    <2> QED
        BY <2>1, SetupFrame
<1>14. CASE UNCHANGED providerVars
    <2>1. UNCHANGED <<marker, completed, boot, file, setup>>
        BY <1>14, Zenon DEF providerVars
    <2> QED
        BY <2>1, SetupFrame
<1> QED
    BY <1>2, <1>3, <1>4, <1>5, <1>6, <1>7, <1>8, <1>9, <1>10, <1>11, <1>12, <1>13, <1>14, Zenon
       DEF ProviderNext

\* Once completed, the setup does not open again before it is reset: for any
\* files of earlier versions, any providers, any number of launches, and a crash
\* within any save, which leaves the file empty but not the marker.
THEOREM SetupStaysDone == ProviderSpec => []SetupIsNotRepeated
<1>1. ProviderInit => CompletedInv
    <2> SUFFICES ASSUME ProviderInit PROVE CompletedInv
        OBVIOUS
    <2>1. completed = file.done /\ ~Running /\ setup = NoSetup
        BY DEF ProviderInit, Running, Off
    <2>2. NoSetup.at # "steps"
        BY DEF NoSetup
    <2> QED
        BY <2>1, <2>2, Zenon DEF CompletedInv
<1>2. CompletedInv /\ [ProviderNext]_providerVars => CompletedInv'
    BY SetupKeeps
<1>3. CompletedInv => SetupIsNotRepeated
    BY Zenon DEF CompletedInv, SetupIsNotRepeated
<1> QED
    BY <1>1, <1>2, <1>3, PTL DEF ProviderSpec

-----------------------------------------------------------------------------
(***************************************************************************)
(* Loops.  The settings are normalized, and an order rearranged, by loops  *)
(* over a list.  A loop is a function of its rounds.  The library's        *)
(* induction takes a predicate, so the round reached is a member of a set  *)
(* here: a set of rounds that holds the first, and the next of each, holds *)
(* them all, for it could not miss a least one.                            *)
(***************************************************************************)
\* A set of numbers that is not empty has a least one.
LEMMA LeastNatural ==
  ASSUME NEW T \in SUBSET Nat, T # {}
  PROVE  \E x \in T : \A y \in T : x <= y
<1> DEFINE R == OpToRel(<, Nat)
<1>1. IsWellFoundedOn(R, Nat)
  BY NatLessThanWellFounded
<1>2. PICK x \in T : \A y \in T : <<y, x>> \notin R
  BY <1>1, WFMin
<1>3. ASSUME NEW y \in T PROVE x <= y
  <2>1. x \in Nat /\ y \in Nat /\ <<y, x>> \in Nat \X Nat
    OBVIOUS
  <2>2. <<y, x>> \notin {ss \in Nat \X Nat : ss[1] < ss[2]}
    BY <1>2 DEF OpToRel
  <2> QED
    BY <2>1, <2>2
<1> QED
  BY <1>3

\* Induction over the rounds 0 .. N, for the set P of those that are as they
\* should be.
LEMMA EveryRound ==
  ASSUME NEW N \in Nat, NEW P, 0 \in P, \A n \in 1 .. N : n - 1 \in P => n \in P
  PROVE  \A n \in 0 .. N : n \in P
<1> DEFINE T == {n \in 0 .. N : n \notin P}
<1> SUFFICES ASSUME T # {} PROVE FALSE
  OBVIOUS
<1>1. T \in SUBSET Nat
  OBVIOUS
<1>2. PICK x \in T : \A y \in T : x <= y
  <2> HIDE DEF T
  <2> QED
    BY <1>1, LeastNatural
<1>3. x \in 1 .. N /\ x - 1 \in 0 .. N /\ ~(x <= x - 1)
  OBVIOUS
<1> QED
  BY <1>2, <1>3

\* The rounds of a loop that starts with base and takes step.
Rounds(f, N, S, base, step) ==
  f \in [0 .. N -> S] /\ f[0] = base /\ \A n \in 1 .. N : f[n] = step[<<n, f[n - 1]>>]

Loops(N, S, base, step) == \E f : Rounds(f, N, S, base, step)

\* A loop runs: some function has its rounds.
LEMMA Recursion ==
  ASSUME NEW N \in Nat, NEW S, NEW base \in S, NEW step \in [(1 .. N) \X S -> S]
  PROVE  Loops(N, S, base, step)
<1> DEFINE Upto(m, f) == f[0] = base /\ \A n \in 1 .. N : n <= m => f[n] = step[<<n, f[n - 1]>>]
           P == {m \in 0 .. N : \E f \in [0 .. N -> S] : Upto(m, f)}
<1>1. 0 \in P
  <2> DEFINE f == [n \in 0 .. N |-> base]
  <2>1. f \in [0 .. N -> S] /\ Upto(0, f)
    OBVIOUS
  <2> HIDE DEF f, Upto
  <2> QED
    BY <2>1
<1>2. ASSUME NEW m \in 1 .. N, m - 1 \in P PROVE m \in P
  <2>1. PICK f \in [0 .. N -> S] : Upto(m - 1, f)
    BY <1>2
  <2> DEFINE v == step[<<m, f[m - 1]>>]
             g == [f EXCEPT ![m] = v]
  <2>2. g \in [0 .. N -> S] /\ g[m] = v /\ \A n \in 0 .. N : n # m => g[n] = f[n]
    <3>1. v \in S
      OBVIOUS
    <3> HIDE DEF v
    <3> QED
      BY <3>1
  <2>3. g[0] = base
    BY <2>1, <2>2
  <2>4. ASSUME NEW n \in 1 .. N, n <= m PROVE g[n] = step[<<n, g[n - 1]>>]
    <3>1. n - 1 \in 0 .. N /\ n - 1 # m /\ g[n - 1] = f[n - 1]
      BY <2>2, <2>4
    <3>2. CASE n = m
      BY <2>2, <3>1, <3>2
    <3>3. CASE n # m
      <4>1. n <= m - 1 /\ g[n] = f[n]
        BY <2>2, <2>4, <3>3
      <4> QED
        BY <2>1, <3>1, <4>1
    <3> QED
      BY <3>2, <3>3
  <2>5. Upto(m, g)
    BY <2>3, <2>4
  <2> HIDE DEF g, Upto
  <2> QED
    BY <2>2, <2>5
<1>3. N \in P
  <2> HIDE DEF P
  <2> QED
    BY <1>1, <1>2, EveryRound
<1> QED
  BY <1>3 DEF Loops, Rounds

-----------------------------------------------------------------------------
\* What push does to what a list holds.
LEMMA AppendFacts ==
  ASSUME NEW T, NEW s \in Seq(T), NEW e \in T
  PROVE  /\ Append(s, e) \in Seq(T)
         /\ Range(Append(s, e)) = Range(s) \cup {e}
         /\ IsInjective(s) /\ e \notin Range(s) => IsInjective(Append(s, e))
<1> DEFINE t == Append(s, e)
           k == Len(s)
<1>1. /\ t \in Seq(T) /\ k \in Nat /\ DOMAIN s = 1 .. k /\ DOMAIN t = 1 .. k + 1
      /\ t[k + 1] = e /\ \A i \in 1 .. k : t[i] = s[i]
  OBVIOUS
<1> HIDE DEF t, k
<1>2. 1 .. k + 1 = (1 .. k) \cup {k + 1} /\ k + 1 \notin 1 .. k
  BY <1>1
<1>3. Range(t) = Range(s) \cup {e}
  <2>1. ASSUME NEW x \in Range(t) PROVE x \in Range(s) \cup {e}
    BY <1>1, <1>2 DEF Range
  <2>2. ASSUME NEW x \in Range(s) PROVE x \in Range(t)
    BY <1>1, <1>2 DEF Range
  <2>3. e \in Range(t)
    BY <1>1, <1>2 DEF Range
  <2> QED
    BY <2>1, <2>2, <2>3
<1>4. ASSUME IsInjective(s), e \notin Range(s) PROVE IsInjective(t)
  <2>1. ASSUME NEW i \in 1 .. k PROVE t[i] # e
    BY <1>1, <1>4 DEF Range
  <2>2. \A i, j \in 1 .. k : t[i] = t[j] => i = j
    BY <1>1, <1>4 DEF IsInjective
  <2>3. \A i, j \in DOMAIN t : i \in 1 .. k \/ i = k + 1
    BY <1>1, <1>2
  <2>4. \A i, j \in DOMAIN t : t[i] = t[j] => i = j
    BY <1>1, <2>1, <2>2, <2>3
  <2> QED
    BY <2>4 DEF IsInjective
<1> QED
  BY <1>1, <1>3, <1>4 DEF t

\* One round of the loop of Once.
Pushed(q, S, n, seen) == IF q[n] \in S \ Range(seen) THEN Append(seen, q[n]) ELSE seen

\* Once is what the last round of its loop leaves.
LEMMA OnceRounds ==
  ASSUME NEW T, NEW q \in Seq(T), NEW S
  PROVE  \E f : /\ Once(q, S) = f[Len(q)] /\ f[0] = <<>>
                /\ \A n \in 1 .. Len(q) : f[n] = Pushed(q, S, n, f[n - 1])
<1> DEFINE N == Len(q)
           X == Seq(T)
           step == [x \in (1 .. N) \X X |-> Pushed(q, S, x[1], x[2])]
           rec(f) == [n \in 0 .. N |-> IF n = 0 THEN <<>> ELSE Pushed(q, S, n, f[n - 1])]
           g == CHOOSE f : f = rec(f)
<1>1. N \in Nat /\ <<>> \in X
  OBVIOUS
<1>2. step \in [(1 .. N) \X X -> X]
  <2>1. ASSUME NEW n \in 1 .. N, NEW k \in X PROVE Pushed(q, S, n, k) \in X
    <3>1. q[n] \in T
      OBVIOUS
    <3>2. Append(k, q[n]) \in X
      BY <3>1, AppendFacts
    <3> QED
      BY <3>2 DEF Pushed
  <2> HIDE DEF X, N
  <2> QED
    BY <2>1
<1>3. PICK f \in [0 .. N -> X] : f[0] = <<>> /\ \A n \in 1 .. N : f[n] = step[<<n, f[n - 1]>>]
  <2> HIDE DEF N, X, step
  <2>1. Loops(N, X, <<>>, step)
    BY <1>1, <1>2, Recursion
  <2> QED
    BY <2>1 DEF Loops, Rounds
<1>4. \A n \in 1 .. N, k \in X : step[<<n, k>>] = Pushed(q, S, n, k)
  OBVIOUS
<1>5. f = rec(f)
  <2> HIDE DEF N, X, step
  <2>1. ASSUME NEW n \in 0 .. N PROVE f[n] = IF n = 0 THEN <<>> ELSE Pushed(q, S, n, f[n - 1])
    <3>1. CASE n # 0
      <4>1. n \in 1 .. N /\ n - 1 \in 0 .. N /\ f[n - 1] \in X
        BY <1>1, <3>1
      <4> QED
        BY <1>3, <1>4, <3>1, <4>1
    <3> QED
      BY <1>3, <3>1
  <2> QED
    BY <2>1
<1>6. g = rec(g)
  <2> HIDE DEF rec
  <2> QED
    BY <1>5
<1>7. Once(q, S) = g[N]
  BY DEF Once, Pushed
<1> HIDE DEF g
<1>8. g[0] = <<>> /\ \A n \in 1 .. N : g[n] = Pushed(q, S, n, g[n - 1])
  <2>1. \A n \in 0 .. N : rec(g)[n] = IF n = 0 THEN <<>> ELSE Pushed(q, S, n, g[n - 1])
    OBVIOUS
  <2> HIDE DEF rec, N
  <2> QED
    BY <1>1, <1>6, <2>1
<1> QED
  BY <1>7, <1>8

\* The ids of a list that a filter lets pass, each once.
LEMMA OnceFacts ==
  ASSUME NEW T, NEW q \in Seq(T), NEW S
  PROVE  /\ Once(q, S) \in Seq(T) /\ IsInjective(Once(q, S))
         /\ Range(Once(q, S)) = Range(q) \cap S
<1>1. PICK f : /\ Once(q, S) = f[Len(q)] /\ f[0] = <<>>
               /\ \A n \in 1 .. Len(q) : f[n] = Pushed(q, S, n, f[n - 1])
  BY OnceRounds
<1> DEFINE N == Len(q)
           Seen(n) == {q[i] : i \in 1 .. n}
           Good(n) == f[n] \in Seq(T) /\ IsInjective(f[n]) /\ Range(f[n]) = Seen(n) \cap S
           P == {n \in 0 .. N : Good(n)}
<1>0. N \in Nat /\ DOMAIN q = 1 .. N /\ \A n \in 1 .. N : q[n] \in T
  OBVIOUS
<1>2. 0 \in P
  <2>1. <<>> \in Seq(T) /\ IsInjective(<<>>) /\ Range(<<>>) = {}
    BY DEF IsInjective, Range
  <2>2. Seen(0) = {}
    OBVIOUS
  <2>3. Good(0)
    BY <1>1, <2>1, <2>2
  <2> HIDE DEF Good
  <2> QED
    BY <1>0, <2>3
<1>3. ASSUME NEW n \in 1 .. N, n - 1 \in P PROVE n \in P
  <2>1. /\ f[n - 1] \in Seq(T) /\ IsInjective(f[n - 1]) /\ Range(f[n - 1]) = Seen(n - 1) \cap S
    BY <1>3
  <2>2. Seen(n) = Seen(n - 1) \cup {q[n]}
    BY <1>0
  <2>3. f[n] = Pushed(q, S, n, f[n - 1])
    BY <1>1
  <2> HIDE DEF Seen
  <2>4. CASE q[n] \in S \ Range(f[n - 1])
    <3>1. f[n] = Append(f[n - 1], q[n])
      BY <2>3, <2>4 DEF Pushed
    <3>2. /\ f[n] \in Seq(T) /\ Range(f[n]) = Range(f[n - 1]) \cup {q[n]} /\ IsInjective(f[n])
      BY <1>0, <2>1, <2>4, <3>1, AppendFacts
    <3> QED
      BY <2>1, <2>2, <2>4, <3>2, <1>0
  <2>5. CASE q[n] \notin S \ Range(f[n - 1])
    <3>1. f[n] = f[n - 1]
      BY <2>3, <2>5 DEF Pushed
    <3> QED
      BY <2>1, <2>2, <2>5, <3>1, <1>0
  <2> QED
    BY <2>4, <2>5
<1>4. N \in P
  <2> HIDE DEF P, N
  <2> QED
    BY <1>0, <1>2, <1>3, EveryRound
<1>5. Seen(N) = Range(q)
  BY <1>0 DEF Range
<1> QED
  BY <1>1, <1>4, <1>5

-----------------------------------------------------------------------------
\* The places of two lists put together.
LEMMA ConcatFacts ==
  ASSUME NEW T, NEW s \in Seq(T), NEW u \in Seq(T)
  PROVE  /\ s \o u \in Seq(T) /\ Len(s \o u) = Len(s) + Len(u)
         /\ \A i \in 1 .. Len(s) : (s \o u)[i] = s[i]
         /\ \A i \in Len(s) + 1 .. Len(s) + Len(u) : (s \o u)[i] = u[i - Len(s)]
OBVIOUS

LEMMA OneFacts ==
  ASSUME NEW T, NEW e \in T
  PROVE  <<e>> \in Seq(T) /\ Len(<<e>>) = 1 /\ <<e>>[1] = e
<1>1. <<e>> \in Seq(T)
  OBVIOUS
<1>2. Len(<<e>>) = 1
  OBVIOUS
<1>3. <<e>>[1] = e
  OBVIOUS
<1> QED
  BY <1>1, <1>2, <1>3

\* What splice does to what a list holds.
LEMMA InsertFacts ==
  ASSUME NEW T, NEW s \in Seq(T), NEW p \in 1 .. Len(s) + 1, NEW e \in T
  PROVE  /\ InsertAt(s, p, e) \in Seq(T)
         /\ Range(InsertAt(s, p, e)) = Range(s) \cup {e}
         /\ IsInjective(s) /\ e \notin Range(s) => IsInjective(InsertAt(s, p, e))
<1> DEFINE t == InsertAt(s, p, e)
           k == Len(s)
<1>1. /\ t \in Seq(T) /\ k \in Nat /\ DOMAIN s = 1 .. k /\ DOMAIN t = 1 .. k + 1
      /\ t[p] = e /\ \A i \in 1 .. p - 1 : t[i] = s[i]
      /\ \A i \in p + 1 .. k + 1 : t[i] = s[i - 1]
  <2> DEFINE a == SubSeq(s, 1, p - 1)
             c == SubSeq(s, p, k)
  <2>1. /\ a \in Seq(T) /\ Len(a) = p - 1 /\ \A i \in 1 .. p - 1 : a[i] = s[i]
    OBVIOUS
  <2>2. /\ c \in Seq(T) /\ Len(c) = k + 1 - p
        /\ \A i \in 1 .. k + 1 - p : c[i] = s[p + i - 1]
    OBVIOUS
  <2> DEFINE u == <<e>>
             b == a \o u
             d == b \o c
  <2>9. u \in Seq(T) /\ Len(u) = 1 /\ u[1] = e
    BY OneFacts
  <2>10. k \in Nat /\ DOMAIN s = 1 .. k /\ p \in 1 .. k + 1 /\ p - 1 \in Nat
    OBVIOUS
  <2> HIDE DEF a, c, k, u, t
  <2>3. b \in Seq(T) /\ Len(b) = p /\ b[p] = e /\ \A i \in 1 .. p - 1 : b[i] = s[i]
    <3>1. /\ b \in Seq(T) /\ Len(b) = Len(a) + Len(u)
          /\ \A i \in 1 .. Len(a) : b[i] = a[i]
          /\ \A i \in Len(a) + 1 .. Len(a) + Len(u) : b[i] = u[i - Len(a)]
      BY <2>1, <2>9, ConcatFacts
    <3> HIDE DEF b
    <3>2. p \in Len(a) + 1 .. Len(a) + Len(u) /\ p - Len(a) = 1
      BY <2>1, <2>9, <2>10
    <3>3. b[p] = e
      BY <2>9, <3>1, <3>2
    <3> QED
      BY <2>1, <2>9, <2>10, <3>1, <3>3
  <2> HIDE DEF b
  <2>4. /\ d \in Seq(T) /\ Len(d) = Len(b) + Len(c)
        /\ \A i \in 1 .. Len(b) : d[i] = b[i]
        /\ \A i \in Len(b) + 1 .. Len(b) + Len(c) : d[i] = c[i - Len(b)]
    BY <2>2, <2>3, ConcatFacts
  <2> HIDE DEF d
  <2>5. Len(d) = k + 1 /\ \A i \in 1 .. p : d[i] = b[i]
    BY <2>2, <2>3, <2>4, <2>10
  <2>6. \A i \in p + 1 .. k + 1 : d[i] = c[i - p]
    BY <2>2, <2>3, <2>4, <2>10
  <2>7. \A i \in p + 1 .. k + 1 : i - p \in 1 .. k + 1 - p /\ p + (i - p) - 1 = i - 1
    BY <2>10
  <2>8. t = d
    BY DEF InsertAt, a, b, c, d, k, u, t
  <2>11. t[p] = e /\ \A i \in 1 .. p - 1 : t[i] = s[i]
    <3>1. p \in 1 .. p /\ \A i \in 1 .. p - 1 : i \in 1 .. p
      BY <2>10
    <3> QED
      BY <2>3, <2>5, <2>8, <3>1
  <2>12. \A i \in p + 1 .. k + 1 : t[i] = s[i - 1]
    BY <2>2, <2>6, <2>7, <2>8
  <2>13. t \in Seq(T) /\ DOMAIN t = 1 .. k + 1
    BY <2>4, <2>5, <2>8, <2>10
  <2> QED
    BY <2>10, <2>11, <2>12, <2>13
<1>2. /\ p \in 1 .. k + 1
      /\ \A i \in 1 .. k + 1 : i \in 1 .. p - 1 \/ i = p \/ i \in p + 1 .. k + 1
      /\ \A i \in 1 .. p - 1 : i \in 1 .. k /\ i \in 1 .. k + 1
      /\ \A i \in p + 1 .. k + 1 : i - 1 \in 1 .. k /\ i - 1 >= p
      /\ \A i \in 1 .. k : i \in 1 .. p - 1 \/ (i + 1 \in p + 1 .. k + 1 /\ i + 1 - 1 = i)
  OBVIOUS
<1> HIDE DEF t, k
<1>3. Range(t) = Range(s) \cup {e}
  <2>1. ASSUME NEW x \in Range(t) PROVE x \in Range(s) \cup {e}
    <3>1. PICK i \in 1 .. k + 1 : x = t[i]
      BY <1>1 DEF Range
    <3> QED
      BY <1>1, <1>2, <3>1 DEF Range
  <2>2. ASSUME NEW x \in Range(s) PROVE x \in Range(t)
    <3>1. PICK i \in 1 .. k : x = s[i]
      BY <1>1 DEF Range
    <3>2. \E j \in 1 .. k + 1 : t[j] = x
      <4>1. CASE i \in 1 .. p - 1
        BY <1>1, <1>2, <3>1, <4>1
      <4>2. CASE i + 1 \in p + 1 .. k + 1 /\ i + 1 - 1 = i
        <5>1. t[i + 1] = x /\ i + 1 \in 1 .. k + 1
          BY <1>1, <1>2, <3>1, <4>2
        <5> QED
          BY <5>1
      <4> QED
        BY <1>2, <4>1, <4>2
    <3> QED
      BY <1>1, <3>2 DEF Range
  <2>3. e \in Range(t)
    BY <1>1, <1>2 DEF Range
  <2> QED
    BY <2>1, <2>2, <2>3
<1>4. ASSUME IsInjective(s), e \notin Range(s) PROVE IsInjective(t)
  <2>1. \A i, j \in 1 .. k : s[i] = s[j] => i = j
    BY <1>1, <1>4 DEF IsInjective
  <2>2. \A i \in 1 .. k : s[i] # e
    BY <1>1, <1>4 DEF Range
  <2>3. ASSUME NEW i \in 1 .. k + 1, NEW j \in 1 .. k + 1, t[i] = t[j], i < j PROVE FALSE
    <3>1. CASE i = p
      BY <1>1, <1>2, <2>2, <2>3, <3>1
    <3>2. CASE j = p
      <4>1. i \in 1 .. p - 1
        BY <1>1, <1>2, <2>3, <3>2
      <4>2. t[i] = s[i] /\ i \in 1 .. k
        BY <1>1, <1>2, <4>1
      <4> QED
        BY <1>1, <2>2, <2>3, <3>2, <4>2
    <3>3. CASE i \in 1 .. p - 1 /\ j \in 1 .. p - 1
      BY <1>1, <1>2, <2>1, <2>3, <3>3
    <3>4. CASE i \in 1 .. p - 1 /\ j \in p + 1 .. k + 1
      <4>1. t[i] = s[i] /\ t[j] = s[j - 1] /\ i \in 1 .. k /\ j - 1 \in 1 .. k /\ i # j - 1
        BY <1>1, <1>2, <3>4
      <4> QED
        BY <2>1, <2>3, <4>1
    <3>5. CASE i \in p + 1 .. k + 1 /\ j \in p + 1 .. k + 1
      <4>1. t[i] = s[i - 1] /\ t[j] = s[j - 1] /\ i - 1 \in 1 .. k /\ j - 1 \in 1 .. k /\ i - 1 # j - 1
        BY <1>1, <1>2, <2>3, <3>5
      <4> QED
        BY <2>1, <2>3, <4>1
    <3> QED
      BY <1>1, <1>2, <2>3, <3>1, <3>2, <3>3, <3>4, <3>5
  <2>4. \A i, j \in 1 .. k + 1 : t[i] = t[j] => i = j
    <3>1. \A i, j \in 1 .. k + 1 : i < j \/ j < i \/ i = j
      BY <1>1
    <3> QED
      BY <2>3, <3>1
  <2> QED
    BY <1>1, <2>4 DEF IsInjective
<1> QED
  BY <1>1, <1>3, <1>4 DEF t

\* A set of places that is not empty has a last one.
LEMMA GreatestPlace ==
  ASSUME NEW k \in Nat, NEW T \in SUBSET (1 .. k), T # {}
  PROVE  \E x \in T : \A y \in T : y <= x
<1> DEFINE R == {n \in Nat : k - n \in T}
<1>1. R # {}
  <2>1. PICK x \in T : TRUE
    OBVIOUS
  <2>2. k - x \in Nat /\ k - (k - x) = x
    OBVIOUS
  <2>3. k - x \in R
    BY <2>2
  <2> QED
    BY <2>3
<1>2. PICK n \in R : \A m \in R : n <= m
  <2> HIDE DEF R
  <2>1. R \in SUBSET Nat
    BY DEF R
  <2> QED
    BY <1>1, <2>1, LeastNatural
<1>3. k - n \in T
  OBVIOUS
<1>4. ASSUME NEW y \in T PROVE y <= k - n
  <2>1. k - y \in Nat /\ k - (k - y) = y
    OBVIOUS
  <2>2. k - y \in R
    BY <2>1
  <2>3. n <= k - y
    BY <1>2, <2>2
  <2> QED
    BY <2>1, <2>3
<1> QED
  BY <1>3, <1>4

\* A hidden provider put back stands in the list once, wherever it goes.
LEMMA ReinsertFacts ==
  ASSUME NEW T, NEW order, NEW s \in Seq(T), NEW id \in T
  PROVE  /\ Reinsert(order, s, id) \in Seq(T)
         /\ Range(Reinsert(order, s, id)) = Range(s) \cup {id}
         /\ IsInjective(s) /\ id \notin Range(s) => IsInjective(Reinsert(order, s, id))
<1> DEFINE before(x) == \E i \in DOMAIN order :
                          order[i] = x /\ \A j \in DOMAIN order : order[j] = id => i < j
           places == {i \in DOMAIN s : before(s[i])}
           last == CHOOSE i \in places : \A j \in places : j <= i
           p == IF places = {} THEN 1 ELSE 1 + last
<1>1. Len(s) \in Nat /\ DOMAIN s = 1 .. Len(s)
  OBVIOUS
<1>2. p \in 1 .. Len(s) + 1
  <2>1. CASE places = {}
    <3>1. p = 1
      BY <2>1
    <3> HIDE DEF p
    <3> QED
      BY <1>1, <3>1
  <2>2. CASE places # {}
    <3>1. places \in SUBSET (1 .. Len(s))
      BY <1>1
    <3> HIDE DEF places
    <3>2. last \in places
      BY <1>1, <2>2, <3>1, GreatestPlace
    <3> HIDE DEF last
    <3> QED
      BY <1>1, <2>2, <3>1, <3>2
  <2> QED
    BY <2>1, <2>2
<1>3. Reinsert(order, s, id) = InsertAt(s, p, id)
  BY DEF Reinsert
<1> HIDE DEF p, last, places, before
<1>4. /\ InsertAt(s, p, id) \in Seq(T)
      /\ Range(InsertAt(s, p, id)) = Range(s) \cup {id}
      /\ IsInjective(s) /\ id \notin Range(s) => IsInjective(InsertAt(s, p, id))
  BY <1>2, InsertFacts
<1> QED
  BY <1>3, <1>4

\* One round of the loop of Merged.
Mixed(order, ordered, n, merged) ==
  IF order[n] \in Range(ordered) THEN merged ELSE Reinsert(order, merged, order[n])

LEMMA MixedFacts ==
  ASSUME NEW T, NEW order, NEW ordered, NEW n, NEW s \in Seq(T), order[n] \in T,
         order[n] \notin Range(ordered), NEW r, r = Mixed(order, ordered, n, s)
  PROVE  /\ r \in Seq(T) /\ Range(r) = Range(s) \cup {order[n]}
         /\ IsInjective(s) /\ order[n] \notin Range(s) => IsInjective(r)
<1> DEFINE x == order[n]
<1> HIDE DEF x
<1>1. r = Reinsert(order, s, x)
  BY DEF Mixed, x
<1>2. x \in T
  BY DEF x
<1>3. /\ Reinsert(order, s, x) \in Seq(T)
      /\ Range(Reinsert(order, s, x)) = Range(s) \cup {x}
      /\ IsInjective(s) /\ x \notin Range(s) => IsInjective(Reinsert(order, s, x))
  BY <1>2, ReinsertFacts
<1> QED
  BY <1>1, <1>3 DEF x

\* Merged is what the last round of its loop leaves.
LEMMA MergedRounds ==
  ASSUME NEW T, NEW order \in Seq(T), NEW ordered \in Seq(T)
  PROVE  \E f : /\ Merged(order, ordered) = f[Len(order)] /\ f[0] = ordered
                /\ \A n \in 1 .. Len(order) : f[n] = Mixed(order, ordered, n, f[n - 1])
<1> DEFINE N == Len(order)
           X == Seq(T)
           step == [x \in (1 .. N) \X X |-> Mixed(order, ordered, x[1], x[2])]
           rec(f) == [n \in 0 .. N |-> IF n = 0 THEN ordered ELSE Mixed(order, ordered, n, f[n - 1])]
           g == CHOOSE f : f = rec(f)
<1>1. N \in Nat /\ ordered \in X
  OBVIOUS
<1>2. step \in [(1 .. N) \X X -> X]
  <2>1. ASSUME NEW n \in 1 .. N, NEW k \in X PROVE Mixed(order, ordered, n, k) \in X
    <3>1. order[n] \in T
      OBVIOUS
    <3>2. Reinsert(order, k, order[n]) \in X
      BY <3>1, ReinsertFacts
    <3> QED
      BY <3>2 DEF Mixed
  <2> HIDE DEF X, N
  <2> QED
    BY <2>1
<1>3. PICK f \in [0 .. N -> X] : f[0] = ordered /\ \A n \in 1 .. N : f[n] = step[<<n, f[n - 1]>>]
  <2> HIDE DEF N, X, step
  <2>1. Loops(N, X, ordered, step)
    BY <1>1, <1>2, Recursion
  <2> QED
    BY <2>1 DEF Loops, Rounds
<1>4. \A n \in 1 .. N, k \in X : step[<<n, k>>] = Mixed(order, ordered, n, k)
  OBVIOUS
<1>5. f = rec(f)
  <2> HIDE DEF N, X, step
  <2>1. ASSUME NEW n \in 0 .. N
        PROVE  f[n] = IF n = 0 THEN ordered ELSE Mixed(order, ordered, n, f[n - 1])
    <3>1. CASE n # 0
      <4>1. n \in 1 .. N /\ n - 1 \in 0 .. N /\ f[n - 1] \in X
        BY <1>1, <3>1
      <4> QED
        BY <1>3, <1>4, <3>1, <4>1
    <3> QED
      BY <1>3, <3>1
  <2> QED
    BY <2>1
<1>6. g = rec(g)
  <2> HIDE DEF rec
  <2> QED
    BY <1>5
<1>7. Merged(order, ordered) = g[N]
  BY DEF Merged, Mixed
<1> HIDE DEF g
<1>8. g[0] = ordered /\ \A n \in 1 .. N : g[n] = Mixed(order, ordered, n, g[n - 1])
  <2>1. \A n \in 0 .. N : rec(g)[n] = IF n = 0 THEN ordered ELSE Mixed(order, ordered, n, g[n - 1])
    OBVIOUS
  <2> HIDE DEF rec, N
  <2> QED
    BY <1>1, <1>6, <2>1
<1> QED
  BY <1>7, <1>8

\* A rearrangement loses no provider, whichever of them the panel showed, and
\* doubles none.
LEMMA MergedFacts ==
  ASSUME NEW T, NEW order \in Seq(T), NEW ordered \in Seq(T)
  PROVE  /\ Merged(order, ordered) \in Seq(T)
         /\ Range(Merged(order, ordered)) = Range(ordered) \cup Range(order)
         /\ IsInjective(order) /\ IsInjective(ordered) => IsInjective(Merged(order, ordered))
<1>1. PICK f : /\ Merged(order, ordered) = f[Len(order)] /\ f[0] = ordered
               /\ \A n \in 1 .. Len(order) : f[n] = Mixed(order, ordered, n, f[n - 1])
  BY MergedRounds
<1> DEFINE N == Len(order)
           Seen(n) == {order[i] : i \in 1 .. n}
           Once1 == IsInjective(order) /\ IsInjective(ordered)
           Good(n) == /\ f[n] \in Seq(T) /\ Range(f[n]) = Range(ordered) \cup Seen(n)
                      /\ Once1 => IsInjective(f[n])
           P == {n \in 0 .. N : Good(n)}
<1>0. N \in Nat /\ DOMAIN order = 1 .. N /\ \A n \in 1 .. N : order[n] \in T
  OBVIOUS
<1>2. 0 \in P
  <2>1. Seen(0) = {}
    OBVIOUS
  <2>2. Good(0)
    BY <1>1, <2>1
  <2> HIDE DEF Good
  <2> QED
    BY <1>0, <2>2
<1>3. ASSUME NEW n \in 1 .. N, n - 1 \in P PROVE n \in P
  <2>1. Good(n - 1)
    BY <1>3
  <2>2. Seen(n) = Seen(n - 1) \cup {order[n]}
    BY <1>0
  <2>3. f[n] = Mixed(order, ordered, n, f[n - 1])
    BY <1>1
  <2>4. Once1 => order[n] \notin Seen(n - 1)
    <3>1. \A i \in 1 .. n - 1 : i \in 1 .. N /\ i # n
      BY <1>0
    <3> QED
      BY <1>0, <3>1 DEF IsInjective
  <2> HIDE DEF Seen, Once1
  <2>5. CASE order[n] \in Range(ordered)
    <3>1. f[n] = f[n - 1]
      BY <2>3, <2>5 DEF Mixed
    <3>2. Good(n)
      BY <2>1, <2>2, <2>5, <3>1
    <3> QED
      BY <3>2, <1>0
  <2>6. CASE order[n] \notin Range(ordered)
    <3>2. /\ f[n] \in Seq(T) /\ Range(f[n]) = Range(f[n - 1]) \cup {order[n]}
          /\ IsInjective(f[n - 1]) /\ order[n] \notin Range(f[n - 1]) => IsInjective(f[n])
      <4>1. f[n - 1] \in Seq(T) /\ order[n] \in T
        BY <1>0, <2>1
      <4> HIDE DEF N, P, Good
      <4> QED
        BY <2>3, <2>6, <4>1, MixedFacts
    <3>3. Good(n)
      BY <2>1, <2>2, <2>4, <2>6, <3>2
    <3> QED
      BY <3>3, <1>0
  <2> QED
    BY <2>5, <2>6
<1>4. N \in P
  <2> HIDE DEF P, N
  <2>1. \A n \in 0 .. N : n \in P
    BY <1>0, <1>2, <1>3, EveryRound
  <2> QED
    BY <1>0, <2>1
<1>5. Seen(N) = Range(order)
  BY <1>0 DEF Range
<1> QED
  BY <1>1, <1>4, <1>5

LEMMA ReverseFacts ==
  ASSUME NEW T, NEW s \in Seq(T)
  PROVE  /\ Reverse(s) \in Seq(T) /\ Range(Reverse(s)) = Range(s)
         /\ IsInjective(s) => IsInjective(Reverse(s))
<1> DEFINE t == Reverse(s)
           k == Len(s)
<1>1. /\ t \in Seq(T) /\ k \in Nat /\ DOMAIN s = 1 .. k /\ DOMAIN t = 1 .. k
      /\ \A i \in 1 .. k : t[i] = s[(k - i) + 1]
  BY DEF Reverse
<1>2. \A i \in 1 .. k : (k - i) + 1 \in 1 .. k /\ (k - ((k - i) + 1)) + 1 = i
  OBVIOUS
<1> HIDE DEF t, k
<1>3. Range(t) = Range(s)
  <2>1. ASSUME NEW x \in Range(t) PROVE x \in Range(s)
    BY <1>1, <1>2 DEF Range
  <2>2. ASSUME NEW x \in Range(s) PROVE x \in Range(t)
    <3>1. PICK i \in 1 .. k : x = s[i]
      BY <1>1 DEF Range
    <3>2. t[(k - i) + 1] = x /\ (k - i) + 1 \in 1 .. k
      BY <1>1, <1>2, <3>1
    <3> QED
      BY <1>1, <3>2 DEF Range
  <2> QED
    BY <2>1, <2>2
<1>4. IsInjective(s) => IsInjective(t)
  BY <1>1, <1>2 DEF IsInjective
<1> QED
  BY <1>1, <1>3, <1>4 DEF t

\* Two lists that share nothing, put together.
LEMMA ConcatOnce ==
  ASSUME NEW T, NEW s \in Seq(T), NEW u \in Seq(T)
  PROVE  /\ s \o u \in Seq(T) /\ Range(s \o u) = Range(s) \cup Range(u)
         /\ IsInjective(s) /\ IsInjective(u) /\ Range(s) \cap Range(u) = {} => IsInjective(s \o u)
<1> DEFINE t == s \o u
           k == Len(s)
           l == Len(u)
<1>1. /\ t \in Seq(T) /\ Len(t) = k + l
      /\ \A i \in 1 .. k : t[i] = s[i]
      /\ \A i \in k + 1 .. k + l : t[i] = u[i - k]
  BY ConcatFacts
<1> HIDE DEF t
<1>2. /\ k \in Nat /\ l \in Nat /\ DOMAIN s = 1 .. k /\ DOMAIN u = 1 .. l /\ DOMAIN t = 1 .. k + l
  BY <1>1
<1> HIDE DEF k, l
<1>3. /\ \A i \in 1 .. k + l : i \in 1 .. k \/ i \in k + 1 .. k + l
      /\ \A i \in k + 1 .. k + l : i - k \in 1 .. l
      /\ \A i \in 1 .. l : i + k \in k + 1 .. k + l /\ (i + k) - k = i
      /\ \A i \in 1 .. k : i \in 1 .. k + l
      /\ \A i \in k + 1 .. k + l : i \in 1 .. k + l
  BY <1>2
<1>4. Range(t) = Range(s) \cup Range(u)
  <2>1. ASSUME NEW x \in Range(t) PROVE x \in Range(s) \cup Range(u)
    <3>1. PICK i \in 1 .. k + l : x = t[i]
      BY <1>2 DEF Range
    <3> QED
      BY <1>1, <1>2, <1>3, <3>1 DEF Range
  <2>2. ASSUME NEW x \in Range(s) PROVE x \in Range(t)
    BY <1>1, <1>2, <1>3 DEF Range
  <2>3. ASSUME NEW x \in Range(u) PROVE x \in Range(t)
    <3>1. PICK i \in 1 .. l : x = u[i]
      BY <1>2 DEF Range
    <3>2. t[i + k] = x /\ i + k \in 1 .. k + l
      BY <1>1, <1>3, <3>1
    <3> QED
      BY <1>2, <3>2 DEF Range
  <2> QED
    BY <2>1, <2>2, <2>3
<1>5. ASSUME IsInjective(s), IsInjective(u), Range(s) \cap Range(u) = {} PROVE IsInjective(t)
  <2>1. /\ \A i, j \in 1 .. k : s[i] = s[j] => i = j
        /\ \A i, j \in 1 .. l : u[i] = u[j] => i = j
    BY <1>2, <1>5 DEF IsInjective
  <2>2. \A i \in 1 .. k, j \in 1 .. l : s[i] # u[j]
    <3>1. ASSUME NEW i \in 1 .. k, NEW j \in 1 .. l, s[i] = u[j] PROVE FALSE
      <4>1. s[i] \in Range(s) /\ u[j] \in Range(u)
        BY <1>2 DEF Range
      <4> QED
        BY <1>5, <3>1, <4>1
    <3> QED
      BY <3>1
  <2>3. ASSUME NEW i \in 1 .. k + l, NEW j \in 1 .. k + l, t[i] = t[j] PROVE i = j
    <3>1. CASE i \in 1 .. k /\ j \in 1 .. k
      BY <1>1, <2>1, <2>3, <3>1
    <3>2. CASE i \in 1 .. k /\ j \in k + 1 .. k + l
      BY <1>1, <1>3, <2>2, <2>3, <3>2
    <3>3. CASE i \in k + 1 .. k + l /\ j \in 1 .. k
      BY <1>1, <1>3, <2>2, <2>3, <3>3
    <3>4. CASE i \in k + 1 .. k + l /\ j \in k + 1 .. k + l
      <4>1. i - k = j - k
        BY <1>1, <1>3, <2>1, <2>3, <3>4
      <4> QED
        BY <1>2, <3>4, <4>1
    <3> QED
      BY <1>3, <3>1, <3>2, <3>3, <3>4
  <2> QED
    BY <1>2, <2>3 DEF IsInjective
<1> QED
  BY <1>1, <1>4, <1>5 DEF t

-----------------------------------------------------------------------------
(***************************************************************************)
(* Loading the settings.                                                   *)
(***************************************************************************)
LEMMA ProviderConstants ==
  /\ Listed \in Seq(STRING)
  /\ OldId \notin Known /\ "missing" \notin Known
  /\ EarlierFiles \subseteq [plugins : PluginSettings, done : BOOLEAN]
BY ProviderAssumption DEF ProviderAssumption

IsOrder(q) == q \in Seq(Range(q))

LEMMA OrderFacts ==
  ASSUME NEW T, NEW q \in Seq(T)
  PROVE  IsOrder(q) /\ Range(q) \subseteq T /\ \A U : T \subseteq U => q \in Seq(U)
<1>1. Len(q) \in Nat /\ DOMAIN q = 1 .. Len(q) /\ \A i \in 1 .. Len(q) : q[i] \in T
  OBVIOUS
<1>2. q = [i \in 1 .. Len(q) |-> q[i]]
  BY <1>1
<1>3. ASSUME NEW U, \A i \in 1 .. Len(q) : q[i] \in U PROVE q \in Seq(U)
  BY <1>1, <1>2, <1>3
<1>4. \A i \in 1 .. Len(q) : q[i] \in Range(q)
  BY <1>1 DEF Range
<1> QED
  BY <1>1, <1>3, <1>4 DEF IsOrder, Range

IsSettings(s) == s = [order |-> s.order, disabled |-> s.disabled] /\ IsOrder(s.order)

\* The order lists every known provider once.
Listing(s) == IsSettings(s) /\ IsInjective(s.order) /\ Range(s.order) = Known

LEMMA EmptySettings == IsSettings(Missing) /\ IsSettings(Empty)
<1>1. \A q : IsOrder(q) => IsSettings([order |-> q, disabled |-> {}])
  BY DEF IsSettings
<1> DEFINE e == "missing"
<1>2. e \in {e}
  OBVIOUS
<1> HIDE DEF e
<1>3. <<e>> \in Seq({e}) /\ <<>> \in Seq({e})
  BY <1>2, OneFacts
<1>4. IsOrder(<<e>>) /\ IsOrder(<<>>)
  BY <1>3, OrderFacts
<1> QED
  BY <1>1, <1>4, Zenon DEF Missing, Empty, e

\* normalizePluginSettings leaves every known provider once; it leaves a
\* provider switched off if it was, or if it is new and not detected.
LEMMA NormalizeFacts ==
  ASSUME NEW s, IsSettings(s)
  PROVE  /\ Listing(normalizePluginSettings(s))
         /\ \A id \in Known :
              id \in normalizePluginSettings(s).disabled <=>
                \/ id \in s.disabled
                \/ id \notin Range(s.order) /\ id \notin detected
<1> DEFINE kept == Once(s.order, Known)
           new == Once(Listed, Known \ Range(kept))
           n == normalizePluginSettings(s)
           U == Range(s.order) \cup Known
<1>1. /\ kept \in Seq(U) /\ IsInjective(kept) /\ Range(kept) = Range(s.order) \cap Known
  <2>1. s.order \in Seq(U)
    BY OrderFacts DEF IsSettings, IsOrder
  <2> HIDE DEF U
  <2> QED
    BY <2>1, OnceFacts
<1>2. /\ new \in Seq(U) /\ IsInjective(new) /\ Range(new) = Known \cap (Known \ Range(kept))
  <2>1. Known = Range(Listed) /\ Listed \in Seq(U)
    BY ProviderConstants, OrderFacts DEF Known, IsOrder
  <2> HIDE DEF kept, U
  <2> QED
    BY <2>1, OnceFacts
<1>3. n = [order |-> kept \o new, disabled |-> (s.disabled \cap Known) \cup (Range(new) \ detected)]
  BY DEF normalizePluginSettings
<1> HIDE DEF kept, new, n, U
<1>4. Range(new) = Known \ Range(s.order)
  BY <1>1, <1>2
<1>5. Range(kept) \cap Range(new) = {} /\ Range(kept) \cup Range(new) = Known
  BY <1>1, <1>4
<1>6. kept \o new \in Seq(U) /\ IsInjective(kept \o new) /\ Range(kept \o new) = Known
  BY <1>1, <1>2, <1>5, ConcatOnce
<1>7. Listing(n)
  <2> DEFINE q == kept \o new
  <2> HIDE DEF q
  <2>1. n.order = q /\ n = [order |-> n.order, disabled |-> n.disabled]
    BY <1>3 DEF q
  <2>2. IsOrder(q) /\ IsInjective(q) /\ Range(q) = Known
    BY <1>6, OrderFacts DEF q
  <2> QED
    BY <2>1, <2>2 DEF Listing, IsSettings
<1>8. \A id \in Known :
        id \in n.disabled <=> id \in s.disabled \/ (id \notin Range(s.order) /\ id \notin detected)
  BY <1>3, <1>4
<1> QED
  BY <1>7, <1>8 DEF n

\* migrateWindsurfToDevin gives the new provider what was chosen for the old
\* one, and leaves the others alone.
LEMMA MigrateFacts ==
  ASSUME NEW s, IsSettings(s)
  PROVE  /\ IsSettings(migrateWindsurfToDevin(s))
         /\ \A id \in Known :
              id \in Range(migrateWindsurfToDevin(s).order) <=>
                id \in Range(s.order) \/ (id = NewId /\ OldId \in Range(s.order))
         /\ \A id \in Known :
              id \in migrateWindsurfToDevin(s).disabled <=>
                \/ id \in s.disabled /\ ~(id = NewId /\ OldId \in Range(s.order) \ s.disabled)
                \/ id = NewId /\ NewId \notin Range(s.order) /\ OldId \in s.disabled
<1> DEFINE m == migrateWindsurfToDevin(s)
           q == [i \in DOMAIN s.order |-> IF s.order[i] = OldId THEN NewId ELSE s.order[i]]
           old == OldId \in Range(s.order)
           freed == IF old /\ OldId \notin s.disabled THEN {NewId} ELSE {}
           taken == IF NewId \notin Range(s.order) /\ OldId \in s.disabled THEN {NewId} ELSE {}
<1>1. m = [order |-> Unique(q), disabled |-> ((s.disabled \ {OldId}) \ freed) \cup taken]
  BY DEF migrateWindsurfToDevin
<1> DEFINE T == Range(s.order) \cup {NewId}
<1>2. /\ q \in Seq(T)
      /\ Range(q) = {IF x = OldId THEN NewId ELSE x : x \in Range(s.order)}
  <2> DEFINE o == s.order
             r == [i \in DOMAIN o |-> IF o[i] = OldId THEN NewId ELSE o[i]]
  <2>1. o \in Seq(Range(o))
    BY DEF IsSettings, IsOrder
  <2> HIDE DEF o
  <2>2. Len(o) \in Nat /\ DOMAIN o = 1 .. Len(o) /\ \A i \in 1 .. Len(o) : o[i] \in Range(o)
    BY <2>1
  <2>3. \A i \in 1 .. Len(o) : (IF o[i] = OldId THEN NewId ELSE o[i]) \in Range(o) \cup {NewId}
    BY <2>2
  <2>4. r \in Seq(Range(o) \cup {NewId})
    BY <2>2, <2>3
  <2>5. Range(r) = {IF x = OldId THEN NewId ELSE x : x \in Range(o)}
    BY <2>2 DEF Range
  <2> QED
    BY <2>4, <2>5 DEF o
<1>3. Unique(q) \in Seq(T) /\ Range(Unique(q)) = Range(q)
  <2> HIDE DEF q, T
  <2> QED
    BY <1>2, OnceFacts DEF Unique
<1> HIDE DEF m, q, T
<1>4. IsSettings(m)
  <2> DEFINE o == Unique(q)
  <2> HIDE DEF o
  <2>1. m.order = o /\ m = [order |-> m.order, disabled |-> m.disabled]
    BY <1>1 DEF o
  <2> QED
    BY <1>3, <2>1, OrderFacts DEF IsSettings, o
<1>5. ASSUME NEW id \in Known
      PROVE  id \in Range(m.order) <=> id \in Range(s.order) \/ (id = NewId /\ OldId \in Range(s.order))
  <2>1. m.order = Unique(q) /\ id # OldId
    BY <1>1, ProviderConstants
  <2> QED
    BY <1>2, <1>3, <2>1
<1>6. ASSUME NEW id \in Known
      PROVE  id \in m.disabled <=>
                \/ id \in s.disabled /\ ~(id = NewId /\ OldId \in Range(s.order) \ s.disabled)
                \/ id = NewId /\ NewId \notin Range(s.order) /\ OldId \in s.disabled
  <2>1. m.disabled = ((s.disabled \ {OldId}) \ freed) \cup taken /\ id # OldId
    BY <1>1, ProviderConstants
  <2> QED
    BY <2>1
<1> QED
  BY <1>4, <1>5, <1>6 DEF m

\* What a settings file tells of a provider holds after its load.
LEMMA LoadKeeps ==
  ASSUME NEW f, IsSettings(f.plugins), NEW s,
         s = IF f.plugins = Missing THEN Empty ELSE f.plugins, NEW id \in Known
  PROVE  LET n == normalizePluginSettings(migrateWindsurfToDevin(s))
         IN /\ Listing(n)
            /\ ChoiceIn(f)[id] = "on" => id \notin n.disabled
            /\ ChoiceIn(f)[id] = "off" => id \in n.disabled
<1> DEFINE m == migrateWindsurfToDevin(s)
           n == normalizePluginSettings(m)
           p == f.plugins
<1>1. IsSettings(Empty)
  BY EmptySettings
<1>2. IsSettings(s)
  BY <1>1
<1>3. /\ IsSettings(m)
      /\ id \in Range(m.order) <=> id \in Range(s.order) \/ (id = NewId /\ OldId \in Range(s.order))
      /\ id \in m.disabled <=>
                \/ id \in s.disabled /\ ~(id = NewId /\ OldId \in Range(s.order) \ s.disabled)
                \/ id = NewId /\ NewId \notin Range(s.order) /\ OldId \in s.disabled
  BY <1>2, MigrateFacts
<1> HIDE DEF m
<1>4. Listing(n) /\ (id \in n.disabled <=> id \in m.disabled \/ (id \notin Range(m.order) /\ id \notin detected))
  BY <1>3, NormalizeFacts
<1> HIDE DEF n
<1>5. ChoiceIn(f)[id] =
           IF p = Missing THEN "none"
           ELSE IF id = NewId /\ OldId \in Range(p.order) \ p.disabled THEN "on"
           ELSE IF id = NewId /\ OldId \in p.disabled /\ NewId \notin Range(p.order) THEN "off"
           ELSE IF id \in p.disabled THEN "off"
           ELSE IF id \in Range(p.order) THEN "on" ELSE "none"
  BY DEF ChoiceIn
<1>6. p # Missing => s = p
  OBVIOUS
<1> HIDE DEF p
<1>7. ChoiceIn(f)[id] = "on" => id \notin n.disabled
  BY <1>3, <1>4, <1>5, <1>6
<1>8. ChoiceIn(f)[id] = "off" => id \in n.disabled
  BY <1>3, <1>4, <1>5, <1>6
<1> QED
  BY <1>4, <1>7, <1>8 DEF m, n

-----------------------------------------------------------------------------
(***************************************************************************)
(* The choices.  The invariant says where the last choice for a provider   *)
(* is to be found: in the file between two launches, in what the load has  *)
(* got until the panel shows it, and in the store from then on, which the  *)
(* panel shows unless the setup window is a step ahead of it.              *)
(***************************************************************************)

\* The settings say of every provider what the user last chose for it.
Obeys(s, c) ==
  \A id \in Known : /\ c[id] = "on" => id \notin s.disabled
                    /\ c[id] = "off" => id \in s.disabled

\* Nothing is held to be chosen but what the file tells of.
Backed(f) == \A id \in Known : choice[id] \in {"none", ChoiceIn(f)[id]}

IsFile(f) == f = [plugins |-> f.plugins, done |-> f.done] /\ IsSettings(f.plugins)

IsBoot(b) ==
  /\ b = [at |-> b.at, next |-> b.next] /\ IsSettings(b.next)
  /\ b.at \in {"off", "list", "save", "preferences", "done"}

IsReload(r) ==
  /\ r = [at |-> r.at, next |-> r.next] /\ IsSettings(r.next)
  /\ r.at \in {"none", "told", "read"}

IsSetup(s) ==
  /\ s = [at |-> s.at, keep |-> s.keep, drop |-> s.drop, seen |-> s.seen] /\ IsSettings(s.seen)
  /\ s.at \in {"closed", "steps", "merging", "finishing", "failed"}

IsChoice(c) ==
  c = [id \in Known |-> c[id]] /\ \A id \in Known : c[id] \in {"none", "on", "off"}

ProviderTypes ==
  /\ IsFile(store) /\ IsFile(file) /\ IsSettings(panel)
  /\ IsBoot(boot) /\ IsReload(reload) /\ IsSetup(setup) /\ IsChoice(choice)

\* Between two launches.
StoppedInv ==
  ~Running => /\ store = file /\ Backed(file)
              /\ panel = Missing /\ setup = NoSetup /\ reload = NoReload

\* The panel has yet to show what it loads at the launch.
LoadingInv ==
  /\ boot.at = "list" => Backed(store)
  /\ boot.at \in {"save", "preferences"} => Listing(boot.next) /\ Obeys(boot.next, choice)
  /\ boot.at = "preferences" => loadPluginSettings = boot.next
  /\ boot.at # "done" =>
       panel = Missing /\ setup.at \in {"closed", "steps"} /\ reload.at = "none"

\* The panel has shown it; the setup window may be a step ahead of the panel.
ShownInv ==
  boot.at = "done" =>
    /\ Listing(loadPluginSettings) /\ Obeys(loadPluginSettings, choice)
    /\ setup.at = "merging" =>
         setup.seen = loadPluginSettings /\ setup.keep \cap setup.drop = {}
    /\ setup.at \in {"closed", "steps"} /\ reload.at = "none" => panel = loadPluginSettings
    /\ reload.at # "none" => setup.at = "closed"
    /\ reload.at = "read" => reload.next = loadPluginSettings

HeedInv ==
  /\ ProviderTypes /\ StoppedInv
  /\ Running /\ ~crossed => LoadingInv /\ ShownInv

-----------------------------------------------------------------------------
\* What the store returns of its plugins.
LEMMA LoadIs ==
  /\ \A s : Listing(s) => s # Missing
  /\ store.plugins # Missing => loadPluginSettings = store.plugins
  /\ store.plugins = Missing => loadPluginSettings = Empty
  /\ IsFile(store) => IsSettings(loadPluginSettings)
  /\ IsSettings(Missing) /\ IsSettings(Empty)
<1>1. Missing.order = <<"missing">> /\ Range(<<"missing">>) = {"missing"}
  BY DEF Missing, Range
<1>2. \A s : Listing(s) => s # Missing
  BY <1>1, ProviderConstants DEF Listing
<1>3. IsSettings(Missing) /\ IsSettings(Empty)
  BY EmptySettings
<1> QED
  BY <1>2, <1>3 DEF loadPluginSettings, IsFile

\* The same of the store after a step.
LEMMA LoadIsNext ==
  /\ store'.plugins # Missing => loadPluginSettings' = store'.plugins
  /\ store'.plugins = store.plugins => loadPluginSettings' = loadPluginSettings
BY DEF loadPluginSettings

\* A step that leaves alone what the windows show and know, and changes the
\* store in nothing but the flag.
LEMMA StillHeeds ==
  ASSUME HeedInv, Running, UNCHANGED <<panel, boot, reload, setup, choice, crossed>>,
         IsFile(store'), IsFile(file'), store'.plugins = store.plugins
  PROVE  HeedInv'
<1>1. loadPluginSettings' = loadPluginSettings
  BY LoadIsNext
<1>2. ProviderTypes'
  BY Zenon DEF HeedInv, ProviderTypes
<1>3. Running'
  BY Zenon DEF Running
<1>4. \A f : IsFile(f) /\ f.plugins = store.plugins => ChoiceIn(f) = ChoiceIn(store)
  BY DEF ChoiceIn
<1>5. Backed(store) => Backed(store)'
  BY <1>4, Zenon DEF Backed
<1>7. ASSUME ~crossed', LoadingInv, ShownInv PROVE LoadingInv' /\ ShownInv'
  BY <1>1, <1>5, <1>7 DEF LoadingInv, ShownInv
<1> QED
  BY <1>2, <1>3, <1>7, Zenon DEF HeedInv, StoppedInv

\* What an update of one field leaves.
LEMMA FileFacts ==
  ASSUME NEW f, IsFile(f)
  PROVE  /\ \A s : IsSettings(s) => /\ IsFile([f EXCEPT !.plugins = s])
                                    /\ [f EXCEPT !.plugins = s].plugins = s
         /\ \A b : /\ IsFile([f EXCEPT !.done = b])
                   /\ [f EXCEPT !.done = b].plugins = f.plugins
BY DEF IsFile

LEMMA SettingsFacts ==
  ASSUME NEW s, IsSettings(s)
  PROVE  /\ \A d : /\ [s EXCEPT !.disabled = d].order = s.order
                   /\ [s EXCEPT !.disabled = d].disabled = d
                   /\ IsSettings([s EXCEPT !.disabled = d])
                   /\ Listing(s) => Listing([s EXCEPT !.disabled = d])
         /\ \A q : /\ [s EXCEPT !.order = q].order = q
                   /\ [s EXCEPT !.order = q].disabled = s.disabled
                   /\ IsOrder(q) => IsSettings([s EXCEPT !.order = q])
                   /\ IsOrder(q) /\ IsInjective(q) /\ Range(q) = Known =>
                        Listing([s EXCEPT !.order = q])
<1>1. ASSUME NEW d
      PROVE  /\ [s EXCEPT !.disabled = d].order = s.order
             /\ [s EXCEPT !.disabled = d].disabled = d
             /\ IsSettings([s EXCEPT !.disabled = d])
             /\ Listing(s) => Listing([s EXCEPT !.disabled = d])
  <2> DEFINE t == [s EXCEPT !.disabled = d]
  <2>1. t.order = s.order /\ t.disabled = d /\ t = [order |-> t.order, disabled |-> t.disabled]
    BY DEF IsSettings
  <2> HIDE DEF t
  <2>2. IsSettings(t) /\ (Listing(s) => Listing(t))
    BY <2>1 DEF IsSettings, Listing
  <2> QED
    BY <2>1, <2>2 DEF t
<1>2. ASSUME NEW q
      PROVE  /\ [s EXCEPT !.order = q].order = q
             /\ [s EXCEPT !.order = q].disabled = s.disabled
             /\ IsOrder(q) => IsSettings([s EXCEPT !.order = q])
             /\ IsOrder(q) /\ IsInjective(q) /\ Range(q) = Known =>
                  Listing([s EXCEPT !.order = q])
  <2> DEFINE t == [s EXCEPT !.order = q]
  <2>1. t.order = q /\ t.disabled = s.disabled /\ t = [order |-> t.order, disabled |-> t.disabled]
    BY DEF IsSettings
  <2> HIDE DEF t
  <2>2. IsOrder(q) => IsSettings(t)
    BY <2>1 DEF IsSettings
  <2>3. IsOrder(q) /\ IsInjective(q) /\ Range(q) = Known => Listing(t)
    BY <2>1, <2>2 DEF Listing
  <2> QED
    BY <2>1, <2>2, <2>3 DEF t
<1> QED
  BY <1>1, <1>2

LEMMA AtFacts ==
  /\ NoSetup = [at |-> "closed", keep |-> {}, drop |-> {}, seen |-> Empty]
  /\ \A at : [NoSetup EXCEPT !.at = at] = [at |-> at, keep |-> {}, drop |-> {}, seen |-> Empty]
  /\ NoReload = [at |-> "none", next |-> Empty]
  /\ \A at : [NoReload EXCEPT !.at = at] = [at |-> at, next |-> Empty]
  /\ Off = [at |-> "off", next |-> Empty]
  /\ \A at : [Off EXCEPT !.at = at] = [at |-> at, next |-> Empty]
BY DEF NoSetup, NoReload, Off

LEMMA AtTypes ==
  /\ IsReload(NoReload) /\ IsSetup(NoSetup) /\ IsBoot(Off)
  /\ \A at \in {"list", "done"} : IsBoot([Off EXCEPT !.at = at])
  /\ \A at \in {"steps", "finishing", "failed"} : IsSetup([NoSetup EXCEPT !.at = at])
  /\ IsReload([NoReload EXCEPT !.at = "told"])
<1>1. IsSettings(Empty)
  BY LoadIs
<1>2. \A at \in {"off", "list", "done"} : IsBoot([at |-> at, next |-> Empty])
  BY <1>1 DEF IsBoot
<1>3. \A at \in {"closed", "steps", "finishing", "failed"} :
        IsSetup([at |-> at, keep |-> {}, drop |-> {}, seen |-> Empty])
  BY <1>1 DEF IsSetup
<1>4. \A at \in {"none", "told"} : IsReload([at |-> at, next |-> Empty])
  BY <1>1 DEF IsReload
<1> QED
  BY <1>2, <1>3, <1>4, AtFacts

\* The setup window and the panel's refresh have business only while the
\* application runs.
LEMMA WindowsRun ==
  ASSUME HeedInv, setup.at # "closed" \/ reload.at # "none"
  PROVE  Running
<1>1. ~Running => setup.at = "closed" /\ reload.at = "none"
  BY AtFacts DEF HeedInv, StoppedInv
<1> QED
  BY <1>1, Zenon

LEMMA InitHeeds == ProviderInit => HeedInv
<1> SUFFICES ASSUME ProviderInit PROVE HeedInv
  OBVIOUS
<1>1. IsFile(file) /\ store = file
  <2>1. file \in [plugins : PluginSettings, done : BOOLEAN] /\ store = file
    BY ProviderConstants, Zenon DEF ProviderInit
  <2>2. file = [plugins |-> file.plugins, done |-> file.done] /\ file.plugins \in PluginSettings
    BY <2>1
  <2>3. /\ file.plugins = [order |-> file.plugins.order, disabled |-> file.plugins.disabled]
        /\ file.plugins.order \in Seq(STRING)
    BY <2>2 DEF PluginSettings
  <2> QED
    BY <2>1, <2>2, <2>3, OrderFacts DEF IsFile, IsSettings
<1>2. /\ panel = Missing /\ boot = Off /\ reload = NoReload /\ setup = NoSetup
      /\ choice = ChoiceIn(file)
  BY Zenon DEF ProviderInit
<1>3. IsChoice(choice)
  BY <1>2 DEF ChoiceIn, IsChoice
<1>4. ProviderTypes
  BY <1>1, <1>2, <1>3, AtTypes, LoadIs, Zenon DEF ProviderTypes
<1>5. ~Running
  BY <1>2, AtFacts DEF Running
<1>6. StoppedInv
  BY <1>1, <1>2, Zenon DEF StoppedInv, Backed
<1> QED
  BY <1>4, <1>5, <1>6, Zenon DEF HeedInv

LEMMA LaunchHeeds == HeedInv /\ Launch => HeedInv'
<1> SUFFICES ASSUME HeedInv, Launch PROVE HeedInv'
  OBVIOUS
<1>1. /\ store' = file /\ file' = file /\ panel' = panel /\ reload' = reload /\ choice' = choice
      /\ boot' = [Off EXCEPT !.at = "list"]
      /\ setup' = NoSetup \/ setup' = [NoSetup EXCEPT !.at = "steps"]
  BY Zenon DEF Launch
<1>2. store = file /\ Backed(file) /\ panel = Missing /\ reload = NoReload
  BY Zenon DEF Launch, HeedInv, StoppedInv
<1>3. /\ boot' = [at |-> "list", next |-> Empty]
      /\ \/ setup' = [at |-> "closed", keep |-> {}, drop |-> {}, seen |-> Empty]
         \/ setup' = [at |-> "steps", keep |-> {}, drop |-> {}, seen |-> Empty]
  BY <1>1, AtFacts, Zenon
<1>4. ProviderTypes'
  <2>1. IsBoot(boot')
    BY <1>1, AtTypes
  <2>2. IsSetup(setup')
    BY <1>1, AtTypes
  <2> QED
    BY <1>1, <2>1, <2>2, Zenon DEF HeedInv, ProviderTypes
<1>5. Running'
  BY <1>3 DEF Running
<1>6. Backed(store)'
  BY <1>1, <1>2, Zenon DEF Backed
<1>7. LoadingInv'
  BY <1>1, <1>2, <1>3, <1>6, AtFacts DEF LoadingInv
<1>8. ShownInv'
  BY <1>3 DEF ShownInv
<1> QED
  BY <1>4, <1>5, <1>7, <1>8, Zenon DEF HeedInv, StoppedInv

LEMMA SaveHeeds == HeedInv /\ Save => HeedInv'
<1> SUFFICES ASSUME HeedInv, Save PROVE HeedInv'
  OBVIOUS
<1>1. /\ Running /\ UNCHANGED <<panel, boot, reload, setup, choice, crossed>>
      /\ store' = store /\ file' = store
  BY Zenon DEF Save
<1>2. IsFile(store)
  BY Zenon DEF HeedInv, ProviderTypes
<1> QED
  BY <1>1, <1>2, StillHeeds, Zenon

\* What is lost with the file is no longer held to be chosen, and what the
\* file still tells of is.
LEMMA ExitHeeds == HeedInv /\ Exit => HeedInv'
<1> SUFFICES ASSUME HeedInv, Exit PROVE HeedInv'
  OBVIOUS
<1>1. /\ file' = file \/ file' = [plugins |-> Missing, done |-> FALSE]
      /\ store' = file' /\ choice' = Remembered(file') /\ boot' = Off /\ panel' = Missing
      /\ reload' = NoReload /\ setup' = NoSetup
  BY Zenon DEF Exit
<1>2. IsFile(file')
  <2>1. IsFile([plugins |-> Missing, done |-> FALSE])
    BY LoadIs DEF IsFile
  <2>2. IsFile(file)
    BY Zenon DEF HeedInv, ProviderTypes
  <2> QED
    BY <1>1, <2>1, <2>2, Zenon
<1>3. /\ IsChoice(choice')
      /\ \A id \in Known : choice'[id] \in {"none", ChoiceIn(file')[id]}
  <2>1. \A id \in Known : choice[id] \in {"none", "on", "off"}
    BY Zenon DEF HeedInv, ProviderTypes, IsChoice
  <2>2. choice' = [id \in Known |-> IF choice[id] = ChoiceIn(file')[id] THEN choice[id] ELSE "none"]
    BY <1>1, Zenon DEF Remembered
  <2> QED
    BY <2>1, <2>2 DEF IsChoice
<1>4. ProviderTypes'
  BY <1>1, <1>2, <1>3, AtTypes, LoadIs, Zenon DEF ProviderTypes
<1>5. ~Running'
  BY <1>1, AtFacts DEF Running
<1>6. StoppedInv'
  BY <1>1, <1>3, Zenon DEF StoppedInv, Backed
<1> QED
  BY <1>4, <1>5, <1>6, Zenon DEF HeedInv

\* What uncrossed steps may rely on, and how they end.
LEMMA HeedFacts ==
  ASSUME HeedInv
  PROVE  /\ IsFile(store) /\ IsFile(file) /\ IsSettings(panel) /\ IsBoot(boot) /\ IsReload(reload)
         /\ IsSetup(setup) /\ IsChoice(choice) /\ ProviderTypes
         /\ Running /\ ~crossed => LoadingInv /\ ShownInv
BY Zenon DEF HeedInv, ProviderTypes

LEMMA HeedsIf ==
  ASSUME ProviderTypes', Running', ~crossed' => LoadingInv' /\ ShownInv'
  PROVE  HeedInv'
BY Zenon DEF HeedInv, StoppedInv

LEMMA BootTypes ==
  \A s : IsSettings(s) =>
    \A at \in {"off", "list", "save", "preferences", "done"} : IsBoot([at |-> at, next |-> s])
BY DEF IsBoot

LEMMA LoadPluginsHeeds == HeedInv /\ LoadPlugins => HeedInv'
<1> SUFFICES ASSUME HeedInv, LoadPlugins PROVE HeedInv'
  OBVIOUS
<1> DEFINE n == normalizePluginSettings(migrateWindsurfToDevin(loadPluginSettings))
           at == IF loadPluginSettings = n THEN "preferences" ELSE "save"
<1>1. /\ boot.at = "list" /\ boot' = [at |-> at, next |-> n]
      /\ UNCHANGED <<store, file, panel, reload, setup, choice, crossed>>
  BY DEF LoadPlugins
<1>2. ASSUME NEW id \in Known
      PROVE  /\ Listing(n)
             /\ ChoiceIn(store)[id] = "on" => id \notin n.disabled
             /\ ChoiceIn(store)[id] = "off" => id \in n.disabled
  <2>1. IsSettings(store.plugins)
    BY HeedFacts DEF IsFile
  <2>2. loadPluginSettings = IF store.plugins = Missing THEN Empty ELSE store.plugins
    BY DEF loadPluginSettings
  <2> QED
    BY <2>1, <2>2, LoadKeeps
<1>3. Listing(n)
  <2>1. IsSettings(loadPluginSettings)
    BY HeedFacts, LoadIs
  <2> QED
    BY <2>1, MigrateFacts, NormalizeFacts
<1> HIDE DEF n
<1>4. IsBoot(boot')
  BY <1>1, <1>3, BootTypes DEF Listing
<1>5. ProviderTypes'
  BY <1>1, <1>4, HeedFacts, Zenon DEF ProviderTypes
<1>6. boot'.at \in {"save", "preferences"} /\ boot'.next = n
  BY <1>1
<1>7. Running /\ Running'
  BY <1>1, <1>6 DEF Running
<1>8. ASSUME ~crossed' PROVE LoadingInv' /\ ShownInv'
  <2>1. LoadingInv
    BY <1>1, <1>7, <1>8, HeedFacts, Zenon
  <2>2. Backed(store) /\ panel = Missing /\ setup.at \in {"closed", "steps"} /\ reload.at = "none"
    BY <1>1, <2>1 DEF LoadingInv
  <2>3. \A id \in Known : /\ choice[id] = "on" => id \notin n.disabled
                          /\ choice[id] = "off" => id \in n.disabled
    BY <1>2, <2>2 DEF Backed
  <2>4. Obeys(boot'.next, choice')
    BY <1>1, <1>6, <2>3 DEF Obeys
  <2>5. Listing(boot'.next)
    BY <1>3, <1>6
  <2>6. boot'.at = "preferences" => loadPluginSettings = n
    BY <1>1
  <2>7. loadPluginSettings' = loadPluginSettings
    BY <1>1, LoadIsNext
  <2>8. LoadingInv'
    BY <1>1, <1>6, <2>2, <2>4, <2>5, <2>6, <2>7 DEF LoadingInv
  <2> QED
    BY <1>6, <2>8 DEF ShownInv
<1> QED
  BY <1>5, <1>7, <1>8, HeedsIf

LEMMA SaveNormalizedHeeds == HeedInv /\ SaveNormalized => HeedInv'
<1> SUFFICES ASSUME HeedInv, SaveNormalized PROVE HeedInv'
  OBVIOUS
<1>1. /\ boot.at = "save" /\ store' = [store EXCEPT !.plugins = boot.next]
      /\ boot' = [boot EXCEPT !.at = "preferences"]
      /\ UNCHANGED <<file, panel, reload, setup, choice, crossed>>
  BY Zenon DEF SaveNormalized
<1>2. IsSettings(boot.next) /\ boot = [at |-> boot.at, next |-> boot.next]
  BY HeedFacts DEF IsBoot
<1>3. boot' = [at |-> "preferences", next |-> boot.next]
  BY <1>1, <1>2
<1>4. IsFile(store') /\ store'.plugins = boot.next
  BY <1>1, <1>2, HeedFacts, FileFacts
<1>5. IsBoot(boot')
  BY <1>2, <1>3, BootTypes
<1>6. ProviderTypes'
  BY <1>1, <1>4, <1>5, HeedFacts, Zenon DEF ProviderTypes
<1>7. Running /\ Running'
  BY <1>1, <1>3 DEF Running
<1>8. ASSUME ~crossed' PROVE LoadingInv' /\ ShownInv'
  <2>1. LoadingInv
    BY <1>1, <1>7, <1>8, HeedFacts, Zenon
  <2>2. /\ Listing(boot.next) /\ Obeys(boot.next, choice)
        /\ panel = Missing /\ setup.at \in {"closed", "steps"} /\ reload.at = "none"
    BY <1>1, <2>1 DEF LoadingInv
  <2>3. loadPluginSettings' = boot.next
    BY <1>4, <2>2, LoadIs, LoadIsNext
  <2>4. Obeys(boot'.next, choice')
    BY <1>1, <1>3, <2>2 DEF Obeys
  <2>5. LoadingInv'
    BY <1>1, <1>3, <2>2, <2>3, <2>4 DEF LoadingInv
  <2> QED
    BY <1>3, <2>5 DEF ShownInv
<1> QED
  BY <1>6, <1>7, <1>8, HeedsIf

LEMMA ShowSettingsHeeds == HeedInv /\ ShowSettings => HeedInv'
<1> SUFFICES ASSUME HeedInv, ShowSettings PROVE HeedInv'
  OBVIOUS
<1>1. /\ boot.at = "preferences" /\ panel' = boot.next /\ boot' = [Off EXCEPT !.at = "done"]
      /\ UNCHANGED <<store, file, reload, setup, choice, crossed>>
  BY Zenon DEF ShowSettings
<1>2. IsSettings(boot.next)
  BY HeedFacts DEF IsBoot
<1>3. IsBoot(boot') /\ boot'.at = "done"
  BY <1>1, AtTypes, AtFacts
<1>4. ProviderTypes'
  BY <1>1, <1>2, <1>3, HeedFacts, Zenon DEF ProviderTypes
<1>5. Running /\ Running'
  BY <1>1, <1>3 DEF Running
<1>6. ASSUME ~crossed' PROVE LoadingInv' /\ ShownInv'
  <2>1. LoadingInv
    BY <1>1, <1>5, <1>6, HeedFacts, Zenon
  <2>2. /\ Listing(boot.next) /\ Obeys(boot.next, choice) /\ loadPluginSettings = boot.next
        /\ setup.at \in {"closed", "steps"} /\ reload.at = "none"
    BY <1>1, <2>1 DEF LoadingInv
  <2>3. loadPluginSettings' = loadPluginSettings
    BY <1>1, LoadIsNext
  <2>4. Obeys(loadPluginSettings', choice')
    BY <1>1, <2>2, <2>3 DEF Obeys
  <2>5. ShownInv'
    BY <1>1, <2>2, <2>3, <2>4 DEF ShownInv
  <2> QED
    BY <1>3, <2>5 DEF LoadingInv
<1> QED
  BY <1>4, <1>5, <1>6, HeedsIf

-----------------------------------------------------------------------------
\* The changes of the user.

\* A change in the panel that says of every provider what its choice is.
LEMMA ChangeHeeds ==
  ASSUME HeedInv, MayChange, Changed(panel'), IsSettings(panel'), IsChoice(choice'),
         Listing(panel) => Listing(panel'),
         Obeys(panel, choice) => Obeys(panel', choice')
  PROVE  HeedInv'
<1>1. /\ Running /\ panel # Missing /\ store' = [store EXCEPT !.plugins = panel']
      /\ UNCHANGED <<file, boot, reload, setup>>
      /\ ~crossed' => ~crossed /\ ~SelectionUnheard
  BY Zenon DEF MayChange, Changed
<1>2. IsFile(store') /\ store'.plugins = panel'
  BY <1>1, HeedFacts, FileFacts
<1>3. ProviderTypes'
  BY <1>1, <1>2, HeedFacts, Zenon DEF ProviderTypes
<1>4. Running'
  BY <1>1, Zenon DEF Running
<1>5. ASSUME ~crossed' PROVE LoadingInv' /\ ShownInv'
  <2>1. LoadingInv /\ ShownInv /\ ~SelectionUnheard
    BY <1>1, <1>5, HeedFacts, Zenon
  <2>2. boot.at = "done"
    BY <1>1, <2>1 DEF LoadingInv
  <2>3. setup.at \in {"closed", "steps"} /\ reload.at = "none"
    BY <2>1, HeedFacts DEF SelectionUnheard, IsSetup
  <2>4. panel = loadPluginSettings /\ Listing(panel) /\ Obeys(panel, choice)
    BY <2>1, <2>2, <2>3 DEF ShownInv
  <2>5. Listing(panel') /\ Obeys(panel', choice')
    BY <2>4
  <2>6. loadPluginSettings' = panel'
    BY <1>2, <2>5, LoadIs, LoadIsNext
  <2>7. Obeys(loadPluginSettings', choice')
    BY <2>5, <2>6 DEF Obeys
  <2>8. ShownInv'
    BY <1>1, <2>3, <2>5, <2>6, <2>7 DEF ShownInv
  <2>9. LoadingInv'
    BY <1>1, <2>2 DEF LoadingInv
  <2> QED
    BY <2>8, <2>9
<1> QED
  BY <1>3, <1>4, <1>5, HeedsIf

\* A switch is the choice of its provider, and of no other.
LEMMA ToggleHeeds == ASSUME HeedInv, NEW id \in Known, handleToggle(id) PROVE HeedInv'
<1> DEFINE off == id \in panel.disabled
           d == IF off THEN panel.disabled \ {id} ELSE panel.disabled \cup {id}
           next == [panel EXCEPT !.disabled = d]
           v == IF off THEN "on" ELSE "off"
<1>1. MayChange /\ Changed(next) /\ choice' = [choice EXCEPT ![id] = v]
  BY DEF handleToggle
<1>2. IsSettings(next) /\ next.disabled = d /\ (Listing(panel) => Listing(next))
  BY HeedFacts, SettingsFacts
<1>3. IsChoice(choice) /\ v \in {"on", "off"}
  BY HeedFacts
<1> HIDE DEF next, v
<1>4. IsChoice(choice') /\ choice'[id] = v /\ \A o \in Known : o # id => choice'[o] = choice[o]
  BY <1>1, <1>3 DEF IsChoice
<1>5. Obeys(panel, choice) => Obeys(next, choice')
  <2> SUFFICES ASSUME Obeys(panel, choice), NEW o \in Known
               PROVE  /\ choice'[o] = "on" => o \notin next.disabled
                      /\ choice'[o] = "off" => o \in next.disabled
    BY <1>2 DEF Obeys
  <2> QED
    BY <1>2, <1>4 DEF Obeys, v
<1>6. panel' = next
  BY <1>1 DEF Changed
<1> QED
  BY <1>1, <1>2, <1>4, <1>5, <1>6, ChangeHeeds

\* The orders the panel hands to handleReorder.
Reordered(ordered) ==
  \/ ordered = Reverse(panel.order)
  \/ ordered = Reverse(Once(panel.order, getEnabledPluginIds(panel)))

\* They hold shown providers only, each once if the settings do.
LEMMA ReorderedFacts ==
  ASSUME IsOrder(panel.order), NEW ordered, Reordered(ordered)
  PROVE  /\ ordered \in Seq(Range(panel.order))
         /\ IsInjective(panel.order) => IsInjective(ordered)
<1> DEFINE q == panel.order
           T == Range(q)
           S == getEnabledPluginIds(panel)
<1>1. q \in Seq(T)
  BY DEF IsOrder
<1> HIDE DEF T, q, S
<1>2. Once(q, S) \in Seq(T) /\ IsInjective(Once(q, S))
  BY <1>1, OnceFacts
<1>3. ordered = Reverse(q) \/ ordered = Reverse(Once(q, S))
  BY DEF Reordered, q, S
<1>4. /\ ordered \in Seq(T)
      /\ IsInjective(q) => IsInjective(ordered)
  <2> DEFINE o == Once(q, S)
  <2> HIDE DEF o
  <2>1. o \in Seq(T) /\ IsInjective(o)
    BY <1>2 DEF o
  <2>2. Reverse(o) \in Seq(T) /\ (IsInjective(o) => IsInjective(Reverse(o)))
    BY <2>1, ReverseFacts
  <2>3. Reverse(q) \in Seq(T) /\ (IsInjective(q) => IsInjective(Reverse(q)))
    BY <1>1, ReverseFacts
  <2> QED
    BY <1>3, <2>1, <2>2, <2>3 DEF o
<1> QED
  BY <1>4 DEF T, q

\* A reordering keeps every provider, and what is switched off.
LEMMA ReorderHeeds ==
  ASSUME HeedInv, NEW ordered, Reordered(ordered), handleReorder(ordered)
  PROVE  HeedInv'
<1> DEFINE m == Merged(panel.order, ordered)
           next == [panel EXCEPT !.order = m]
<1>1. MayChange /\ Changed(next) /\ choice' = choice
  BY DEF handleReorder
<1>2. IsSettings(panel) /\ IsOrder(panel.order)
  BY HeedFacts DEF IsSettings
<1>3. /\ IsOrder(m) /\ Range(m) = Range(panel.order)
      /\ IsInjective(panel.order) => IsInjective(m)
  <2> DEFINE q == panel.order
             T == Range(q)
  <2>1. q \in Seq(T) /\ ordered \in Seq(T) /\ (IsInjective(q) => IsInjective(ordered))
    BY <1>2, ReorderedFacts DEF IsOrder
  <2>2. Range(ordered) \subseteq T
    <3> HIDE DEF T
    <3> QED
      BY <2>1, OrderFacts
  <2> HIDE DEF q, T
  <2>3. /\ Merged(q, ordered) \in Seq(T)
        /\ Range(Merged(q, ordered)) = Range(ordered) \cup Range(q)
        /\ IsInjective(q) /\ IsInjective(ordered) => IsInjective(Merged(q, ordered))
    BY <2>1, MergedFacts
  <2>4. IsOrder(Merged(q, ordered))
    BY <2>3, OrderFacts
  <2> QED
    BY <2>1, <2>2, <2>3, <2>4 DEF q, T
<1> HIDE DEF m
<1>4. IsSettings(next) /\ next.disabled = panel.disabled /\ (Listing(panel) => Listing(next))
  BY <1>2, <1>3, SettingsFacts DEF Listing
<1>5. IsChoice(choice') /\ (Obeys(panel, choice) => Obeys(next, choice'))
  BY <1>1, <1>4, HeedFacts DEF Obeys
<1> HIDE DEF next
<1>6. panel' = next
  BY <1>1 DEF Changed
<1> QED
  BY <1>1, <1>4, <1>5, <1>6, ChangeHeeds

-----------------------------------------------------------------------------
\* The setup window.

\* A step of the setup window that leaves the settings alone.
LEMMA WindowHeeds ==
  ASSUME HeedInv, setup.at # "closed", UNCHANGED <<store, file, panel, boot, reload, choice>>,
         IsSetup(setup'), setup'.at \in {"merging", "finishing"},
         ~crossed' => ~crossed /\ boot.at = "done",
         setup'.at = "merging" =>
           setup'.seen = loadPluginSettings /\ setup'.keep \cap setup'.drop = {}
  PROVE  HeedInv'
<1>1. ProviderTypes'
  BY HeedFacts, Zenon DEF ProviderTypes
<1>2. Running /\ Running'
  BY WindowsRun, Zenon DEF Running
<1>3. ASSUME ~crossed' PROVE LoadingInv' /\ ShownInv'
  <2>1. ShownInv /\ boot.at = "done"
    BY <1>2, <1>3, HeedFacts, Zenon
  <2>2. loadPluginSettings' = loadPluginSettings
    BY LoadIsNext
  <2>3. reload.at = "none"
    BY <2>1 DEF ShownInv
  <2>4. ShownInv'
    BY <2>1, <2>2, <2>3 DEF ShownInv
  <2> QED
    BY <2>1, <2>4 DEF LoadingInv
<1> QED
  BY <1>1, <1>2, <1>3, HeedsIf

LEMMA PickProvidersHeeds == HeedInv /\ PickProviders => HeedInv'
<1> SUFFICES ASSUME HeedInv, PickProviders PROVE HeedInv'
  OBVIOUS
<1>1. /\ setup.at # "closed" /\ UNCHANGED <<store, file, panel, boot, reload, choice>>
      /\ crossed' = (crossed \/ boot.at # "done")
  BY DEF PickProviders, SetupWaits
<1>2. PICK keep, drop :
        /\ keep \cap drop = {}
        /\ \/ setup' = [NoSetup EXCEPT !.at = "finishing"]
           \/ setup' = [at |-> "merging", keep |-> keep, drop |-> drop, seen |-> loadPluginSettings]
  BY DEF PickProviders
<1>3. IsSettings(loadPluginSettings)
  BY HeedFacts, LoadIs
<1>4. /\ IsSetup(setup') /\ setup'.at \in {"merging", "finishing"}
      /\ setup'.at = "merging" =>
           setup'.seen = loadPluginSettings /\ setup'.keep \cap setup'.drop = {}
  <2>1. CASE setup' = [NoSetup EXCEPT !.at = "finishing"]
    BY <2>1, AtTypes, AtFacts
  <2>2. CASE setup' = [at |-> "merging", keep |-> keep, drop |-> drop, seen |-> loadPluginSettings]
    BY <1>2, <1>3, <2>2 DEF IsSetup
  <2> QED
    BY <1>2, <2>1, <2>2
<1>5. ~crossed' => ~crossed /\ boot.at = "done"
  BY <1>1, Zenon
<1> QED
  BY <1>1, <1>4, <1>5, WindowHeeds

LEMMA SkipSetupHeeds == HeedInv /\ SkipSetup => HeedInv'
<1> SUFFICES ASSUME HeedInv, SkipSetup PROVE HeedInv'
  OBVIOUS
<1>1. /\ setup.at # "closed" /\ UNCHANGED <<store, file, panel, boot, reload, choice>>
      /\ setup' = [NoSetup EXCEPT !.at = "finishing"]
  BY DEF SkipSetup, SetupWaits
<1>2. ~crossed' => ~crossed /\ boot.at = "done"
  BY Zenon DEF SkipSetup
<1>3. IsSetup(setup') /\ setup'.at = "finishing"
  BY <1>1, AtTypes, AtFacts
<1> QED
  BY <1>1, <1>2, <1>3, WindowHeeds

\* The selection of the setup window is laid on what it has seen of the
\* settings, which is what they still are if nobody crossed.
LEMMA SaveSelectionHeeds == HeedInv /\ SaveSelection => HeedInv'
<1> SUFFICES ASSUME HeedInv, SaveSelection PROVE HeedInv'
  OBVIOUS
<1> DEFINE next == mergeProviderSelection(setup.seen, setup.keep, setup.drop)
<1>1. /\ setup.at = "merging" /\ store' = [store EXCEPT !.plugins = next]
      /\ setup' = [NoSetup EXCEPT !.at = "finishing"]
      /\ choice' = [id \in Known |-> IF id \in setup.keep THEN "on"
                                     ELSE IF id \in setup.drop THEN "off" ELSE choice[id]]
      /\ UNCHANGED <<file, panel, boot, reload, crossed>>
  BY Zenon DEF SaveSelection
<1>2. IsSettings(setup.seen)
  BY HeedFacts DEF IsSetup
<1>3. /\ IsSettings(next) /\ next.disabled = (setup.seen.disabled \ setup.keep) \cup setup.drop
      /\ Listing(setup.seen) => Listing(next)
  BY <1>2, SettingsFacts DEF mergeProviderSelection
<1> HIDE DEF next
<1>4. IsFile(store') /\ store'.plugins = next
  BY <1>1, <1>3, HeedFacts, FileFacts
<1>5. IsChoice(choice')
  BY <1>1, HeedFacts DEF IsChoice
<1>6. IsSetup(setup') /\ setup'.at = "finishing"
  BY <1>1, AtTypes, AtFacts
<1>7. ProviderTypes'
  BY <1>1, <1>4, <1>5, <1>6, HeedFacts, Zenon DEF ProviderTypes
<1>8. Running /\ Running'
  <2>1. setup.at # "closed"
    BY <1>1
  <2> QED
    BY <1>1, <2>1, WindowsRun, Zenon DEF Running
<1>9. ASSUME ~crossed' PROVE LoadingInv' /\ ShownInv'
  <2>1. LoadingInv /\ ShownInv
    BY <1>1, <1>8, <1>9, HeedFacts, Zenon
  <2>2. boot.at = "done"
    BY <1>1, <2>1 DEF LoadingInv
  <2>3. /\ Listing(setup.seen) /\ Obeys(setup.seen, choice) /\ setup.keep \cap setup.drop = {}
        /\ reload.at = "none"
    BY <1>1, <2>1, <2>2 DEF ShownInv
  <2>4. Listing(next)
    BY <1>3, <2>3
  <2>5. Obeys(next, choice')
    BY <1>1, <1>3, <2>3 DEF Obeys
  <2>6. loadPluginSettings' = next
    BY <1>4, <2>4, LoadIs, LoadIsNext
  <2>7. ShownInv'
    BY <1>1, <1>6, <2>3, <2>4, <2>5, <2>6 DEF ShownInv
  <2>8. LoadingInv'
    BY <1>1, <2>2 DEF LoadingInv
  <2> QED
    BY <2>7, <2>8
<1> QED
  BY <1>7, <1>8, <1>9, HeedsIf

\* The end of the setup, heard or not by the panel.
LEMMA EndHeeds ==
  ASSUME HeedInv, setup.at = "finishing", UNCHANGED <<panel, boot, choice, crossed>>,
         store' = [store EXCEPT !.done = TRUE], file' = file \/ file' = store',
         \/ setup' = NoSetup /\ reload' = [NoReload EXCEPT !.at = "told"]
         \/ setup' = [NoSetup EXCEPT !.at = "failed"] /\ reload' = reload
  PROVE  HeedInv'
<1>1. IsFile(store') /\ store'.plugins = store.plugins /\ IsFile(file')
  BY HeedFacts, FileFacts
<1>2. IsSetup(setup') /\ IsReload(reload')
  BY AtTypes, HeedFacts
<1>3. ProviderTypes'
  BY <1>1, <1>2, HeedFacts, Zenon DEF ProviderTypes
<1>4. Running /\ Running'
  <2>1. setup.at # "closed"
    OBVIOUS
  <2> QED
    BY <2>1, WindowsRun, Zenon DEF Running
<1>5. ASSUME ~crossed' PROVE LoadingInv' /\ ShownInv'
  <2>1. LoadingInv /\ ShownInv
    BY <1>4, <1>5, HeedFacts, Zenon
  <2>2. boot.at = "done"
    BY <2>1 DEF LoadingInv
  <2>3. Listing(loadPluginSettings) /\ Obeys(loadPluginSettings, choice) /\ reload.at = "none"
    BY <2>1, <2>2 DEF ShownInv
  <2>4. loadPluginSettings' = loadPluginSettings
    BY <1>1, LoadIsNext
  <2>5. \/ setup'.at = "closed" /\ reload'.at = "told"
        \/ setup'.at = "failed" /\ reload'.at = "none"
    BY <2>3, AtFacts
  <2>6. ShownInv'
    BY <2>2, <2>3, <2>4, <2>5 DEF ShownInv
  <2> QED
    BY <2>2, <2>6 DEF LoadingInv
<1> QED
  BY <1>3, <1>4, <1>5, HeedsIf

LEMMA FinishHeeds == HeedInv /\ (finish_onboarding \/ FinishFails) => HeedInv'
<1> SUFFICES ASSUME HeedInv, finish_onboarding \/ FinishFails PROVE HeedInv'
  OBVIOUS
<1>1. CASE finish_onboarding
  BY <1>1, EndHeeds, Zenon DEF finish_onboarding
<1>2. CASE FinishFails
  BY <1>2, EndHeeds, Zenon DEF FinishFails
<1> QED
  BY <1>1, <1>2

LEMMA ReadReloadHeeds == HeedInv /\ ReadReload => HeedInv'
<1> SUFFICES ASSUME HeedInv, ReadReload PROVE HeedInv'
  OBVIOUS
<1>1. /\ reload.at = "told" /\ reload' = [at |-> "read", next |-> loadPluginSettings]
      /\ UNCHANGED <<store, file, panel, boot, setup, choice, crossed>>
  BY Zenon DEF ReadReload
<1>2. IsReload(reload') /\ reload'.at = "read" /\ reload'.next = loadPluginSettings
  <2>1. IsSettings(loadPluginSettings)
    BY HeedFacts, LoadIs
  <2> QED
    BY <1>1, <2>1 DEF IsReload
<1>3. ProviderTypes'
  BY <1>1, <1>2, HeedFacts, Zenon DEF ProviderTypes
<1>4. Running /\ Running'
  <2>1. reload.at # "none"
    BY <1>1
  <2> QED
    BY <1>1, <2>1, WindowsRun, Zenon DEF Running
<1>5. ASSUME ~crossed' PROVE LoadingInv' /\ ShownInv'
  <2>1. LoadingInv /\ ShownInv
    BY <1>1, <1>4, <1>5, HeedFacts, Zenon
  <2>2. boot.at = "done"
    BY <1>1, <2>1 DEF LoadingInv
  <2>3. loadPluginSettings' = loadPluginSettings
    BY <1>1, LoadIsNext
  <2>4. ShownInv'
    BY <1>1, <1>2, <2>1, <2>2, <2>3 DEF ShownInv
  <2>5. LoadingInv'
    BY <1>1, <2>2 DEF LoadingInv
  <2> QED
    BY <2>4, <2>5
<1> QED
  BY <1>3, <1>4, <1>5, HeedsIf

\* The panel shows what it has read, which the closed window no longer changes.
LEMMA ApplyReloadHeeds == HeedInv /\ ApplyReload => HeedInv'
<1> SUFFICES ASSUME HeedInv, ApplyReload PROVE HeedInv'
  OBVIOUS
<1>1. /\ reload.at = "read" /\ panel' = reload.next /\ reload' = NoReload
      /\ UNCHANGED <<store, file, boot, setup, choice, crossed>>
  BY Zenon DEF ApplyReload
<1>2. IsReload(reload') /\ reload'.at = "none" /\ IsSettings(panel')
  BY <1>1, AtTypes, AtFacts, HeedFacts DEF IsReload
<1>3. ProviderTypes'
  BY <1>1, <1>2, HeedFacts, Zenon DEF ProviderTypes
<1>4. Running /\ Running'
  <2>1. reload.at # "none"
    BY <1>1
  <2> QED
    BY <1>1, <2>1, WindowsRun, Zenon DEF Running
<1>5. ASSUME ~crossed' PROVE LoadingInv' /\ ShownInv'
  <2>1. LoadingInv /\ ShownInv
    BY <1>1, <1>4, <1>5, HeedFacts, Zenon
  <2>2. boot.at = "done"
    BY <1>1, <2>1 DEF LoadingInv
  <2>3. loadPluginSettings' = loadPluginSettings
    BY <1>1, LoadIsNext
  <2>4. reload.next = loadPluginSettings /\ setup.at = "closed"
    BY <1>1, <2>1, <2>2 DEF ShownInv
  <2>5. ShownInv'
    BY <1>1, <1>2, <2>1, <2>2, <2>3, <2>4 DEF ShownInv
  <2>6. LoadingInv'
    BY <1>1, <2>2 DEF LoadingInv
  <2> QED
    BY <2>5, <2>6
<1> QED
  BY <1>3, <1>4, <1>5, HeedsIf

LEMMA ResetHeeds == HeedInv /\ (reset_onboarding \/ ResetFails) => HeedInv'
<1> SUFFICES ASSUME HeedInv, reset_onboarding \/ ResetFails PROVE HeedInv'
  OBVIOUS
<1>1. /\ boot.at = "done" /\ store' = [store EXCEPT !.done = FALSE]
      /\ file' = store' \/ file' = file
      /\ UNCHANGED <<panel, boot, reload, setup, choice, crossed>>
  BY Zenon DEF reset_onboarding, ResetFails
<1>2. IsFile(store') /\ store'.plugins = store.plugins /\ IsFile(file')
  BY <1>1, HeedFacts, FileFacts
<1>3. Running
  BY <1>1 DEF Running
<1> QED
  BY <1>1, <1>2, <1>3, StillHeeds

LEMMA StutterHeeds == HeedInv /\ UNCHANGED providerVars => HeedInv'
<1> SUFFICES ASSUME HeedInv, UNCHANGED providerVars PROVE HeedInv'
  OBVIOUS
<1>1. UNCHANGED <<store, file, panel, boot, reload, setup, choice, crossed>>
  BY Zenon DEF providerVars
<1>2. CASE Running
  BY <1>1, <1>2, HeedFacts, StillHeeds
<1>3. CASE ~Running
  <2>1. ProviderTypes'
    BY <1>1, HeedFacts, Zenon DEF ProviderTypes
  <2>2. ~Running'
    BY <1>1, <1>3, Zenon DEF Running
  <2>3. StoppedInv'
    BY <1>1, <1>3, Zenon DEF HeedInv, StoppedInv, Backed, Running
  <2> QED
    BY <2>1, <2>2, <2>3, Zenon DEF HeedInv
<1> QED
  BY <1>2, <1>3

\* Every step keeps the invariant.
LEMMA ProvidersHeed == ProviderSpec => []HeedInv
<1>1. HeedInv /\ [ProviderNext]_providerVars => HeedInv'
  <2> SUFFICES ASSUME HeedInv, [ProviderNext]_providerVars PROVE HeedInv'
    OBVIOUS
  <2>1. CASE \E id \in Known : handleToggle(id)
    BY <2>1, ToggleHeeds
  <2>2. CASE \E ordered \in {Reverse(panel.order),
                             Reverse(Once(panel.order, getEnabledPluginIds(panel)))} :
               handleReorder(ordered)
    <3>1. PICK ordered : Reordered(ordered) /\ handleReorder(ordered)
      BY <2>2, Zenon DEF Reordered
    <3> QED
      BY <3>1, ReorderHeeds
  <2> QED
    BY <2>1, <2>2, LaunchHeeds, SaveHeeds, ExitHeeds, LoadPluginsHeeds, SaveNormalizedHeeds,
       ShowSettingsHeeds, PickProvidersHeeds, SaveSelectionHeeds, SkipSetupHeeds, FinishHeeds,
       ReadReloadHeeds, ApplyReloadHeeds, ResetHeeds, StutterHeeds, Zenon DEF ProviderNext
<1> QED
  BY <1>1, InitHeeds, PTL DEF ProviderSpec

\* A list without repetition is as long as what it holds is large.
LEMMA OrderLength ==
  ASSUME NEW q, IsOrder(q), IsInjective(q)
  PROVE  Len(q) = Cardinality(Range(q))
<1> DEFINE S == Range(q)
           n == Len(q)
<1>1. n \in Nat /\ DOMAIN q = 1 .. n /\ q \in [1 .. n -> S]
  BY DEF IsOrder
<1>2. \A x \in S : \E i \in 1 .. n : q[i] = x
  BY <1>1 DEF Range
<1>3. q \in Bijection(1 .. n, S)
  <2> HIDE DEF n, S
  <2> QED
    BY <1>1, <1>2 DEF Bijection, Injection, Surjection, IsInjective
<1>4. ExistsBijection(1 .. n, S)
  <2> HIDE DEF n, S
  <2> QED
    BY <1>3 DEF ExistsBijection
<1>5. Cardinality(S) = n
  <2> HIDE DEF n, S
  <2> QED
    BY <1>1, <1>4, FS_CountingElements
<1> QED
  BY <1>5

\* Whatever the user chose last for a provider, in the panel or in the setup
\* window, is what the panel shows once nothing is under way and nobody has
\* crossed another's change, and the panel shows what is stored, with every
\* known provider in its order once: for any list of providers, any detected
\* ones, any settings that earlier versions left, any number of launches, a
\* crash within any save, and a setup run again.
THEOREM ChoicesAreKept == ProviderSpec => []ChoiceIsKept
<1>1. HeedInv => ChoiceIsKept
  <2> SUFFICES ASSUME HeedInv, AtRest PROVE /\ panel = loadPluginSettings
                                            /\ Range(panel.order) = Known
                                            /\ Len(panel.order) = Cardinality(Known)
                                            /\ \A id \in Known :
                                                 choice[id] # "none" =>
                                                   (choice[id] = "on" <=> id \in getEnabledPluginIds(panel))
    BY Zenon DEF ChoiceIsKept
  <2>1. boot.at = "done" /\ setup.at \in {"closed", "steps"} /\ reload.at = "none"
    BY Zenon DEF AtRest
  <2>2. Running
    BY <2>1 DEF Running
  <2>3. ShownInv
    BY <2>2, HeedFacts, Zenon DEF AtRest
  <2>4. panel = loadPluginSettings /\ Listing(panel) /\ Obeys(panel, choice)
    BY <2>1, <2>3 DEF ShownInv
  <2>5. Range(panel.order) = Known /\ Len(panel.order) = Cardinality(Known)
    BY <2>4, OrderLength DEF Listing, IsSettings
  <2>6. ASSUME NEW id \in Known, choice[id] # "none"
        PROVE  choice[id] = "on" <=> id \in getEnabledPluginIds(panel)
    <3>1. choice[id] \in {"on", "off"}
      BY <2>6, HeedFacts DEF IsChoice
    <3>2. choice[id] = "on" => id \notin panel.disabled
      BY <2>4 DEF Obeys
    <3>3. choice[id] = "off" => id \in panel.disabled
      BY <2>4 DEF Obeys
    <3> QED
      BY <2>5, <3>1, <3>2, <3>3 DEF getEnabledPluginIds
  <2> QED
    BY <2>4, <2>5, <2>6
<1> QED
  BY <1>1, ProvidersHeed, PTL

-----------------------------------------------------------------------------
(***************************************************************************)
(* Preferences.  A choice travels from the store to what the load has got, *)
(* or to a reply, and from there to what is shown; the parts of the        *)
(* invariant say that each of these is the choice, for every key that      *)
(* nothing has disturbed, and what the file would tell of the key of an    *)
(* older version until the migration is past.                              *)
(***************************************************************************)
PrefTypes ==
    /\ DOMAIN prefs = Key \cup {Legacy} /\ DOMAIN saved = Key \cup {Legacy}
    /\ \A k \in Key : prefs[k] \in Valid(k) \cup {Absent, Foreign}
    /\ \A k \in Key : saved[k] \in Valid(k) \cup {Absent, Foreign}
    /\ DOMAIN shown = Key /\ \A k \in Key : shown[k] \in Valid(k)
    /\ DOMAIN want = Key
    /\ load = [at |-> load.at, got |-> load.got] /\ load.at \in 0 .. Len(LoadOrder) + 2
    /\ DOMAIN load.got = Key /\ \A k \in Key : load.got[k] \in Valid(k)
    /\ \A r \in reads : r.key \in Whole \cup View /\ r.value \in Valid(r.key)
    /\ hydrated \subseteq Whole

\* The load is past a step.
Past(step) == \E i \in DOMAIN LoadOrder : i < load.at /\ LoadOrder[i] = step

\* The store holds what the user wants, except for a record in disturbance.
StoreInv ==
    /\ \A k \in Key : k \notin Whole \/ k \in Undisturbed => Told(prefs)[k] = want[k]
    /\ ~PanelRuns => prefs = saved /\ want = Told(saved)
    /\ Past(Migrate) /\ Style \in Undisturbed => Told(prefs)[Style] = Read(Style, prefs)

\* What was read at launch, and what is shown of it.
LaunchInv ==
    \A k \in Launched \cap Undisturbed :
        /\ ~Loaded /\ Past(k) => load.got[k] = want[k]
        /\ Loaded => shown[k] = want[k]

\* What is read later, and what is shown of it.
RepliesInv ==
    /\ \A r \in reads : r.key \in Undisturbed => r.value = want[r.key]
    /\ StripReads # {} => \A k \in View : \E r \in StripReads : r.key = k
    /\ \A k \in Undisturbed : k \in hydrated => shown[k] = want[k]
    /\ PanelRuns /\ StripReads = {} => \A k \in View \cap Undisturbed : shown[k] = want[k]

\* A synchronization under way is the only one.
LoginInv ==
    Login \in Undisturbed =>
        /\ syncs # {} => Loaded /\ syncs = {[value |-> want[Login], was |-> loginItem]}
        /\ syncs = {} /\ Past(Sync) => loginItem = want[Login]

WindowInv == window # "closed" => PanelRuns

PrefInv == PrefTypes /\ StoreInv /\ LaunchInv /\ RepliesInv /\ LoginInv /\ WindowInv

LEMMA PrefConstants ==
    /\ DOMAIN LoadOrder = 1 .. Len(LoadOrder) /\ Len(LoadOrder) \in Nat
    /\ Login \in Launched /\ Style \in Launched
    /\ Login \in Key /\ Style \in Key /\ Legacy \notin Key /\ "setup" \notin Key
    /\ Launched \cap (Whole \cup View) = {} /\ Whole \cap View = {}
    /\ Alerts \in Key => Alerts \in Whole
    /\ Login # Style /\ Alerts \notin {Login, Style}
    /\ Key = Launched \cup Whole \cup View
<1>1. /\ LoadOrder \in Seq(STRING) /\ {Login, Style} \subseteq Launched
      /\ Whole \subseteq {Alerts, "shareSettings"}
      /\ View \subseteq {"overviewGraphStyle", "overviewGraphGroupBy", "overviewStripMetric"}
      /\ Launched \cap (Whole \cup View \cup {Alerts, Legacy, "setup"}) = {}
    BY PrefAssumption, Zenon DEF PrefAssumption
<1>2. DOMAIN LoadOrder = 1 .. Len(LoadOrder) /\ Len(LoadOrder) \in Nat
    BY <1>1
<1> HIDE DEF Launched
<1> QED
    BY <1>1, <1>2 DEF Key, Login, Style, Legacy, Alerts

\* The steps of the load and their order.
LEMMA PrefOrder ==
    /\ \A j \in DOMAIN LoadOrder :
           LoadOrder[j] = Sync => \E i \in DOMAIN LoadOrder : i < j /\ LoadOrder[i] = Login
    /\ \A j \in DOMAIN LoadOrder :
           LoadOrder[j] = Style => \E i \in DOMAIN LoadOrder : i < j /\ LoadOrder[i] = Migrate
    /\ \E i \in DOMAIN LoadOrder : LoadOrder[i] = Sync
    /\ \A k \in Launched : \E i \in DOMAIN LoadOrder : LoadOrder[i] = k
<1>1. /\ Precedes(Login, Sync) /\ Precedes(Migrate, Style)
      /\ \E i \in DOMAIN LoadOrder : LoadOrder[i] = Sync
    BY PrefAssumption, Zenon DEF PrefAssumption
<1>2. \A a, b : Precedes(a, b) => \A j \in DOMAIN LoadOrder : LoadOrder[j] = b =>
                    \E i \in DOMAIN LoadOrder : i < j /\ LoadOrder[i] = a
    BY PrefConstants DEF Precedes
<1> QED
    BY <1>1, <1>2, Zenon DEF Launched

LEMMA ValidFacts ==
    /\ \A k \in Key : Default(k) \in Valid(k) /\ Absent \notin Valid(k) /\ Foreign \notin Valid(k)
    /\ Valid(Login) = BOOLEAN
    /\ {"bars", "donut", "multi"} \subseteq Valid(Style)
    /\ Valid("multiTrayProviderCount") = {2, 3, 4}
    /\ \A k \in Whole : Valid(k) = SUBSET Field
    /\ Absent \notin {"bars", "circle", "donut"}
<1>1. /\ \A k \in Key : Default(k) \in Valid(k) /\ \A v \in Valid(k) : v \notin {Absent, Foreign}
      /\ Absent \notin {"bars", "circle"}
      /\ Whole \subseteq {Alerts, "shareSettings"}
    BY PrefAssumption, Zenon DEF PrefAssumption
<1>2. \A k \in Key : Absent \notin Valid(k) /\ Foreign \notin Valid(k)
    BY <1>1, Zenon
<1>3. /\ Valid(Login) = BOOLEAN
      /\ Valid(Style) = {"provider", "donut", "bars", "multi"}
      /\ Valid("multiTrayProviderCount") = {2, 3, 4}
    <2>1. {Login, Style, "multiTrayProviderCount"} \cap Whole = {}
        BY <1>1 DEF Login, Style, Alerts
    <2>2. Valid(Login) = BOOLEAN
        BY <2>1 DEF Valid, Login, Style
    <2>3. Valid(Style) = {"provider", "donut", "bars", "multi"}
        BY <2>1 DEF Valid, Login, Style
    <2>4. Valid("multiTrayProviderCount") = {2, 3, 4}
        BY <2>1 DEF Valid, Login, Style
    <2> QED  BY <2>2, <2>3, <2>4
<1>4. \A k \in Whole : Valid(k) = SUBSET Field
    <2> SUFFICES ASSUME NEW k \in Whole PROVE Valid(k) = SUBSET Field
        OBVIOUS
    <2>1. k \in {Alerts, "shareSettings"}
        BY <1>1
    <2> QED
        BY <2>1 DEF Valid, Alerts, Style, Login
<1>5. "donut" \in Valid(Style)
    BY <1>3
<1>6. Absent # "donut"
    BY <1>2, <1>5, PrefConstants, Zenon
<1> QED
    BY <1>1, <1>2, <1>3, <1>4, <1>6

LEMMA ReadValid ==
    ASSUME NEW k \in Key, NEW f
    PROVE  /\ f[k] \in Valid(k) => Read(k, f) = f[k]
           /\ f[k] \in Valid(k) \cup {Absent, Foreign} => Read(k, f) \in Valid(k)
    BY ValidFacts DEF Read

\* What the file tells of a key is what would be read of it, but for the style
\* that is only stored under the older key.
LEMMA ToldIs ==
    ASSUME NEW f, DOMAIN f = Key \cup {Legacy}, NEW k \in Key
    PROVE  /\ k # Style \/ f[Style] # Absent \/ LegacyStyle(f[Legacy]) = Absent
                => Told(f)[k] = Read(k, f)
           /\ k = Style /\ f[Style] = Absent /\ LegacyStyle(f[Legacy]) # Absent
                => Told(f)[k] = LegacyStyle(f[Legacy])
<1>1. LegacyStyle(f[Legacy]) \in {"bars", "donut", Absent}
    BY DEF LegacyStyle
<1>2. Style \in DOMAIN f
    BY PrefConstants
<1>3. Told(f)[k] = IF k = Style /\ f[Style] = Absent
                   THEN Read(k, [f EXCEPT ![Style] = LegacyStyle(f[Legacy])]) ELSE Read(k, f)
    BY DEF Told
<1> HIDE DEF Style
<1>4. k = Style => Read(k, [f EXCEPT ![Style] = LegacyStyle(f[Legacy])])
                     = IF LegacyStyle(f[Legacy]) \in {Absent, Foreign} THEN Default(Style)
                       ELSE LegacyStyle(f[Legacy])
    BY <1>2 DEF Read
<1>5. LegacyStyle(f[Legacy]) # Absent => LegacyStyle(f[Legacy]) \notin {Absent, Foreign}
    BY <1>1, ValidFacts, PrefConstants
<1> QED
    BY <1>3, <1>4, <1>5 DEF Read

\* A store that differs from another in one key.
IsSet(g, f, k, v) ==
    /\ DOMAIN f = Key \cup {Legacy} /\ DOMAIN g = Key \cup {Legacy}
    /\ g[k] = v /\ \A j \in Key \cup {Legacy} : j # k => g[j] = f[j]

LEMMA ToldSet ==
    ASSUME NEW f, NEW g, NEW k \in Key, NEW v \in Valid(k), IsSet(g, f, k, v)
    PROVE  /\ Told(g)[k] = v /\ Read(k, g) = v
           /\ \A j \in Key : j # k => Read(j, g) = Read(j, f) /\ Told(g)[j] = Told(f)[j]
<1>i. /\ DOMAIN f = Key \cup {Legacy} /\ DOMAIN g = Key \cup {Legacy} /\ g[k] = v
      /\ \A j \in Key \cup {Legacy} : j # k => g[j] = f[j]
    BY DEF IsSet
<1>1. g[Legacy] = f[Legacy]
    BY <1>i, PrefConstants
<1>2. \A j \in Key : j # k => g[j] = f[j] /\ Read(j, g) = Read(j, f)
    BY <1>i DEF Read
<1>3. v \notin {Absent, Foreign}
    BY ValidFacts
<1>4. Read(k, g) = v
    BY <1>i, <1>1, <1>3 DEF Read
<1>5. Told(g)[k] = v
    BY <1>i, <1>1, <1>3, <1>4, ToldIs
<1>6. \A j \in Key : j # k => Told(g)[j] = Told(f)[j]
    <2> SUFFICES ASSUME NEW j \in Key, j # k PROVE Told(g)[j] = Told(f)[j]
        OBVIOUS
    <2>1. j = Style => g[Style] = f[Style]
        BY <1>2
    <2> QED
        <3>1. /\ j # Style \/ f[Style] # Absent \/ LegacyStyle(f[Legacy]) = Absent
                    => Told(f)[j] = Read(j, f)
              /\ j = Style /\ f[Style] = Absent /\ LegacyStyle(f[Legacy]) # Absent
                    => Told(f)[j] = LegacyStyle(f[Legacy])
            BY <1>i, ToldIs, Zenon
        <3>2. /\ j # Style \/ g[Style] # Absent \/ LegacyStyle(g[Legacy]) = Absent
                    => Told(g)[j] = Read(j, g)
              /\ j = Style /\ g[Style] = Absent /\ LegacyStyle(g[Legacy]) # Absent
                    => Told(g)[j] = LegacyStyle(g[Legacy])
            BY <1>i, <1>1, ToldIs, Zenon
        <3>3. g[Legacy] = f[Legacy] /\ Read(j, g) = Read(j, f)
            BY <1>1, <1>2
        <3> QED
            BY <2>1, <3>1, <3>2, <3>3, Zenon
<1> QED
    BY <1>1, <1>2, <1>4, <1>5, <1>6

\* Keys are only taken out of disturbance by a change that nothing crosses.
LEMMA UndisturbedFacts ==
    /\ \A k : k \in Undisturbed <=>
                k \in Key /\ k \notin stale /\ (k = Alerts => "setup" \notin stale)
    /\ \A k : k \in Undisturbed' <=>
                k \in Key /\ k \notin stale' /\ (k = Alerts => "setup" \notin stale')
    /\ stale \subseteq stale' => Undisturbed' \subseteq Undisturbed
<1>1. \A k : k \in Undisturbed <=>
                k \in Key /\ k \notin stale /\ (k = Alerts => "setup" \notin stale)
    BY DEF Undisturbed
<1>2. \A k : k \in Undisturbed' <=>
                k \in Key /\ k \notin stale' /\ (k = Alerts => "setup" \notin stale')
    BY DEF Undisturbed
<1> QED
    BY <1>1, <1>2

\* A change by the user in the panel: v is shown and stored, w is wanted.  The
\* two differ only in a record that is in disturbance.
Change(k, v, w) ==
    /\ Set(k, v) /\ want' = [want EXCEPT ![k] = w]
    /\ k \notin Whole => w = v
    /\ k \in Undisturbed' => ~Early(k) /\ w = v
    /\ Undisturbed' \subseteq Undisturbed \cup {k}
    /\ k # Login => UNCHANGED <<loginItem, syncs>>
    /\ k = Login => /\ UNCHANGED loginItem
                    /\ k \in Undisturbed' => syncs' = {[value |-> v, was |-> loginItem]}

SomeChange == \E k \in Key : \E v \in Valid(k) : \E w : Change(k, v, w)

PanelChange ==
    \/ \E k \in Launched : handleChange(k)
    \/ handleMultiMenubarClick
    \/ \E k \in Whole, f \in Field : setToggle(k, f)
    \/ \E k \in View : toggleStrip(k)
    \/ handleStartOnLoginChange

LEMMA ChangeFacts ==
    ASSUME PrefTypes, RepliesInv, PanelChange
    PROVE  SomeChange
<1>1. ASSUME NEW k \in Key, k # Login, k \notin Whole, NEW v \in Valid(k), SetAlone(k, v)
      PROVE  SomeChange
    <2>1. /\ Set(k, v) /\ want' = [want EXCEPT ![k] = v]
          /\ stale' = IF Early(k) THEN stale \cup {k} ELSE stale \ {k}
          /\ UNCHANGED <<loginItem, syncs>>
        BY <1>1, Zenon DEF SetAlone
    <2>2. k # "setup"
        BY PrefConstants
    <2>3. (k \in Undisturbed' => ~Early(k)) /\ Undisturbed' \subseteq Undisturbed \cup {k}
        BY <2>1, <2>2, UndisturbedFacts
    <2> QED
        BY <1>1, <2>1, <2>3, Zenon DEF SomeChange, Change
<1>2. ASSUME NEW k \in Launched, handleChange(k) PROVE SomeChange
    <2>1. k \in Key /\ k # Login /\ k \notin Whole
        BY <1>2, PrefConstants DEF handleChange
    <2> QED
        BY <1>1, <1>2, <2>1, Zenon DEF handleChange
<1>3. CASE handleMultiMenubarClick
    <2>1. Style \in Key /\ Style # Login /\ Style \notin Whole
        BY PrefConstants
    <2>2. /\ "multiTrayProviderCount" \in Launched /\ "multiTrayProviderCount" \in Key
          /\ "multiTrayProviderCount" # Login /\ "multiTrayProviderCount" \notin Whole
        BY <1>3, PrefConstants DEF handleMultiMenubarClick, Login
    <2>3. shown["multiTrayProviderCount"] \in {2, 3, 4}
        BY <2>2, ValidFacts DEF PrefTypes
    <2>4. (IF shown["multiTrayProviderCount"] = 4 THEN 2 ELSE shown["multiTrayProviderCount"] + 1)
            \in Valid("multiTrayProviderCount")
        BY <2>3, ValidFacts
    <2>5. "multi" \in Valid(Style)
        BY ValidFacts
    <2> QED
        BY <1>1, <1>3, <2>1, <2>2, <2>4, <2>5, Zenon DEF handleMultiMenubarClick
<1>4. ASSUME NEW k \in Whole, NEW f \in Field, setToggle(k, f) PROVE SomeChange
    <2>1. k \in Key /\ k # Login /\ shown[k] \in SUBSET Field /\ Valid(k) = SUBSET Field
        BY PrefConstants, ValidFacts DEF PrefTypes
    <2>2. PICK v \in Valid(k) : \E w :
              /\ Set(k, v) /\ want' = [want EXCEPT ![k] = w]
              /\ want[k] = shown[k] => w = v
        <3>1. CASE f \in shown[k]
            <4>1. /\ Set(k, shown[k] \ {f}) /\ want' = [want EXCEPT ![k] = want[k] \ {f}]
                  /\ shown[k] \ {f} \in Valid(k)
                BY <1>4, <2>1, <3>1 DEF setToggle
            <4> QED
                BY <4>1, Zenon
        <3>2. CASE f \notin shown[k]
            <4>1. /\ Set(k, shown[k] \cup {f}) /\ want' = [want EXCEPT ![k] = want[k] \cup {f}]
                  /\ shown[k] \cup {f} \in Valid(k)
                BY <1>4, <2>1, <3>2 DEF setToggle
            <4> QED
                BY <4>1, Zenon
        <3> QED
            BY <3>1, <3>2
    <2>3. PICK w : /\ Set(k, v) /\ want' = [want EXCEPT ![k] = w]
                   /\ want[k] = shown[k] => w = v
        BY <2>2
    <2>4. stale' = (IF Early(k) THEN stale \cup {k} ELSE stale) /\ UNCHANGED <<loginItem, syncs>>
        BY <1>4, Zenon DEF setToggle
    <2>5. /\ k \in Undisturbed' => ~Early(k) /\ k \in Undisturbed
          /\ Undisturbed' \subseteq Undisturbed
        BY <2>4, UndisturbedFacts
    <2>6. k \in Undisturbed' => want[k] = shown[k]
        BY <2>5 DEF Early, RepliesInv
    <2> QED
        BY <2>1, <2>3, <2>4, <2>5, <2>6, Zenon DEF SomeChange, Change
<1>5. ASSUME NEW k \in View, toggleStrip(k) PROVE SomeChange
    <2>1. k \in Key /\ k # Login /\ k \notin Whole
        BY PrefConstants
    <2> QED
        BY <1>1, <1>5, <2>1, Zenon DEF toggleStrip
<1>6. CASE handleStartOnLoginChange
    <2>1. Login \in Key /\ Login \notin Whole /\ Login # "setup" /\ Login # Alerts
        BY PrefConstants
    <2>2. (~shown[Login]) \in Valid(Login)
        <3>1. (~shown[Login]) \in BOOLEAN
            BY Zenon
        <3> QED
            BY <3>1, ValidFacts
    <2>3. /\ Set(Login, ~shown[Login]) /\ want' = [want EXCEPT ![Login] = ~shown[Login]]
          /\ syncs' = syncs \cup {[value |-> ~shown[Login], was |-> loginItem]}
          /\ stale' = IF Early(Login) \/ syncs # {} THEN stale \cup {Login} ELSE stale \ {Login}
          /\ UNCHANGED loginItem
        BY <1>6, Zenon DEF handleStartOnLoginChange
    <2>4. /\ Login \in Undisturbed' => ~Early(Login) /\ syncs = {}
          /\ Undisturbed' \subseteq Undisturbed \cup {Login}
        BY <2>1, <2>3, UndisturbedFacts
    <2>5. Login \in Undisturbed' => syncs' = {[value |-> ~shown[Login], was |-> loginItem]}
        BY <2>3, <2>4, Zenon
    <2> QED
        BY <2>1, <2>2, <2>3, <2>4, <2>5, Zenon DEF SomeChange, Change
<1> QED
    BY <1>2, <1>3, <1>4, <1>5, <1>6, Zenon DEF PanelChange

\* A change of a key that is legal for it.
LEMMA SetTypes ==
    ASSUME PrefTypes, NEW k \in Key, NEW v \in Valid(k), Set(k, v),
           NEW w, want' = [want EXCEPT ![k] = w]
    PROVE  PrefTypes'
<1>1. /\ shown' = [shown EXCEPT ![k] = v] /\ prefs' = [prefs EXCEPT ![k] = v]
      /\ UNCHANGED <<saved, load, reads, hydrated>>
    BY DEF Set
<1> QED
    BY <1>1 DEF PrefTypes

LEMMA PrefTypesInit == PrefInit => PrefTypes
<1> SUFFICES ASSUME PrefInit PROVE PrefTypes
    OBVIOUS
<1>1. PICK s \in EarlierStyles : saved = [Nothing EXCEPT ![Legacy] = s.legacy, ![Style] = s.style]
    BY DEF PrefInit
<1>2. s.style \in Valid(Style) \cup {Absent, Foreign}
    BY PrefAssumption, Zenon DEF PrefAssumption
<1>3. DOMAIN saved = Key \cup {Legacy} /\ \A k \in Key : saved[k] \in Valid(k) \cup {Absent, Foreign}
    BY <1>1, <1>2, PrefConstants DEF Nothing
<1>4. prefs = saved /\ want = Told(saved) /\ shown = Defaults /\ load = NotLoading
      /\ reads = {} /\ hydrated = {}
    BY DEF PrefInit
<1>5. DOMAIN Told(saved) = Key
    BY DEF Told
<1>6. DOMAIN Defaults = Key /\ \A k \in Key : Defaults[k] \in Valid(k)
    BY ValidFacts DEF Defaults
<1> HIDE DEF Defaults
<1>7. load.at = 0 /\ load.got = Defaults /\ load = [at |-> load.at, got |-> load.got]
    BY <1>4 DEF NotLoading
<1> QED
    BY <1>3, <1>4, <1>5, <1>6, <1>7, PrefConstants DEF PrefTypes

LEMMA StepTypes ==
    ASSUME PrefTypes, load' = NextStep, load.at \in 1 .. Len(LoadOrder)
    PROVE  /\ load'.at = load.at + 1 /\ load'.got = load.got
           /\ load' = [at |-> load'.at, got |-> load'.got]
           /\ load'.at \in 0 .. Len(LoadOrder) + 2
    BY PrefConstants DEF PrefTypes, NextStep

LEMMA PrefTypesNext ==
    ASSUME PrefTypes, RepliesInv, [PrefNext]_prefVars
    PROVE  PrefTypes'
<1>d. DOMAIN Defaults = Key /\ \A k \in Key : Defaults[k] \in Valid(k)
    BY ValidFacts DEF Defaults
<1>n. /\ DOMAIN Nothing = Key \cup {Legacy}
      /\ \A k \in Key : Nothing[k] \in Valid(k) \cup {Absent, Foreign}
    BY DEF Nothing
<1> USE DEF PrefTypes
<1>1. CASE StartPanel
    <2>1. load' = [NotLoading EXCEPT !.at = 1]
        BY <1>1 DEF StartPanel
    <2>2. load'.at = 1 /\ load'.got = Defaults /\ load' = [at |-> load'.at, got |-> load'.got]
        BY <2>1 DEF NotLoading
    <2> QED
        BY <1>1, <1>d, <2>2, PrefConstants DEF StartPanel
<1>2. CASE SavePrefs
    BY <1>2 DEF SavePrefs
<1>3. CASE Quit
    <2>1. load' = NotLoading /\ saved' \in {saved, Nothing} /\ prefs' = saved' /\ want' = Told(saved')
        BY <1>3 DEF Quit
    <2>2. load'.at = 0 /\ load'.got = Defaults /\ load' = [at |-> load'.at, got |-> load'.got]
        BY <2>1 DEF NotLoading
    <2>3. DOMAIN want' = Key
        BY <2>1 DEF Told
    <2>4. /\ DOMAIN saved' = Key \cup {Legacy}
          /\ \A k \in Key : saved'[k] \in Valid(k) \cup {Absent, Foreign}
        BY <2>1, <1>n
    <2>5. shown' = Defaults /\ hydrated' = {} /\ reads' = {}
        BY <1>3 DEF Quit
    <2> QED
        BY <1>d, <2>1, <2>2, <2>3, <2>4, <2>5, PrefConstants
<1>4. ASSUME NEW k \in Launched, LoadNext(k) PROVE PrefTypes'
    <2>1. k \in Key /\ load.at \in 1 .. Len(LoadOrder)
        BY <1>4 DEF Key, LoadNext, AtStep
    <2>2. Read(k, prefs) \in Valid(k)
        BY <2>1, ReadValid
    <2>3. UNCHANGED <<prefs, saved, shown, reads, hydrated, want>>
        BY <1>4 DEF LoadNext
    <2>4. CASE load' = NextStep
        BY <2>1, <2>3, <2>4, StepTypes
    <2>5. CASE load' = [NextStep EXCEPT !.got[k] = Read(k, prefs)]
        <3>1. load' = [at |-> load.at + 1, got |-> [load.got EXCEPT ![k] = Read(k, prefs)]]
            BY <2>5 DEF NextStep
        <3>2. load'.at = load.at + 1 /\ load'.got = [load.got EXCEPT ![k] = Read(k, prefs)]
            BY <3>1
        <3> QED
            BY <2>1, <2>2, <2>3, <3>1, <3>2, PrefConstants
    <2> QED
        BY <1>4, <2>4, <2>5 DEF LoadNext
<1>5. CASE SyncLoaded
    BY <1>5, StepTypes DEF SyncLoaded, AtStep
<1>6. CASE migrateLegacyTraySettings
    <2>1. /\ prefs' = [prefs EXCEPT ![Style] = LegacyStyle(prefs[Legacy])]
          /\ LegacyStyle(prefs[Legacy]) # Absent
          /\ UNCHANGED <<saved, shown, load, reads, hydrated, want>>
        BY <1>6 DEF migrateLegacyTraySettings
    <2>2. LegacyStyle(prefs[Legacy]) \in Valid(Style)
        BY <2>1, ValidFacts DEF LegacyStyle
    <2> QED
        BY <2>1, <2>2, PrefConstants
<1>7. CASE deleteStoreKey
    <2>1. /\ prefs' = [prefs EXCEPT ![Legacy] = Absent]
          /\ load' = NextStep /\ load.at \in 1 .. Len(LoadOrder)
          /\ UNCHANGED <<saved, shown, reads, hydrated, want>>
        BY <1>7 DEF deleteStoreKey, AtStep
    <2> QED
        BY <2>1, StepTypes, PrefConstants
<1>8. CASE MigrationFails
    BY <1>8, StepTypes DEF MigrationFails, AtStep
<1>9. CASE ShowLoaded
    <2>1. /\ load' = [NotLoading EXCEPT !.at = load.at + 1] /\ load.at = Len(LoadOrder) + 1
          /\ shown' = [k \in Key |-> IF k \in Launched THEN load.got[k] ELSE shown[k]]
          /\ UNCHANGED <<prefs, saved, reads, hydrated, want>>
        BY <1>9 DEF ShowLoaded
    <2>2. /\ load'.at = Len(LoadOrder) + 2 /\ load'.got = Defaults
          /\ load' = [at |-> load'.at, got |-> load'.got]
        BY <2>1, PrefConstants DEF NotLoading
    <2>3. DOMAIN shown' = Key /\ \A k \in Key : shown'[k] \in Valid(k)
        BY <2>1
    <2> QED
        BY <1>d, <2>1, <2>2, <2>3, PrefConstants
<1>10. ASSUME NEW k \in Whole, NEW by \in {"effect", "page"}, hydrate(k, by) PROVE PrefTypes'
    <2>1. k \in Key /\ Read(k, prefs) \in Valid(k)
        BY ReadValid, PrefConstants
    <2>2. /\ reads' = reads \cup {[key |-> k, value |-> Read(k, prefs), by |-> by]}
          /\ UNCHANGED <<prefs, saved, shown, load, hydrated, want>>
        BY <1>10 DEF hydrate
    <2>3. \A r \in reads' : r.key \in Whole \cup View /\ r.value \in Valid(r.key)
        BY <2>1, <2>2
    <2> QED
        BY <2>2, <2>3
<1>11. ASSUME NEW r \in reads, UseReply(r) PROVE PrefTypes'
    <2>1. /\ r.key \in Whole /\ r.value \in Valid(r.key) /\ r.key \in Key
          /\ shown' = [shown EXCEPT ![r.key] = r.value] \/ shown' = shown
          /\ reads' = reads \ {r} /\ hydrated' = hydrated \cup {r.key}
          /\ UNCHANGED <<prefs, saved, load, want>>
        BY <1>11, PrefConstants DEF UseReply
    <2> QED
        BY <2>1
<1>12. CASE MountStrip
    <2>1. /\ shown' = [k \in Key |-> IF k \in View THEN Default(k) ELSE shown[k]]
          /\ reads' = (reads \ StripReads) \cup
                      {[key |-> k, value |-> Read(k, prefs), by |-> "strip"] : k \in View}
          /\ UNCHANGED <<prefs, saved, load, hydrated, want>>
        BY <1>12 DEF MountStrip
    <2>2. \A k \in View : k \in Key /\ Read(k, prefs) \in Valid(k)
        BY ReadValid, PrefConstants
    <2>3. \A r \in reads' : r.key \in Whole \cup View /\ r.value \in Valid(r.key)
        BY <2>1, <2>2
    <2>4. DOMAIN shown' = Key /\ \A k \in Key : shown'[k] \in Valid(k)
        BY <2>1, ValidFacts
    <2> QED
        BY <2>1, <2>3, <2>4
<1>13. CASE ShowStrip
    <2>1. reads' = reads \ StripReads /\ UNCHANGED <<prefs, saved, load, hydrated, want>>
        BY <1>13 DEF ShowStrip
    <2>2. \/ shown' = shown
          \/ shown' = [k \in Key |-> IF k \in View THEN (CHOOSE r \in StripReads : r.key = k).value
                                     ELSE shown[k]]
        BY <1>13 DEF ShowStrip
    <2>3. CASE shown' = shown
        BY <2>1, <2>3
    <2>4. CASE shown' = [k \in Key |-> IF k \in View
                                       THEN (CHOOSE r \in StripReads : r.key = k).value
                                       ELSE shown[k]]
        <3>1. \A k \in View : \E r \in StripReads : r.key = k
            BY <1>13 DEF RepliesInv, ShowStrip
        <3> QED
            BY <2>1, <2>4, <3>1 DEF StripReads
    <2> QED
        BY <2>2, <2>3, <2>4
<1>14. CASE PanelChange
    <2>1. PICK k \in Key : \E v \in Valid(k) : \E w : Change(k, v, w)
        BY <1>14, ChangeFacts DEF SomeChange
    <2>2. PICK v \in Valid(k) : \E w : Change(k, v, w)
        BY <2>1
    <2>3. PICK w : Change(k, v, w)
        BY <2>2
    <2> QED
        BY <2>3, SetTypes DEF Change
<1>15. CASE enableNotifications
    <2>1. PICK chosen \in SUBSET Field \ {{}} : prefs' = [prefs EXCEPT ![Alerts] = chosen] /\ want' = [want EXCEPT ![Alerts] = chosen]
        BY <1>15 DEF enableNotifications
    <2>2. UNCHANGED <<saved, shown, load, reads, hydrated>>
        BY <1>15 DEF enableNotifications
    <2>3. Alerts \in Key => chosen \in Valid(Alerts)
        BY PrefConstants, ValidFacts
    <2> QED
        BY <2>1, <2>2, <2>3
<1>16. CASE applyStartOnLogin
    <2>1. PICK v \in BOOLEAN : prefs' = [prefs EXCEPT ![Login] = v] /\ want' = [want EXCEPT ![Login] = v]
        BY <1>16 DEF applyStartOnLogin
    <2>2. UNCHANGED <<saved, shown, load, reads, hydrated>>
        BY <1>16 DEF applyStartOnLogin
    <2>3. v \in Valid(Login)
        BY ValidFacts
    <2> QED
        BY <2>1, <2>2, <2>3
<1>17. ASSUME UNCHANGED <<prefs, saved, shown, load, reads, hydrated, want>> PROVE PrefTypes'
    BY <1>17
<1>18. ASSUME NEW s \in syncs, syncAutostart(s) PROVE PrefTypes'
    BY <1>17, <1>18 DEF syncAutostart
<1>19. CASE SkipNotifications \/ GoBack \/ DismissSetup
    BY <1>17, <1>19 DEF SkipNotifications, GoBack, DismissSetup
<1>20. CASE UNCHANGED prefVars
    BY <1>17, <1>20 DEF prefVars
<1> QED
    BY <1>1, <1>2, <1>3, <1>4, <1>5, <1>6, <1>7, <1>8, <1>9, <1>10, <1>11, <1>12, <1>13, <1>14,
       <1>15, <1>16, <1>18, <1>19, <1>20, Zenon DEF PrefNext, PanelChange

-----------------------------------------------------------------------------
\* Which steps of the load are over.
LEMMA PastFacts ==
    ASSUME PrefTypes, load' = NextStep \/ load'.at = load.at + 1, NEW s, AtStep(s)
    PROVE  /\ PanelRuns /\ PanelRuns' /\ ~Loaded /\ ~Loaded' /\ Past(s)'
           /\ \A x : Past(x) => Past(x)'
           /\ \A x : x # s /\ Past(x)' => Past(x)
<1>1. /\ load.at \in 1 .. Len(LoadOrder) /\ LoadOrder[load.at] = s /\ load'.at = load.at + 1
      /\ load.at \in Nat
    BY PrefConstants DEF AtStep, NextStep, PrefTypes
<1>2. \A i \in DOMAIN LoadOrder : i < load'.at <=> i < load.at \/ i = load.at
    BY <1>1, PrefConstants
<1> QED
    BY <1>1, <1>2, PrefConstants DEF PanelRuns, Loaded, Past

\* A part holds on where a step leaves its variables and takes no key out of
\* disturbance.
LEMMA StoreFrame ==
    ASSUME StoreInv, Undisturbed' \subseteq Undisturbed, UNCHANGED <<prefs, want>>,
           \/ PanelRuns /\ PanelRuns'
           \/ (PanelRuns' <=> PanelRuns) /\ UNCHANGED saved,
           Style \in Undisturbed' => (Past(Migrate)' => Past(Migrate))
    PROVE  StoreInv'
    BY DEF StoreInv

LEMMA LaunchFrame ==
    ASSUME LaunchInv, Undisturbed' \subseteq Undisturbed, UNCHANGED <<load, shown, want>>
    PROVE  LaunchInv'
    BY DEF LaunchInv, Loaded, Past

LEMMA LaunchStepFrame ==
    ASSUME PrefTypes, LaunchInv, Undisturbed' \subseteq Undisturbed, UNCHANGED want,
           NEW s, AtStep(s), s \notin Undisturbed' \cap Launched, load' = NextStep
    PROVE  LaunchInv'
<1>1. load'.got = load.got
    BY DEF PrefTypes, NextStep
<1> QED
    BY <1>1, PastFacts DEF LaunchInv

LEMMA RepliesFrame ==
    ASSUME RepliesInv, Undisturbed' \subseteq Undisturbed, PanelRuns' => PanelRuns,
           UNCHANGED <<shown, reads, hydrated, want>>
    PROVE  RepliesInv'
    BY DEF RepliesInv, StripReads

LEMMA LoginFrame ==
    ASSUME LoginInv, Undisturbed' \subseteq Undisturbed,
           Login \in Undisturbed' =>
               /\ UNCHANGED <<syncs, loginItem>> /\ want'[Login] = want[Login]
               /\ syncs # {} /\ Loaded => Loaded'
               /\ Past(Sync)' => Past(Sync)
    PROVE  LoginInv'
    BY Zenon DEF LoginInv

\* A change by the user.
LEMMA ChangeKeeps ==
    ASSUME PrefTypes, StoreInv, LaunchInv, RepliesInv, LoginInv,
           NEW k \in Key, NEW v \in Valid(k), NEW w, Change(k, v, w)
    PROVE  StoreInv' /\ LaunchInv' /\ RepliesInv' /\ LoginInv'
<1>1. /\ PanelRuns
      /\ shown' = [shown EXCEPT ![k] = v] /\ prefs' = [prefs EXCEPT ![k] = v]
      /\ want' = [want EXCEPT ![k] = w]
      /\ UNCHANGED <<saved, load, reads, hydrated>>
    BY DEF Change, Set
<1>2. /\ k \notin Whole => w = v
      /\ k \in Undisturbed' => ~Early(k) /\ w = v
      /\ Undisturbed' \subseteq Undisturbed \cup {k}
    BY DEF Change
<1>3. /\ want'[k] = w /\ shown'[k] = v
      /\ \A j \in Key : j # k => want'[j] = want[j] /\ shown'[j] = shown[j]
    BY <1>1 DEF PrefTypes
<1>4. /\ Told(prefs')[k] = v /\ Read(k, prefs') = v
      /\ \A j \in Key : j # k => /\ Told(prefs')[j] = Told(prefs)[j]
                                 /\ Read(j, prefs') = Read(j, prefs)
    <2>1. IsSet(prefs', prefs, k, v)
        BY <1>1 DEF PrefTypes, IsSet
    <2>2. /\ Told(prefs')[k] = v /\ Read(k, prefs') = v
          /\ \A j \in Key : j # k => Read(j, prefs') = Read(j, prefs)
                                  /\ Told(prefs')[j] = Told(prefs)[j]
        BY <2>1, ToldSet
    <2> QED  BY <2>2
<1>5. Undisturbed' \subseteq Key /\ PanelRuns' /\ (Loaded' <=> Loaded)
      /\ \A x : Past(x)' <=> Past(x)
    BY <1>1, UndisturbedFacts DEF PanelRuns, Loaded, Past
<1>6. StoreInv'
    <2>1. \A j \in Key : j \notin Whole \/ j \in Undisturbed' => Told(prefs')[j] = want'[j]
        <3> SUFFICES ASSUME NEW j \in Key, j \notin Whole \/ j \in Undisturbed'
                     PROVE  Told(prefs')[j] = want'[j]
            OBVIOUS
        <3>1. CASE j = k
            BY <3>1, <1>2, <1>3, <1>4
        <3>2. CASE j # k
            BY <3>2, <1>2, <1>3, <1>4 DEF StoreInv
        <3> QED  BY <3>1, <3>2
    <2>2. Past(Migrate)' /\ Style \in Undisturbed' => Told(prefs')[Style] = Read(Style, prefs')
        <3>1. CASE Style = k
            BY <3>1, <1>4
        <3>2. CASE Style # k
            BY <3>2, <1>2, <1>4, <1>5, PrefConstants DEF StoreInv
        <3> QED  BY <3>1, <3>2
    <2> QED
        BY <2>1, <2>2, <1>5 DEF StoreInv
<1>7. LaunchInv'
    <2> SUFFICES ASSUME NEW j \in Launched \cap Undisturbed'
                 PROVE  /\ ~Loaded /\ Past(j) => load.got[j] = want'[j]
                        /\ Loaded => shown'[j] = want'[j]
        BY <1>1, <1>5 DEF LaunchInv
    <2>1. CASE j = k
        BY <2>1, <1>2, <1>3 DEF Early
    <2>2. CASE j # k
        BY <2>2, <1>2, <1>3, <1>5 DEF LaunchInv
    <2> QED  BY <2>1, <2>2
<1>8. RepliesInv'
    <2>1. \A r \in reads : r.key \in Undisturbed' => r.key # k /\ r.value = want'[r.key]
        BY <1>2, <1>3, <1>5 DEF RepliesInv, Early
    <2>2. \A j \in Undisturbed' : j \in hydrated => shown'[j] = want'[j]
        BY <1>2, <1>3, <1>5 DEF RepliesInv
    <2>3. StripReads' = StripReads
        BY <1>1 DEF StripReads
    <2>4. StripReads = {} => \A j \in View \cap Undisturbed' : shown'[j] = want'[j]
        BY <1>1, <1>2, <1>3, <1>5 DEF RepliesInv
    <2> QED
        BY <1>1, <2>1, <2>2, <2>3, <2>4 DEF RepliesInv
<1>9. LoginInv'
    <2>1. CASE k = Login
        <3>1. Login \in Undisturbed' =>
                  /\ syncs' = {[value |-> want'[Login], was |-> loginItem']} /\ Loaded'
            <4> SUFFICES ASSUME Login \in Undisturbed'
                         PROVE  syncs' = {[value |-> want'[Login], was |-> loginItem']} /\ Loaded'
                OBVIOUS
            <4>1. syncs' = {[value |-> v, was |-> loginItem]} /\ loginItem' = loginItem
                BY <2>1 DEF Change
            <4>2. want'[Login] = v /\ Loaded'
                BY <2>1, <1>2, <1>3, <1>5, PrefConstants DEF Early
            <4> QED  BY <4>1, <4>2
        <3> QED
            BY <3>1 DEF LoginInv
    <2>2. CASE k # Login
        <3>1. UNCHANGED <<loginItem, syncs>> /\ want'[Login] = want[Login]
            BY <2>2, <1>3, PrefConstants, Zenon DEF Change
        <3>2. Login \in Undisturbed' => Login \in Undisturbed
            BY <2>2, <1>2
        <3> QED
            BY <3>1, <3>2, <1>5 DEF LoginInv
    <2> QED  BY <2>1, <2>2
<1> QED
    BY <1>6, <1>7, <1>8, <1>9

\* A call that fails disturbs its key.
LEMMA FailsFacts ==
    ASSUME NEW k, stale' = stale \cup {k}
    PROVE  Undisturbed' \subseteq Undisturbed /\ k \notin Undisturbed'
    BY UndisturbedFacts

LEMMA PrefKeeps ==
    ASSUME PrefInv, [PrefNext]_prefVars
    PROVE  StoreInv' /\ LaunchInv' /\ RepliesInv' /\ LoginInv'
<1> USE DEF PrefInv
<1>u. UNCHANGED stale => Undisturbed' \subseteq Undisturbed
    BY UndisturbedFacts
<1>n. /\ DOMAIN LoadOrder = 1 .. Len(LoadOrder) /\ Len(LoadOrder) \in Nat
      /\ Login \in Launched /\ Style \in Launched /\ Login \in Key /\ Style \in Key
      /\ Launched \cap (Whole \cup View) = {} /\ Whole \cap View = {}
      /\ Login # Style /\ Alerts \notin {Login, Style} /\ Legacy \notin Key
      /\ Key = Launched \cup Whole \cup View
    BY PrefConstants
<1>1. CASE StartPanel
    <2>1. /\ ~PanelRuns /\ prefs' = saved /\ UNCHANGED <<saved, loginItem, want>>
          /\ load'.at = 1 /\ reads' = {} /\ hydrated' = {} /\ syncs' = {} /\ stale' = View
        BY <1>1 DEF StartPanel, NotLoading
    <2>2. want = Told(saved) /\ prefs = saved
        BY <2>1 DEF StoreInv
    <2>3. PanelRuns' /\ ~Loaded' /\ \A x : ~Past(x)'
        BY <2>1, <1>n DEF PanelRuns, Loaded, Past
    <2>4. View \cap Undisturbed' = {} /\ StripReads' = {}
        BY <2>1, UndisturbedFacts DEF StripReads
    <2>5. StoreInv'
        BY <2>1, <2>2, <2>3 DEF StoreInv
    <2>6. LaunchInv'
        BY <2>3 DEF LaunchInv
    <2>7. RepliesInv'
        BY <2>1, <2>4 DEF RepliesInv
    <2>8. LoginInv'
        BY <2>1, <2>3 DEF LoginInv
    <2> QED  BY <2>5, <2>6, <2>7, <2>8
<1>2. CASE SavePrefs
    <2>1. PanelRuns /\ UNCHANGED <<prefs, shown, load, reads, hydrated, loginItem, syncs, want, stale>>
        BY <1>2 DEF SavePrefs
    <2>2. PanelRuns' /\ (Loaded' <=> Loaded) /\ \A x : Past(x)' <=> Past(x)
        BY <2>1 DEF PanelRuns, Loaded, Past
    <2> QED
        BY <1>u, <2>1, <2>2, StoreFrame, LaunchFrame, RepliesFrame, LoginFrame
<1>3. CASE Quit
    <2>1. /\ prefs' = saved' /\ want' = Told(saved') /\ load'.at = 0
          /\ reads' = {} /\ hydrated' = {} /\ syncs' = {}
        BY <1>3 DEF Quit, NotLoading
    <2>2. ~PanelRuns' /\ ~Loaded' /\ \A x : ~Past(x)'
        BY <2>1, <1>n DEF PanelRuns, Loaded, Past
    <2>3. StripReads' = {}
        BY <2>1 DEF StripReads
    <2>4. StoreInv'
        BY <2>1, <2>2 DEF StoreInv
    <2>5. LaunchInv'
        BY <2>2 DEF LaunchInv
    <2>6. RepliesInv'
        BY <2>1, <2>2, <2>3 DEF RepliesInv
    <2>7. LoginInv'
        BY <2>1, <2>2 DEF LoginInv
    <2> QED  BY <2>4, <2>5, <2>6, <2>7
<1>4. ASSUME NEW k \in Launched, LoadNext(k)
      PROVE  StoreInv' /\ LaunchInv' /\ RepliesInv' /\ LoginInv'
    <2>1. /\ AtStep(k) /\ k \notin {Sync, Migrate} /\ k \in Key
          /\ UNCHANGED <<prefs, saved, shown, reads, hydrated, loginItem, syncs, want>>
        BY <1>4, <1>n DEF LoadNext, Launched
    <2>2. load'.at = load.at + 1
        BY <1>4, <1>n DEF LoadNext, NextStep, PrefTypes
    <2>3. /\ PanelRuns /\ PanelRuns' /\ ~Loaded /\ ~Loaded'
          /\ \A x : x # k /\ Past(x)' => Past(x)
        BY <2>1, <2>2, PastFacts
    <2>4. Undisturbed' \subseteq Undisturbed
        BY <1>4, <1>u, FailsFacts DEF LoadNext, Fails
    <2>5. LaunchInv'
        <3>1. CASE load' = NextStep /\ Fails(k)
            <4>1. k \notin Undisturbed'
                BY <3>1, FailsFacts DEF Fails
            <4> QED
                BY <2>1, <2>4, <3>1, <4>1, LaunchStepFrame
        <3>2. CASE load' = [NextStep EXCEPT !.got[k] = Read(k, prefs)]
            <4>1. load'.got = [load.got EXCEPT ![k] = Read(k, prefs)]
                BY <3>2 DEF NextStep, PrefTypes
            <4>2. load'.got[k] = Read(k, prefs) /\ \A j \in Key : j # k => load'.got[j] = load.got[j]
                BY <4>1, <2>1 DEF PrefTypes
            <4>3. k \in Undisturbed => Read(k, prefs) = want[k]
                <5>1. k \in Undisturbed => Told(prefs)[k] = want[k]
                    BY <2>1 DEF StoreInv
                <5>2. CASE k # Style
                    BY <5>1, <5>2, <2>1, ToldIs DEF PrefTypes
                <5>3. CASE k = Style
                    <6>1. Past(Migrate)
                        BY <5>3, <2>1, <1>n, PrefOrder DEF AtStep, Past
                    <6> QED
                        BY <5>1, <5>3, <6>1 DEF StoreInv
                <5> QED  BY <5>2, <5>3
            <4> QED
                BY <2>1, <2>3, <2>4, <4>2, <4>3 DEF LaunchInv, Launched, Key
        <3> QED
            BY <1>4, <3>1, <3>2 DEF LoadNext
    <2>6. StoreInv'
        BY <2>1, <2>3, <2>4, StoreFrame
    <2>7. RepliesInv'
        BY <2>1, <2>3, <2>4, RepliesFrame
    <2>8. LoginInv'
        BY <2>1, <2>3, <2>4, LoginFrame
    <2> QED  BY <2>5, <2>6, <2>7, <2>8
<1>5. CASE SyncLoaded
    <2>1. /\ AtStep(Sync) /\ load' = NextStep
          /\ UNCHANGED <<prefs, saved, shown, reads, hydrated, syncs, want>>
        BY <1>5 DEF SyncLoaded
    <2>2. /\ PanelRuns /\ PanelRuns' /\ ~Loaded /\ ~Loaded'
          /\ \A x : x # Sync /\ Past(x)' => Past(x)
        BY <2>1, PastFacts
    <2>3. Undisturbed' \subseteq Undisturbed
        BY <1>5, <1>u, FailsFacts DEF SyncLoaded, Fails
    <2>4. Sync \notin Launched /\ Sync # Migrate
        BY DEF Launched, Sync, Migrate
    <2>5. LaunchInv'
        BY <2>1, <2>3, <2>4, LaunchStepFrame
    <2>6. StoreInv'
        BY <2>1, <2>2, <2>3, <2>4, StoreFrame
    <2>7. RepliesInv'
        BY <2>1, <2>2, <2>3, RepliesFrame
    <2>8. LoginInv'
        <3>1. CASE loginItem' = load.got[Login] /\ UNCHANGED stale
            <4>1. Past(Login)
                BY <2>1, <1>n, PrefOrder DEF AtStep, Past
            <4>2. Login \in Undisturbed => load.got[Login] = want[Login] /\ syncs = {}
                BY <4>1, <2>2, <1>n DEF LaunchInv, LoginInv
            <4> QED
                BY <3>1, <4>2, <2>1, <2>3 DEF LoginInv
        <3>2. CASE Fails(Login)
            <4>1. Login \notin Undisturbed'
                BY <3>2, FailsFacts DEF Fails
            <4> QED
                BY <4>1 DEF LoginInv
        <3> QED
            BY <1>5, <3>1, <3>2 DEF SyncLoaded
    <2> QED  BY <2>5, <2>6, <2>7, <2>8
<1>6. CASE migrateLegacyTraySettings
    <2> DEFINE v == LegacyStyle(prefs[Legacy])
    <2>1. /\ AtStep(Migrate) /\ prefs[Style] = Absent /\ v # Absent
          /\ prefs' = [prefs EXCEPT ![Style] = v]
          /\ UNCHANGED <<saved, shown, load, reads, hydrated, loginItem, syncs, want, stale>>
        BY <1>6 DEF migrateLegacyTraySettings
    <2>2. v \in Valid(Style)
        BY <2>1, ValidFacts DEF LegacyStyle
    <2>3. Told(prefs)[Style] = v
        BY <2>1, <1>n, ToldIs DEF PrefTypes
    <2> HIDE DEF v
    <2>4. /\ Told(prefs')[Style] = v /\ Read(Style, prefs') = v
          /\ \A j \in Key : j # Style => Told(prefs')[j] = Told(prefs)[j]
        <3>1. Style \in Key /\ IsSet(prefs', prefs, Style, v)
            BY <2>1, <1>n DEF PrefTypes, IsSet
        <3> QED
            BY <2>2, <3>1, ToldSet
    <2>5. PanelRuns /\ PanelRuns' /\ (Loaded' <=> Loaded) /\ \A x : Past(x)' <=> Past(x)
        BY <2>1, <1>n DEF PanelRuns, Loaded, Past, AtStep
    <2>6. StoreInv'
        BY <1>u, <2>1, <2>3, <2>4, <2>5 DEF StoreInv
    <2> QED
        BY <1>u, <2>1, <2>5, <2>6, LaunchFrame, RepliesFrame, LoginFrame
<1>7. CASE deleteStoreKey
    <2>1. /\ AtStep(Migrate) /\ load' = NextStep
          /\ prefs[Style] # Absent \/ LegacyStyle(prefs[Legacy]) = Absent
          /\ prefs' = [prefs EXCEPT ![Legacy] = Absent]
          /\ UNCHANGED <<saved, shown, reads, hydrated, loginItem, syncs, want, stale>>
        BY <1>7 DEF deleteStoreKey
    <2>2. /\ PanelRuns /\ PanelRuns' /\ ~Loaded /\ ~Loaded'
          /\ \A x : x # Migrate /\ Past(x)' => Past(x)
        BY <2>1, PastFacts
    <2>3. /\ DOMAIN prefs = Key \cup {Legacy} /\ DOMAIN prefs' = Key \cup {Legacy}
          /\ prefs'[Legacy] = Absent
          /\ \A j \in Key : prefs'[j] = prefs[j] /\ Read(j, prefs') = Read(j, prefs)
        BY <2>1, <1>n DEF PrefTypes, Read
    <2>4. LegacyStyle(prefs'[Legacy]) = Absent
        BY <2>3, ValidFacts DEF LegacyStyle
    <2>5. \A j \in Key : Told(prefs')[j] = Read(j, prefs')
        BY <2>3, <2>4, ToldIs
    <2>6. \A j \in Key : Told(prefs)[j] = Read(j, prefs)
        BY <2>1, <2>3, ToldIs
    <2>7. StoreInv'
        BY <1>u, <1>n, <2>1, <2>2, <2>3, <2>5, <2>6 DEF StoreInv
    <2>8. Migrate \notin Launched /\ Sync # Migrate
        BY DEF Launched, Sync, Migrate
    <2>9. LaunchInv'
        BY <1>u, <2>1, <2>8, LaunchStepFrame
    <2>10. RepliesInv'
        BY <1>u, <2>1, <2>2, RepliesFrame
    <2>11. LoginInv'
        BY <1>u, <2>1, <2>2, <2>8, LoginFrame
    <2> QED  BY <2>7, <2>9, <2>10, <2>11
<1>8. CASE MigrationFails
    <2>1. /\ AtStep(Migrate) /\ load' = NextStep /\ stale' = stale \cup {Style}
          /\ UNCHANGED <<prefs, saved, shown, reads, hydrated, loginItem, syncs, want>>
        BY <1>8 DEF MigrationFails, Fails
    <2>2. /\ PanelRuns /\ PanelRuns' /\ ~Loaded /\ ~Loaded'
          /\ \A x : x # Migrate /\ Past(x)' => Past(x)
        BY <2>1, PastFacts
    <2>3. Undisturbed' \subseteq Undisturbed /\ Style \notin Undisturbed'
        BY <2>1, FailsFacts
    <2>4. Migrate \notin Launched /\ Sync # Migrate
        BY DEF Launched, Sync, Migrate
    <2>5. LaunchInv'
        BY <2>1, <2>3, <2>4, LaunchStepFrame
    <2>6. StoreInv'
        BY <2>1, <2>2, <2>3, StoreFrame
    <2>7. RepliesInv'
        BY <2>1, <2>2, <2>3, RepliesFrame
    <2>8. LoginInv'
        BY <2>1, <2>2, <2>3, <2>4, LoginFrame
    <2> QED  BY <2>5, <2>6, <2>7, <2>8
<1>9. CASE ShowLoaded
    <2>1. /\ load.at = Len(LoadOrder) + 1 /\ load'.at = Len(LoadOrder) + 2
          /\ shown' = [k \in Key |-> IF k \in Launched THEN load.got[k] ELSE shown[k]]
          /\ UNCHANGED <<prefs, saved, reads, hydrated, loginItem, syncs, want, stale>>
        BY <1>9, <1>n DEF ShowLoaded, NotLoading
    <2>2. PanelRuns /\ PanelRuns' /\ ~Loaded /\ Loaded' /\ \A x : Past(x)' <=> Past(x)
        BY <2>1, <1>n DEF PanelRuns, Loaded, Past
    <2>3. \A k \in Launched : Past(k)
        BY <2>1, <1>n, PrefOrder DEF Past
    <2>4. /\ \A k \in Launched : shown'[k] = load.got[k]
          /\ \A k \in Whole \cup View : shown'[k] = shown[k]
        BY <2>1, <1>n
    <2>5. StoreInv'
        BY <1>u, <2>1, <2>2, StoreFrame
    <2>6. LaunchInv'
        BY <1>u, <2>1, <2>2, <2>3, <2>4 DEF LaunchInv
    <2>7. RepliesInv'
        BY <1>u, <2>1, <2>2, <2>4 DEF RepliesInv, StripReads, PrefTypes
    <2>8. LoginInv'
        BY <1>u, <2>1, <2>2, LoginFrame
    <2> QED  BY <2>5, <2>6, <2>7, <2>8
<1>f. ASSUME UNCHANGED <<prefs, saved, load, want, loginItem, syncs>>,
             Undisturbed' \subseteq Undisturbed
      PROVE  /\ StoreInv' /\ LoginInv' /\ (PanelRuns' <=> PanelRuns)
             /\ (\A k \in Launched : shown'[k] = shown[k]) => LaunchInv'
    <2>1. (PanelRuns' <=> PanelRuns) /\ (Loaded' <=> Loaded) /\ \A x : Past(x)' <=> Past(x)
        BY <1>f DEF PanelRuns, Loaded, Past
    <2>2. StoreInv'
        BY <1>f, <2>1, StoreFrame
    <2>3. LoginInv'
        BY <1>f, <2>1, LoginFrame
    <2>4. (\A k \in Launched : shown'[k] = shown[k]) => LaunchInv'
        BY <1>f, <2>1 DEF LaunchInv
    <2> QED  BY <2>1, <2>2, <2>3, <2>4
<1>10. ASSUME NEW k \in Whole, NEW by \in {"effect", "page"}, hydrate(k, by)
       PROVE  StoreInv' /\ LaunchInv' /\ RepliesInv' /\ LoginInv'
    <2>1. /\ reads' = reads \cup {[key |-> k, value |-> Read(k, prefs), by |-> by]}
          /\ UNCHANGED <<prefs, saved, shown, load, hydrated, loginItem, syncs, want, stale>>
        BY <1>10 DEF hydrate
    <2>2. k \in Undisturbed => Read(k, prefs) = want[k]
        BY <1>n, ToldIs DEF StoreInv, PrefTypes
    <2>3. StripReads' = StripReads
        BY <2>1, <1>n DEF StripReads
    <2>4. Undisturbed' = Undisturbed
        BY <2>1 DEF Undisturbed
    <2>5. RepliesInv'
        BY <1>f, <2>1, <2>2, <2>3, <2>4 DEF RepliesInv
    <2> QED  BY <1>f, <2>1, <2>4, <2>5
<1>11. ASSUME NEW r \in reads, UseReply(r)
       PROVE  StoreInv' /\ LaunchInv' /\ RepliesInv' /\ LoginInv'
    <2>1. /\ r.key \in Whole /\ reads' = reads \ {r} /\ hydrated' = hydrated \cup {r.key}
          /\ UNCHANGED <<prefs, saved, load, loginItem, syncs, want>>
          /\ \/ shown' = [shown EXCEPT ![r.key] = r.value] /\ UNCHANGED stale
             \/ UNCHANGED shown /\ stale' = stale \cup {r.key}
        BY <1>11 DEF UseReply, Fails
    <2>2. /\ Undisturbed' \subseteq Undisturbed
          /\ r.key \in Undisturbed' => shown' = [shown EXCEPT ![r.key] = r.value]
        BY <1>u, <2>1, FailsFacts
    <2>3. /\ \A k \in Key : k # r.key => shown'[k] = shown[k]
          /\ r.key \in Undisturbed' => shown'[r.key] = r.value
        BY <2>1, <2>2, <1>n DEF PrefTypes
    <2>4. StripReads' = StripReads
        BY <2>1, <1>n DEF StripReads
    <2>5. RepliesInv'
        <3>1. \A k \in Undisturbed' : k \in hydrated' => shown'[k] = want'[k]
            BY <2>1, <2>2, <2>3, UndisturbedFacts DEF RepliesInv
        <3>2. \A k \in View : shown'[k] = shown[k]
            BY <2>1, <2>3, <1>n
        <3> QED
            BY <1>f, <2>1, <2>2, <2>4, <3>1, <3>2 DEF RepliesInv
    <2> QED  BY <1>f, <1>n, <2>1, <2>2, <2>3, <2>5
<1>12. CASE MountStrip
    <2>1. /\ PanelRuns /\ shown' = [k \in Key |-> IF k \in View THEN Default(k) ELSE shown[k]]
          /\ reads' = (reads \ StripReads) \cup
                      {[key |-> k, value |-> Read(k, prefs), by |-> "strip"] : k \in View}
          /\ stale' = stale \ View
          /\ UNCHANGED <<prefs, saved, load, hydrated, loginItem, syncs, want>>
        BY <1>12 DEF MountStrip
    <2>2. /\ \A k \in Undisturbed' : k \in View \/ k \in Undisturbed
          /\ Undisturbed' \subseteq Key
        BY <2>1, UndisturbedFacts, PrefConstants
    <2>3. \A k \in View : Read(k, prefs) = want[k]
        BY <1>n, ToldIs DEF StoreInv, PrefTypes
    <2>4. \A k \in Key \ View : shown'[k] = shown[k]
        BY <2>1
    <2>5. \A r \in reads' : r.key \in Undisturbed' => r.value = want[r.key]
        BY <2>1, <2>2, <2>3 DEF StripReads, RepliesInv
    <2>6. \A k \in View : \E r \in StripReads' : r.key = k
        <3> SUFFICES ASSUME NEW k \in View PROVE \E r \in StripReads' : r.key = k
            OBVIOUS
        <3> DEFINE r == [key |-> k, value |-> Read(k, prefs), by |-> "strip"]
        <3>1. r \in reads' /\ r.key = k
            BY <2>1
        <3> QED  BY <3>1 DEF StripReads
    <2>7. PanelRuns' /\ (Loaded' <=> Loaded) /\ \A x : Past(x)' <=> Past(x)
        BY <2>1 DEF PanelRuns, Loaded, Past
    <2>8. StoreInv'
        BY <1>n, <2>1, <2>2, <2>7 DEF StoreInv
    <2>9. LaunchInv'
        BY <1>n, <2>1, <2>2, <2>4, <2>7 DEF LaunchInv
    <2>10. RepliesInv'
        <3>1. \A k \in Undisturbed' : k \in hydrated' => shown'[k] = want'[k]
            BY <1>n, <2>1, <2>2, <2>4 DEF RepliesInv, PrefTypes
        <3>2. StripReads' = {} => View = {}
            BY <2>6
        <3> QED
            BY <2>1, <2>5, <2>6, <3>1, <3>2 DEF RepliesInv
    <2>11. LoginInv'
        BY <1>n, <2>1, <2>2, <2>7 DEF LoginInv
    <2> QED  BY <2>8, <2>9, <2>10, <2>11
<1>13. CASE ShowStrip
    <2>1. /\ StripReads # {} /\ reads' = reads \ StripReads
          /\ UNCHANGED <<prefs, saved, load, hydrated, loginItem, syncs, want>>
          /\ \/ /\ shown' = [k \in Key |-> IF k \in View
                                           THEN (CHOOSE r \in StripReads : r.key = k).value
                                           ELSE shown[k]]
                /\ UNCHANGED stale
             \/ UNCHANGED shown /\ stale' = stale \cup View
        BY <1>13 DEF ShowStrip
    <2>2. Undisturbed' \subseteq Undisturbed /\ (stale' = stale \cup View => View \cap Undisturbed' = {})
        BY <1>u, <2>1, UndisturbedFacts
    <2>3. \A k \in Key \ View : shown'[k] = shown[k]
        BY <2>1
    <2>4. \A k \in View \cap Undisturbed' : shown'[k] = want[k]
        <3> SUFFICES ASSUME NEW k \in View \cap Undisturbed' PROVE shown'[k] = want[k]
            OBVIOUS
        <3>1. shown' = [j \in Key |-> IF j \in View THEN (CHOOSE r \in StripReads : r.key = j).value
                                      ELSE shown[j]]
            BY <2>1, <2>2
        <3>2. shown'[k] = (CHOOSE r \in StripReads : r.key = k).value
            BY <3>1, <1>n
        <3>3. \E r \in StripReads : r.key = k
            BY <2>1 DEF RepliesInv
        <3>4. \A r \in StripReads : r.key = k => r.value = want[k]
            BY <2>2 DEF RepliesInv, StripReads
        <3> QED  BY <3>2, <3>3, <3>4
    <2>5. StripReads' = {}
        BY <2>1 DEF StripReads
    <2>6. RepliesInv'
        <3>1. \A k \in Undisturbed' : k \in hydrated' => shown'[k] = want'[k]
            BY <1>n, <2>1, <2>2, <2>3 DEF RepliesInv, PrefTypes
        <3> QED
            BY <2>1, <2>2, <2>4, <2>5, <3>1 DEF RepliesInv
    <2> QED  BY <1>f, <1>n, <2>1, <2>2, <2>3, <2>6
<1>14. CASE PanelChange
    <2>1. PICK k \in Key : \E v \in Valid(k) : \E w : Change(k, v, w)
        BY <1>14, ChangeFacts DEF SomeChange
    <2>2. PICK v \in Valid(k) : \E w : Change(k, v, w)
        BY <2>1
    <2>3. PICK w : Change(k, v, w)
        BY <2>2
    <2> QED
        BY <2>3, ChangeKeeps
<1>15. ASSUME NEW s \in syncs, syncAutostart(s)
       PROVE  StoreInv' /\ LaunchInv' /\ RepliesInv' /\ LoginInv'
    <2>1. /\ syncs' = syncs \ {s}
          /\ UNCHANGED <<prefs, saved, shown, load, reads, hydrated, want>>
          /\ \/ s.was = s.value /\ UNCHANGED <<loginItem, stale>>
             \/ loginItem' = s.value /\ UNCHANGED stale
             \/ stale' = stale \cup {Login}
        BY <1>15 DEF syncAutostart, Fails
    <2>2. Undisturbed' \subseteq Undisturbed /\ (stale' = stale \cup {Login} => Login \notin Undisturbed')
        BY <1>u, <2>1, FailsFacts
    <2>3. (PanelRuns' <=> PanelRuns) /\ (Loaded' <=> Loaded) /\ \A x : Past(x)' <=> Past(x)
        BY <2>1 DEF PanelRuns, Loaded, Past
    <2>4. StoreInv' /\ LaunchInv' /\ RepliesInv'
        BY <2>1, <2>2, <2>3, StoreFrame, LaunchFrame, RepliesFrame
    <2>5. LoginInv'
        <3> SUFFICES ASSUME Login \in Undisturbed'
                     PROVE  syncs' = {} /\ loginItem' = want'[Login]
            BY DEF LoginInv
        <3>1. syncs = {[value |-> want[Login], was |-> loginItem]}
            BY <2>2 DEF LoginInv
        <3>2. s.value = want[Login] /\ s.was = loginItem /\ syncs' = {}
            BY <3>1, <2>1
        <3> QED  BY <2>1, <2>2, <3>2
    <2> QED  BY <2>4, <2>5
<1>16. CASE enableNotifications
    <2>1. PICK chosen \in SUBSET Field \ {{}} :
              prefs' = [prefs EXCEPT ![Alerts] = chosen] /\ want' = [want EXCEPT ![Alerts] = chosen]
        BY <1>16 DEF enableNotifications
    <2>2. /\ stale' = stale \cup {"setup"}
          /\ UNCHANGED <<saved, shown, load, reads, hydrated, loginItem, syncs>> /\ window = "alerts"
        BY <1>16 DEF enableNotifications
    <2>3. Undisturbed' \subseteq Undisturbed /\ Alerts \notin Undisturbed' /\ Undisturbed' \subseteq Key
        BY <2>2, UndisturbedFacts
    <2>4. /\ \A k \in Key \cup {Legacy} : k # Alerts => prefs'[k] = prefs[k]
          /\ \A k \in Key : k # Alerts => want'[k] = want[k]
          /\ DOMAIN prefs = Key \cup {Legacy} /\ DOMAIN prefs' = Key \cup {Legacy}
        BY <2>1 DEF PrefTypes
    <2>5. Alerts \in Key => Alerts \in Whole
        BY PrefConstants
    <2>6. Alerts # Legacy
        BY DEF Alerts, Legacy
    <2>7. \A k \in Key : k # Alerts => Told(prefs')[k] = Told(prefs)[k] /\ Read(k, prefs') = Read(k, prefs)
        <3>1. /\ prefs'[Style] = prefs[Style] /\ prefs'[Legacy] = prefs[Legacy]
            BY <2>4, <2>6, <1>n
        <3>2. \A k \in Key : k # Alerts => Read(k, prefs') = Read(k, prefs)
            BY <2>4 DEF Read
        <3> SUFFICES ASSUME NEW k \in Key, k # Alerts PROVE Told(prefs')[k] = Told(prefs)[k]
            BY <3>2
        <3>3. /\ k # Style \/ prefs[Style] # Absent \/ LegacyStyle(prefs[Legacy]) = Absent
                    => Told(prefs)[k] = Read(k, prefs)
              /\ k = Style /\ prefs[Style] = Absent /\ LegacyStyle(prefs[Legacy]) # Absent
                    => Told(prefs)[k] = LegacyStyle(prefs[Legacy])
            BY <2>4, ToldIs
        <3>4. /\ k # Style \/ prefs'[Style] # Absent \/ LegacyStyle(prefs'[Legacy]) = Absent
                    => Told(prefs')[k] = Read(k, prefs')
              /\ k = Style /\ prefs'[Style] = Absent /\ LegacyStyle(prefs'[Legacy]) # Absent
                    => Told(prefs')[k] = LegacyStyle(prefs'[Legacy])
            BY <2>4, ToldIs
        <3> QED
            BY <3>1, <3>2, <3>3, <3>4
    <2>8. (PanelRuns' <=> PanelRuns) /\ (Loaded' <=> Loaded) /\ \A x : Past(x)' <=> Past(x)
        BY <2>2 DEF PanelRuns, Loaded, Past
    <2>9. PanelRuns
        BY <2>2 DEF WindowInv
    <2>10. StoreInv'
        BY <1>n, <2>3, <2>4, <2>5, <2>7, <2>8, <2>9 DEF StoreInv
    <2>11. LaunchInv'
        BY <1>n, <2>2, <2>3, <2>4, <2>5, <2>8 DEF LaunchInv
    <2>12. RepliesInv'
        BY <1>n, <2>2, <2>3, <2>4, <2>8 DEF RepliesInv, StripReads
    <2>13. LoginInv'
        BY <1>n, <2>2, <2>3, <2>4, <2>8 DEF LoginInv
    <2> QED  BY <2>10, <2>11, <2>12, <2>13
<1>17. CASE applyStartOnLogin
    <2>1. PICK v \in BOOLEAN :
              prefs' = [prefs EXCEPT ![Login] = v] /\ want' = [want EXCEPT ![Login] = v]
        BY <1>17 DEF applyStartOnLogin
    <2>2. /\ stale' = stale \cup {Login} /\ PanelRuns
          /\ UNCHANGED <<saved, shown, load, reads, hydrated, loginItem>>
        BY <1>17 DEF applyStartOnLogin, WindowInv
    <2>3. /\ Undisturbed' \subseteq Undisturbed /\ Login \notin Undisturbed'
          /\ Undisturbed' \subseteq Key
        BY <2>2, FailsFacts, UndisturbedFacts
    <2>4. v \in Valid(Login)
        BY ValidFacts
    <2>5. Login \in Key /\ IsSet(prefs', prefs, Login, v)
        BY <2>1, <1>n DEF PrefTypes, IsSet
    <2>6. /\ Told(prefs')[Login] = v
          /\ \A j \in Key : j # Login => /\ Told(prefs')[j] = Told(prefs)[j]
                                         /\ Read(j, prefs') = Read(j, prefs)
        <3>1. /\ Told(prefs')[Login] = v /\ Read(Login, prefs') = v
              /\ \A j \in Key : j # Login => Read(j, prefs') = Read(j, prefs)
                                  /\ Told(prefs')[j] = Told(prefs)[j]
            BY <2>4, <2>5, ToldSet
        <3> QED  BY <3>1
    <2>7. want'[Login] = v /\ \A j \in Key : j # Login => want'[j] = want[j]
        BY <2>1, <1>n DEF PrefTypes
    <2>8. PanelRuns' /\ (Loaded' <=> Loaded) /\ \A x : Past(x)' <=> Past(x)
        BY <2>2 DEF PanelRuns, Loaded, Past
    <2>9. StoreInv'
        BY <1>n, <2>2, <2>3, <2>6, <2>7, <2>8 DEF StoreInv
    <2>10. LaunchInv'
        BY <1>n, <2>2, <2>3, <2>7, <2>8 DEF LaunchInv
    <2>11. RepliesInv'
        <3>1. \A k \in Undisturbed' : k # Login /\ k \in Key
            BY <2>3
        <3> QED
            BY <1>n, <2>2, <2>3, <2>7, <2>8, <3>1 DEF RepliesInv, StripReads
    <2>12. LoginInv'
        BY <2>3 DEF LoginInv
    <2> QED  BY <2>9, <2>10, <2>11, <2>12
<1>18. ASSUME UNCHANGED <<prefs, saved, shown, load, reads, hydrated, loginItem, syncs, want, stale>>
       PROVE  StoreInv' /\ LaunchInv' /\ RepliesInv' /\ LoginInv'
    <2>1. (PanelRuns' <=> PanelRuns) /\ (Loaded' <=> Loaded) /\ \A x : Past(x)' <=> Past(x)
        BY <1>18 DEF PanelRuns, Loaded, Past
    <2> QED
        BY <1>18, <1>u, <2>1, StoreFrame, LaunchFrame, RepliesFrame, LoginFrame
<1>19. CASE SkipNotifications \/ GoBack \/ DismissSetup
    BY <1>18, <1>19 DEF SkipNotifications, GoBack, DismissSetup
<1>20. CASE UNCHANGED prefVars
    BY <1>18, <1>20 DEF prefVars
<1> QED
    BY <1>1, <1>2, <1>3, <1>4, <1>5, <1>6, <1>7, <1>8, <1>9, <1>10, <1>11, <1>12, <1>13, <1>14,
       <1>15, <1>16, <1>17, <1>19, <1>20, Zenon DEF PrefNext, PanelChange

\* Only a running application has a setup window.
LEMMA WindowKeeps ==
    ASSUME PrefInv, [PrefNext]_prefVars
    PROVE  WindowInv'
<1>t. load.at \in Nat
    BY PrefConstants DEF PrefInv, PrefTypes
<1>1. CASE load' = load /\ window' \in {window, "closed"}
    BY <1>1 DEF PrefInv, WindowInv, PanelRuns
<1>2. CASE load'.at > 0
    BY <1>2 DEF WindowInv, PanelRuns
<1>3. CASE window' = "closed"
    BY <1>3 DEF WindowInv
<1>4. load' = NextStep => load'.at > 0
    BY <1>t DEF PrefInv, PrefTypes, NextStep
<1>5. CASE StartPanel
    BY <1>2, <1>5 DEF StartPanel, NotLoading
<1>6. CASE Quit
    BY <1>3, <1>6 DEF Quit
<1>7. ASSUME NEW k \in Launched, LoadNext(k) PROVE WindowInv'
    <2>1. load'.at = load.at + 1
        BY <1>7 DEF LoadNext, NextStep, PrefInv, PrefTypes
    <2> QED  BY <1>2, <1>t, <2>1
<1>8. CASE SyncLoaded \/ deleteStoreKey \/ MigrationFails
    BY <1>2, <1>4, <1>8 DEF SyncLoaded, deleteStoreKey, MigrationFails
<1>9. CASE ShowLoaded
    BY <1>2, <1>9, <1>t DEF ShowLoaded, NotLoading
<1>10. CASE PanelChange
    <2>1. PICK k \in Key : \E v \in Valid(k) : \E w : Change(k, v, w)
        BY <1>10, ChangeFacts DEF SomeChange, PrefInv
    <2>2. load' = load /\ window' = window
        BY <2>1 DEF Change, Set
    <2> QED  BY <1>1, <2>2
<1>11. ASSUME NEW k \in Whole, NEW by \in {"effect", "page"}, hydrate(k, by) PROVE WindowInv'
    BY <1>1, <1>11 DEF hydrate
<1>12. ASSUME NEW r \in reads, UseReply(r) PROVE WindowInv'
    BY <1>1, <1>12 DEF UseReply
<1>13. ASSUME NEW s \in syncs, syncAutostart(s) PROVE WindowInv'
    BY <1>1, <1>13 DEF syncAutostart
<1>14. CASE SavePrefs \/ migrateLegacyTraySettings \/ MountStrip \/ ShowStrip
    BY <1>1, <1>14 DEF SavePrefs, migrateLegacyTraySettings, MountStrip, ShowStrip
<1>15. CASE enableNotifications \/ SkipNotifications \/ GoBack
    <2>1. load' = load /\ window # "closed"
        BY <1>15 DEF enableNotifications, SkipNotifications, GoBack
    <2> QED
        BY <2>1 DEF PrefInv, WindowInv, PanelRuns
<1>16. CASE DismissSetup \/ applyStartOnLogin
    BY <1>3, <1>16 DEF DismissSetup, applyStartOnLogin
<1>17. CASE UNCHANGED prefVars
    BY <1>1, <1>17 DEF prefVars
<1> QED
    BY <1>5, <1>6, <1>7, <1>8, <1>9, <1>10, <1>11, <1>12, <1>13, <1>14, <1>15, <1>16, <1>17,
       Zenon DEF PrefNext, PanelChange

\* When nothing is under way, every preference is what the user chose last: on
\* the screen, in the store and, for startOnLogin, in the system.  This is for
\* any set of keys and any order of the load that migrates the style before it
\* reads it and synchronizes the login item after its key; for any number of
\* launches, changes, failed calls and torn files; with the exceptions of
\* PreferenceIsKept.
THEOREM PreferencesAreKept == PrefSpec => []PreferenceIsKept
<1>1. PrefInit => PrefInv
    <2> SUFFICES ASSUME PrefInit PROVE PrefInv
        OBVIOUS
    <2>1. /\ prefs = saved /\ want = Told(saved) /\ load.at = 0
          /\ reads = {} /\ hydrated = {} /\ syncs = {} /\ window = "closed"
        BY DEF PrefInit, NotLoading
    <2>2. ~PanelRuns /\ ~Loaded /\ \A x : ~Past(x)
        BY <2>1, PrefConstants DEF PanelRuns, Loaded, Past
    <2>3. StoreInv
        BY <2>1, <2>2 DEF StoreInv
    <2>4. LaunchInv
        BY <2>2 DEF LaunchInv
    <2>5. RepliesInv
        BY <2>1, <2>2 DEF RepliesInv, StripReads
    <2>6. LoginInv /\ WindowInv
        BY <2>1, <2>2 DEF LoginInv, WindowInv
    <2> QED
        BY <2>3, <2>4, <2>5, <2>6, PrefTypesInit DEF PrefInv
<1>2. PrefInv /\ [PrefNext]_prefVars => PrefInv'
    BY PrefTypesNext, PrefKeeps, WindowKeeps DEF PrefInv
<1>3. PrefInv => PreferenceIsKept
    <2> SUFFICES ASSUME PrefInv, PanelIsQuiet
                 PROVE  /\ \A k \in Undisturbed : shown[k] = want[k] /\ Read(k, prefs) = want[k]
                        /\ Login \in Undisturbed => loginItem = want[Login]
        BY DEF PreferenceIsKept
    <2>1. /\ Loaded /\ hydrated = Whole /\ reads = {} /\ syncs = {}
          /\ PanelRuns /\ Undisturbed \subseteq Key
          /\ load.at = Len(LoadOrder) + 2
        BY PrefConstants, UndisturbedFacts DEF PanelIsQuiet, Loaded, PanelRuns
    <2>2. \A i \in DOMAIN LoadOrder : Past(LoadOrder[i])
        BY <2>1, PrefConstants DEF Past
    <2>3. Past(Migrate) /\ Past(Sync)
        BY <2>2, PrefOrder, PrefConstants
    <2>4. ASSUME NEW k \in Undisturbed PROVE shown[k] = want[k] /\ Read(k, prefs) = want[k]
        <3>1. k \in Key /\ Told(prefs)[k] = want[k]
            BY <2>1 DEF PrefInv, StoreInv
        <3>2. Read(k, prefs) = Told(prefs)[k]
            <4>1. CASE k = Style
                BY <4>1, <2>3 DEF PrefInv, StoreInv
            <4>2. CASE k # Style
                BY <4>2, <3>1, ToldIs DEF PrefInv, PrefTypes
            <4> QED  BY <4>1, <4>2
        <3>3. shown[k] = want[k]
            BY <2>1, <3>1, PrefConstants DEF PrefInv, LaunchInv, RepliesInv, StripReads
        <3> QED  BY <3>1, <3>2, <3>3
    <2>5. Login \in Undisturbed => loginItem = want[Login]
        BY <2>1, <2>3 DEF PrefInv, LoginInv
    <2> QED  BY <2>4, <2>5
<1> QED
    BY <1>1, <1>2, <1>3, PTL DEF PrefSpec
=============================================================================
