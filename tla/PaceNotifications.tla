-------------------------- MODULE PaceNotifications --------------------------
(***************************************************************************)
(* The quota alerts: `transitions` and `evaluate` of                       *)
(* src/lib/pace-notifications.ts and the effect of                         *)
(* src/hooks/app/use-pace-notifications.ts that delivers what they fire.   *)
(*                                                                         *)
(* Alerts of different metrics do not influence one another (their state   *)
(* is kept under metricKey), so one metric is modelled.  Around it are the *)
(* provider, whose usage and windows change, the card that shows the last  *)
(* reading, and the toggles.  Every change of what the cards show or of    *)
(* the toggles makes the effect evaluate the metric (a pass); what a pass  *)
(* fires is sent one alert after the other, and an alert is marked as      *)
(* fired, in the state of that moment, when its delivery has succeeded.    *)
(***************************************************************************)
EXTENDS PaceStatus, Sequences, FiniteSets, SequencesExt

CONSTANTS
  Levels,       \* amounts of usage the provider may report
  Limit,        \* the limit of the metric
  Period,       \* length of a window
  Moments,      \* the instants at which something can happen
  IsSession,    \* whether the line is called "Session"
  Settings,     \* the sets of toggles the user may choose
  MaxSending,   \* bound: passes whose alerts are being sent at the same time
  Disturbance   \* what may go wrong, a subset of Disturbances

\* cached:  at launch the card shows a snapshot of an earlier run
\* noData:  the provider reports a meter without a limit
\* fail:    a delivery is rejected
\* slow:    a delivery is still under way when the next pass runs
\* jitter:  the plugin computes the reset instant from its own clock and the
\*          seconds that remain (plugins/codex/plugin.js), one unit off
Disturbances == {"cached", "noData", "fail", "slow", "jitter"}

Milestones == {"underTenPercent", "healthyToClose", "closeToRunningOut", "sessionReset"}

ASSUME PaceAssumption ==
  /\ Levels \subseteq Nat /\ Moments \subseteq Nat
  /\ Limit \in Nat \ {0} /\ Period \in Nat \ {0}
  /\ IsSession \in BOOLEAN
  /\ Settings \subseteq SUBSET Milestones
  /\ MaxSending \in Nat \ {0}
  /\ Disturbance \subseteq Disturbances

NoCard == [used |-> 0, limit |-> -1, resetsAt |-> NoReset, period |-> Period]

NotificationState ==
  [resetsAt : Nat, firedMilestones : SUBSET Milestones, previousBucket : Buckets,
   wasUnderTenPercent : BOOLEAN, wasAboveZeroUsed : BOOLEAN, primed : BOOLEAN]

initialNotificationState ==
  [resetsAt |-> NoReset, firedMilestones |-> {}, previousBucket |-> "untracked",
   wasUnderTenPercent |-> FALSE, wasAboveZeroUsed |-> FALSE, primed |-> FALSE]

VARIABLES
  now, used, resets,   \* the clock, and usage and end of window at the provider
  card,                \* the reading that is shown, NoCard before the first
  toggles,             \* the milestones that are switched on
  state,               \* the entry of statesRef for the metric
  sending,             \* for each pass, the alerts it has yet to deliver
  probed,              \* history: a reading was taken since the launch
  last,                \* history: what the last pass did
  told,                \* history: what the user was told, or saw at launch
  failed               \* history: alerts of this window whose delivery failed

vars == <<now, used, resets, card, toggles, state, sending, probed, last, told, failed>>

-----------------------------------------------------------------------------
(* Pure part: what a pass decides.                                         *)

\* A strictly later reset clears the deduplication; a missing one keeps the window.
NewWindow(obs, s) ==
  obs.resetsAt # NoReset /\ (s.resetsAt = NoReset \/ obs.resetsAt > s.resetsAt)

InWindow(obs, s) ==
  LET at == IF obs.resetsAt = NoReset THEN s.resetsAt ELSE obs.resetsAt
  IN  IF NewWindow(obs, s)
      THEN [s EXCEPT !.resetsAt = at, !.firedMilestones = {},
                     !.wasUnderTenPercent = FALSE, !.previousBucket = "untracked"]
      ELSE [s EXCEPT !.resetsAt = at]

maybeFire(milestone, s, on) == milestone \in on \ s.firedMilestones

\* Mutant: The baseline does not record the bucket.
Primed_WithoutBucket(obs, s) ==
  [s EXCEPT !.primed = TRUE, !.wasUnderTenPercent = obs.under,
            !.wasAboveZeroUsed = ~obs.zero, !.firedMilestones = {}]

\* The first observation is the baseline.
Primed(obs, s) ==
  [s EXCEPT !.primed = TRUE, !.previousBucket = obs.bucket,
            !.wasUnderTenPercent = obs.under, !.wasAboveZeroUsed = ~obs.zero,
            !.firedMilestones = {}]

SessionFires(obs, s, on) ==
  {m \in {"sessionReset"} :
     IsSession /\ obs.zero /\ s.wasAboveZeroUsed /\ maybeFire(m, s, on)}

AfterSession(obs, s) ==
  [s EXCEPT !.wasAboveZeroUsed = ~obs.zero,
            !.firedMilestones = IF obs.zero THEN @ ELSE @ \ {"sessionReset"}]

Exhausted(obs, s) ==
  [s EXCEPT !.previousBucket = obs.bucket, !.wasUnderTenPercent = TRUE]

PaceFires(obs, s, on) ==
  LET was == SEVERITY[s.previousBucket]
      is  == SEVERITY[obs.bucket]
      edge == {m \in {"healthyToClose"} : obs.bucket = "close" /\ was < SEVERITY["close"]}
              \cup {m \in {"closeToRunningOut"} :
                      is >= SEVERITY["runningOut"] /\ was < SEVERITY["runningOut"]}
  IN  {m \in edge : obs.bucket # "untracked" /\ maybeFire(m, s, on)}

\* Mutant: A worsening is consumed although no alert was fired for it.
AfterPace_Consumes(obs, s, on) ==
  IF obs.bucket = "untracked" THEN s ELSE [s EXCEPT !.previousBucket = obs.bucket]

\* Improving clears marks; the bucket advances when nothing got worse or when
\* an alert was fired for it.
AfterPace(obs, s, on) ==
  LET was == SEVERITY[s.previousBucket]
      is  == SEVERITY[obs.bucket]
      cleared == {m \in {"healthyToClose"} : is < was /\ is <= SEVERITY["healthy"]}
                 \cup {m \in {"closeToRunningOut"} : is < was /\ is <= SEVERITY["close"]}
  IN  IF obs.bucket = "untracked" THEN s
      ELSE [s EXCEPT !.firedMilestones = @ \ cleared,
                     !.previousBucket =
                       IF is <= was \/ PaceFires(obs, s, on) # {} THEN obs.bucket ELSE @]

UnderFires(obs, s, on) ==
  {m \in {"underTenPercent"} : obs.under /\ ~s.wasUnderTenPercent /\ maybeFire(m, s, on)}

AfterUnder(obs, s, on) ==
  [s EXCEPT !.firedMilestones = IF obs.under THEN @ ELSE @ \ {"underTenPercent"},
            !.wasUnderTenPercent =
              IF obs.under /\ ~s.wasUnderTenPercent /\ UnderFires(obs, s, on) = {}
              THEN @ ELSE obs.under]

\* [fire, newState]
transitions(obs, previous, on) ==
  LET s == InWindow(obs, previous)
      t == AfterSession(obs, s)
  IN  CASE obs.bucket = "noData" -> [fire |-> {}, newState |-> s]
        [] obs.bucket # "noData" /\ ~s.primed -> [fire |-> {}, newState |-> Primed(obs, s)]
        [] obs.bucket # "noData" /\ s.primed /\ obs.exhausted ->
             [fire |-> {}, newState |-> Exhausted(obs, t)]
        [] OTHER ->
             [fire |-> SessionFires(obs, s, on) \cup PaceFires(obs, t, on)
                         \cup UnderFires(obs, t, on),
              newState |-> AfterUnder(obs, AfterPace(obs, t, on), on)]

\* The order in which the alerts of one metric are pushed, and sent.
Rank == [sessionReset |-> 1, healthyToClose |-> 2, closeToRunningOut |-> 3,
         underTenPercent |-> 4]

First(pass) == CHOOSE m \in pass : \A n \in pass : Rank[m] <= Rank[n]

-----------------------------------------------------------------------------
(* History: the contract of the alerts, kept beside the code's own state.  *)
(* A milestone has been told once an alert was fired for it, or for a      *)
(* worse one, once it held at the baseline, and once the metric was        *)
(* exhausted; a new window and a recovery below it arm it again.           *)

Holds(obs) ==
  {m \in Milestones :
     \/ m = "underTenPercent" /\ obs.under
     \/ m = "healthyToClose" /\ obs.bucket \in {"close", "runningOut"}
     \/ m = "closeToRunningOut" /\ obs.bucket = "runningOut"
     \/ m = "sessionReset" /\ obs.zero}

\* An observation without a pace says nothing of the two pace milestones; an
\* exhausted one makes the code forget them.
Recovered(obs) ==
  IF obs.bucket = "noData" THEN {}
  ELSE (Milestones \ Holds(obs))
         \ (IF obs.bucket = "untracked" /\ ~obs.exhausted
            THEN {"healthyToClose", "closeToRunningOut"} ELSE {})

\* The window of a reading, told from its reset instant whatever the clock of
\* the plugin adds to it.
Slack == IF "jitter" \in Disturbance THEN 1 ELSE 0

OtherWindow(obs, s) ==
  obs.resetsAt # NoReset /\ (s.resetsAt = NoReset \/ obs.resetsAt > s.resetsAt + Slack)

\* A session is told to have reset across windows too.
Armed(obs, s) ==
  Recovered(obs) \cup (IF OtherWindow(obs, s) THEN Milestones \ {"sessionReset"} ELSE {})

StillTold(obs, s) == told \ Armed(obs, s)

NowTold(obs, s, fire) ==
  StillTold(obs, s)
    \cup fire
    \cup (IF "closeToRunningOut" \in fire THEN {"healthyToClose"} ELSE {})
    \cup (IF obs.bucket # "noData" /\ (~s.primed \/ obs.exhausted) THEN Holds(obs) ELSE {})

-----------------------------------------------------------------------------
(* Actions.                                                                *)

\* What is to be told of an observation.  The toggle of a session reset is
\* only asked at the reset itself.
Due(obs, on) ==
  IF obs.bucket = "noData" \/ obs.exhausted THEN {}
  ELSE {m \in on \cap Holds(obs) :
          /\ m # "sessionReset"
          /\ m = "healthyToClose" => obs.bucket = "close"}

\* fired: the alerts of a pass; again: those of them that had been told;
\* missed: what is due and has not been told; unsent: what is due, failed to
\* be delivered, and was not fired anew.
Quiet == [fired |-> {}, again |-> {}, missed |-> {}, unsent |-> {}]

\* The effect: it runs when what is shown or a toggle has changed.
Pass(shown, on) ==
  LET obs    == deriveObservation(shown, now)
      result == transitions(obs, state, on)
      fire   == result.fire
  IN  IF on = {} \/ shown = NoCard
      THEN last' = Quiet /\ UNCHANGED <<state, sending, told, failed>>
      ELSE /\ state' = result.newState
           /\ sending' = IF fire = {} THEN sending ELSE Append(sending, fire)
           /\ told' = NowTold(obs, state, fire)
           /\ failed' = failed \ (Armed(obs, state) \cup fire)
           /\ last' = [fired  |-> fire,
                       again  |-> fire \cap StillTold(obs, state),
                       missed |-> Due(obs, on) \ told',
                       unsent |-> Due(obs, on) \cap failed']

\* A pass may only start where the bound and the pace of deliveries allow it.
MayPass == IF "slow" \in Disturbance THEN Len(sending) < MaxSending ELSE sending = <<>>

\* A probe delivered a reading, or a hydrate brought one to the screen.
Reading ==
  {[used |-> used, limit |-> Limit, period |-> Period, resetsAt |-> r] :
     r \in IF "jitter" \in Disturbance THEN {resets, resets + 1} ELSE {resets}}
  \cup (IF "noData" \in Disturbance
        THEN {[used |-> 0, limit |-> 0, period |-> Period, resetsAt |-> NoReset]} ELSE {})

Refresh ==
  /\ MayPass
  /\ \E shown \in Reading : card' = shown /\ Pass(shown, toggles)
  /\ probed' = TRUE
  /\ UNCHANGED <<now, used, resets, toggles>>

\* Another card changed: the effect runs over the same reading, later.
Rerender ==
  /\ MayPass
  /\ Pass(card, toggles)
  /\ UNCHANGED <<now, used, resets, card, toggles, probed>>

\* hydrate, setSettings and setToggle of the notifications store.
SetToggles(on) ==
  /\ MayPass
  /\ on # toggles
  /\ toggles' = on
  /\ Pass(card, on)
  /\ UNCHANGED <<now, used, resets, card, probed>>

\* The delivery of the first alert of a pass ends; the next one is sent.
Settle(i, ok) ==
  LET m == First(sending[i])
  IN  /\ ok \/ "fail" \in Disturbance
      /\ state' = IF ok THEN [state EXCEPT !.firedMilestones = @ \cup {m}] ELSE state
      /\ failed' = IF ok THEN failed \ {m} ELSE failed \cup {m}
      /\ sending' = IF sending[i] = {m} THEN RemoveAt(sending, i)
                    ELSE [sending EXCEPT ![i] = @ \ {m}]
      /\ UNCHANGED <<now, used, resets, card, toggles, probed, last, told>>

\* Time passes; a window that ends is followed by an unused one.
Tick ==
  /\ \E t \in Moments :
       /\ t > now /\ \A u \in Moments : u > now => t <= u
       /\ now' = t
       /\ resets' = IF t >= resets THEN resets + Period ELSE resets
       /\ used' = IF t >= resets THEN 0 ELSE used
  /\ UNCHANGED <<card, toggles, state, sending, probed, last, told, failed>>

\* The account is used, or the provider grants more (usage goes down).
Use ==
  /\ \E u \in Levels : u # used /\ used' = u
  /\ UNCHANGED <<now, resets, card, toggles, state, sending, probed, last, told, failed>>

Init ==
  /\ now \in {m \in Moments : m < Period}
  /\ used \in Levels
  /\ resets = Period
  /\ card \in {NoCard} \cup
       (IF "cached" \in Disturbance
        THEN {[used |-> u, limit |-> Limit, period |-> Period, resetsAt |-> Period] : u \in Levels}
        ELSE {})
  /\ toggles = {}
  /\ state = initialNotificationState
  /\ sending = <<>>
  /\ probed = FALSE
  /\ last = Quiet /\ told = {} /\ failed = {}

Next ==
  \/ Refresh \/ Rerender \/ Tick \/ Use
  \/ \E on \in Settings : SetToggles(on)
  \/ \E i \in DOMAIN sending, ok \in BOOLEAN : Settle(i, ok)

Spec == Init /\ [][Next]_vars

-----------------------------------------------------------------------------
(* Properties.                                                             *)

TypeOK ==
  /\ now \in Moments /\ used \in Levels \cup {0} /\ resets \in Nat
  /\ card \in [used : Levels \cup {0}, limit : {-1, 0, Limit}, resetsAt : Nat, period : {Period}]
  /\ toggles \subseteq Milestones
  /\ state \in NotificationState
  /\ sending \in Seq((SUBSET Milestones) \ {{}}) /\ Len(sending) <= MaxSending
  /\ probed \in BOOLEAN
  /\ last \in [fired : SUBSET Milestones, again : SUBSET Milestones,
               missed : SUBSET Milestones, unsent : SUBSET Milestones]
  /\ told \subseteq Milestones /\ failed \subseteq Milestones

\* A milestone is alerted once per window and metric, unless the metric has
\* recovered below it in between; a state the first reading showed is not
\* alerted at all.  (docs/notifications.md, "Once per window", "No launch spam",
\* "Worsening edges only", "Recovery re-arms".)
AlertsAreNotRepeated == last.again = {}

\* What is due is told: a worsening that the user wants to hear of is not lost
\* because its toggle was off, because readings without data lay in between,
\* or because the mark of an earlier alert was left behind.
WorseningIsTold == last.missed = {}

\* "The caller marks each one only after its notification is delivered, so a
\* failed/blocked delivery re-fires next pass." (pace-notifications.ts)
FailedDeliveryRefires == last.unsent = {}
=============================================================================
