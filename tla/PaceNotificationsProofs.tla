----------------------- MODULE PaceNotificationsProofs -----------------------
(***************************************************************************)
(* Proofs about PaceStatus and PaceNotifications.  The invariant says what *)
(* of the contract's memory (told) the code's own state still knows:       *)
(* whatever has been told is blocked by the bucket or the flag the code    *)
(* compares with, whether or not the mark of its delivery has arrived.     *)
(***************************************************************************)
EXTENDS PaceNotifications, TLAPS, SequenceTheorems

\* The tooltip's deficit and the pace colour agree: there is a deficit exactly
\* when the pace is behind, although the two functions compute it differently.
THEOREM DeficitIffBehind ==
  ASSUME NEW amount \in Nat, NEW limit \in Int, NEW resetsAt \in Int,
         NEW period \in Int, NEW t \in Int
  PROVE  calculatePaceStatus(amount, limit, resetsAt, period, t) = "behind"
           <=> calculateDeficit(amount, limit, resetsAt, period, t) > 0
<1> DEFINE elapsed == t - (resetsAt - period)
           projected == amount * period
           budget == limit * elapsed
<1>1. elapsed \in Int /\ projected \in Int /\ budget \in Int
  OBVIOUS
<1>2. elapsed * limit = budget
  OBVIOUS
<1>3. CASE ~Calculable(limit, resetsAt, period, t)
  BY <1>3 DEF calculatePaceStatus, calculateDeficit
<1>4. CASE Calculable(limit, resetsAt, period, t)
  <2>1. limit > 0 /\ period > 0 /\ elapsed > 0 /\ elapsed < period
    BY <1>4 DEF Calculable
  <2>2. budget > 0
    BY <2>1
  <2>3. amount >= limit => projected > budget
    <3>1. ASSUME amount >= limit PROVE amount * period >= limit * period
      BY <2>1, <3>1
    <3>2. limit * period > limit * elapsed
      BY <2>1
    <3> QED
      BY <3>1, <3>2, <1>1
  <2>4. amount = 0 => projected = 0
    OBVIOUS
  <2> HIDE DEF projected, budget
  <2>5. calculateDeficit(amount, limit, resetsAt, period, t) > 0
          <=> ~(TooEarly(resetsAt, period, t) /\ amount < limit) /\ projected - budget > 0
    BY <1>4, <1>1, <1>2 DEF calculateDeficit, Elapsed, projected, budget
  <2>6. calculatePaceStatus(amount, limit, resetsAt, period, t) = "behind"
          <=> /\ amount # 0
              /\ \/ amount >= limit
                 \/ ~TooEarly(resetsAt, period, t) /\ 10 * projected > 8 * budget
                      /\ projected > budget
    BY <1>4, <1>1 DEF calculatePaceStatus, Elapsed, Projected, projected, budget
  <2> QED
    BY <2>1, <2>2, <2>3, <2>4, <2>5, <2>6, <1>1
<1> QED
  BY <1>3, <1>4

-----------------------------------------------------------------------------
Readings ==
  [used : Levels \cup {0}, limit : {-1, 0, Limit}, resetsAt : Nat, period : {Period}]

LEMMA BucketType ==
  ASSUME NEW status PROVE BucketOf(status) \in Buckets
  BY DEF BucketOf, Buckets

LEMMA ObservationType ==
  ASSUME NEW reading \in Readings, now \in Nat
  PROVE  deriveObservation(reading, now) \in Observation
<1>a. Levels \subseteq Nat /\ Limit \in Nat
  BY PaceAssumption, Zenon DEF PaceAssumption
<1>1. reading.used \in Nat /\ reading.limit \in Int /\ reading.resetsAt \in Nat
  <2>1. /\ reading.used \in Levels \cup {0} /\ reading.limit \in {-1, 0, Limit}
        /\ reading.resetsAt \in Nat
    BY Zenon DEF Readings
  <2>2. reading.used \in Levels => reading.used \in Nat
    BY <1>a, Zenon
  <2>3. reading.used \in {0} => reading.used \in Nat
    OBVIOUS
  <2>4. reading.limit \in Int
    BY <1>a, <2>1
  <2> QED
    BY <2>1, <2>2, <2>3, <2>4, Zenon
<1>2. NoData \in Observation
  BY DEF NoData, Observation, NoReset
<1> DEFINE b == IF reading.used >= reading.limit THEN "runningOut"
                ELSE IF reading.resetsAt = NoReset THEN "untracked"
                ELSE BucketOf(calculatePaceStatus(reading.used, reading.limit,
                                reading.resetsAt, reading.period, now))
           z == reading.used <= 0
           u == 10 * (reading.limit - reading.used) < reading.limit
           e == 100 * reading.used >= 99 * reading.limit
<1>3. b \in Buckets
  BY BucketType DEF Buckets
<1>4. z \in BOOLEAN /\ u \in BOOLEAN /\ e \in BOOLEAN
  BY <1>1
<1>5. deriveObservation(reading, now) =
        IF reading.limit <= 0 THEN NoData
        ELSE [bucket |-> b, zero |-> z, under |-> u, exhausted |-> e,
              resetsAt |-> reading.resetsAt]
  BY Zenon DEF deriveObservation
<1> HIDE DEF b, z, u, e
<1>6. [bucket |-> b, zero |-> z, under |-> u, exhausted |-> e,
       resetsAt |-> reading.resetsAt] \in Observation
  BY <1>1, <1>3, <1>4, Zenon DEF Observation
<1> QED
  BY <1>2, <1>5, <1>6

-----------------------------------------------------------------------------
\* What the code's state s has to know of what was told.
Known(s, t) ==
  /\ ~s.primed => t = {}
  /\ "underTenPercent" \in t => s.wasUnderTenPercent
  /\ "closeToRunningOut" \in t => s.previousBucket = "runningOut"
  /\ "healthyToClose" \in t => s.previousBucket \in {"close", "runningOut"}
  /\ "sessionReset" \in t => ~s.wasAboveZeroUsed

LEMMA ObservationFields ==
  ASSUME NEW obs \in Observation
  PROVE  /\ obs.bucket \in Buckets \cup {"noData"}
         /\ obs.zero \in BOOLEAN /\ obs.under \in BOOLEAN /\ obs.exhausted \in BOOLEAN
         /\ obs.resetsAt \in Nat
<1>1. obs.bucket \in Buckets \cup {"noData"} /\ obs.resetsAt \in Nat
  BY DEF Observation
<1>2. obs.zero \in BOOLEAN /\ obs.under \in BOOLEAN /\ obs.exhausted \in BOOLEAN
  BY Zenon DEF Observation
<1> QED
  BY <1>1, <1>2

LEMMA StateFields ==
  ASSUME NEW s \in NotificationState
  PROVE  /\ s.resetsAt \in Nat /\ s.firedMilestones \in SUBSET Milestones
         /\ s.previousBucket \in Buckets
         /\ s.wasUnderTenPercent \in BOOLEAN /\ s.wasAboveZeroUsed \in BOOLEAN
         /\ s.primed \in BOOLEAN
  BY Zenon DEF NotificationState

\* A state is determined by its fields; used to build one with new fields.
LEMMA StateOf ==
  ASSUME NEW r \in Nat, NEW f \in SUBSET Milestones, NEW b \in Buckets,
         NEW u \in BOOLEAN, NEW z \in BOOLEAN, NEW p \in BOOLEAN
  PROVE  [resetsAt |-> r, firedMilestones |-> f, previousBucket |-> b,
          wasUnderTenPercent |-> u, wasAboveZeroUsed |-> z, primed |-> p] \in NotificationState
  BY Zenon DEF NotificationState

LEMMA InWindowFields ==
  ASSUME NEW obs \in Observation, NEW s \in NotificationState
  PROVE  /\ InWindow(obs, s) \in NotificationState
         /\ InWindow(obs, s).primed = s.primed
         /\ InWindow(obs, s).wasAboveZeroUsed = s.wasAboveZeroUsed
         /\ NewWindow(obs, s) => /\ InWindow(obs, s).previousBucket = "untracked"
                                 /\ InWindow(obs, s).wasUnderTenPercent = FALSE
         /\ ~NewWindow(obs, s) => /\ InWindow(obs, s).previousBucket = s.previousBucket
                                  /\ InWindow(obs, s).wasUnderTenPercent = s.wasUnderTenPercent
<1> DEFINE at == IF obs.resetsAt = NoReset THEN s.resetsAt ELSE obs.resetsAt
<1>1. at \in Nat /\ {} \in SUBSET Milestones /\ "untracked" \in Buckets
  BY ObservationFields, StateFields DEF Buckets
<1>2. CASE NewWindow(obs, s)
  <2>1. InWindow(obs, s) = [s EXCEPT !.resetsAt = at, !.firedMilestones = {},
                              !.wasUnderTenPercent = FALSE, !.previousBucket = "untracked"]
    BY <1>2 DEF InWindow
  <2> HIDE DEF at
  <2> QED
    BY <2>1, <1>1, <1>2, Zenon DEF NotificationState
<1>3. CASE ~NewWindow(obs, s)
  <2>1. InWindow(obs, s) = [s EXCEPT !.resetsAt = at]
    BY <1>3 DEF InWindow
  <2> HIDE DEF at
  <2> QED
    BY <2>1, <1>1, <1>3, Zenon DEF NotificationState
<1> QED
  BY <1>2, <1>3

LEMMA NotBoolean ==
  ASSUME NEW x \in BOOLEAN PROVE (~x) \in BOOLEAN
  OBVIOUS

LEMMA PrimedFields ==
  ASSUME NEW obs \in Observation, NEW s \in NotificationState, obs.bucket # "noData"
  PROVE  /\ Primed(obs, s) \in NotificationState
         /\ Primed(obs, s).primed = TRUE
         /\ Primed(obs, s).previousBucket = obs.bucket
         /\ Primed(obs, s).wasUnderTenPercent = obs.under
         /\ Primed(obs, s).wasAboveZeroUsed = ~obs.zero
<1>1. obs.bucket \in Buckets /\ obs.under \in BOOLEAN /\ obs.zero \in BOOLEAN
  BY ObservationFields
<1>2. (~obs.zero) \in BOOLEAN
  BY <1>1, NotBoolean
<1>3. {} \in SUBSET Milestones
  OBVIOUS
<1> QED
  BY <1>1, <1>2, <1>3, Zenon DEF Primed, NotificationState

LEMMA AfterSessionFields ==
  ASSUME NEW obs \in Observation, NEW s \in NotificationState
  PROVE  /\ AfterSession(obs, s) \in NotificationState
         /\ AfterSession(obs, s).primed = s.primed
         /\ AfterSession(obs, s).previousBucket = s.previousBucket
         /\ AfterSession(obs, s).wasUnderTenPercent = s.wasUnderTenPercent
         /\ AfterSession(obs, s).wasAboveZeroUsed = ~obs.zero
<1> DEFINE f == IF obs.zero THEN s.firedMilestones ELSE s.firedMilestones \ {"sessionReset"}
<1>1. f \in SUBSET Milestones
  BY StateFields
<1>2. (~obs.zero) \in BOOLEAN
  BY ObservationFields, NotBoolean
<1>3. AfterSession(obs, s) = [s EXCEPT !.wasAboveZeroUsed = ~obs.zero, !.firedMilestones = f]
  BY Zenon DEF AfterSession
<1> HIDE DEF f
<1> QED
  BY <1>1, <1>2, <1>3, Zenon DEF NotificationState

LEMMA ExhaustedFields ==
  ASSUME NEW obs \in Observation, NEW s \in NotificationState, obs.bucket # "noData"
  PROVE  /\ Exhausted(obs, s) \in NotificationState
         /\ Exhausted(obs, s).primed = s.primed
         /\ Exhausted(obs, s).previousBucket = obs.bucket
         /\ Exhausted(obs, s).wasUnderTenPercent = TRUE
         /\ Exhausted(obs, s).wasAboveZeroUsed = s.wasAboveZeroUsed
<1>1. obs.bucket \in Buckets
  BY ObservationFields
<1> QED
  BY <1>1, Zenon DEF Exhausted, NotificationState

LEMMA AfterPaceFields ==
  ASSUME NEW obs \in Observation, NEW s \in NotificationState, NEW on,
         obs.bucket # "noData"
  PROVE  /\ AfterPace(obs, s, on) \in NotificationState
         /\ AfterPace(obs, s, on).primed = s.primed
         /\ AfterPace(obs, s, on).wasUnderTenPercent = s.wasUnderTenPercent
         /\ AfterPace(obs, s, on).wasAboveZeroUsed = s.wasAboveZeroUsed
         /\ "underTenPercent" \in AfterPace(obs, s, on).firedMilestones
              <=> "underTenPercent" \in s.firedMilestones
         /\ AfterPace(obs, s, on).previousBucket =
              IF /\ obs.bucket # "untracked"
                 /\ \/ SEVERITY[obs.bucket] <= SEVERITY[s.previousBucket]
                    \/ PaceFires(obs, s, on) # {}
              THEN obs.bucket ELSE s.previousBucket
<1>1. obs.bucket \in Buckets /\ s.previousBucket \in Buckets
  BY ObservationFields, StateFields
<1> DEFINE was == SEVERITY[s.previousBucket]
           is  == SEVERITY[obs.bucket]
           cleared == {m \in {"healthyToClose"} : is < was /\ is <= SEVERITY["healthy"]}
                 \cup {m \in {"closeToRunningOut"} : is < was /\ is <= SEVERITY["close"]}
           f == s.firedMilestones \ cleared
           b == IF is <= was \/ PaceFires(obs, s, on) # {} THEN obs.bucket ELSE s.previousBucket
<1>2. f \in SUBSET Milestones /\ b \in Buckets
  BY <1>1, StateFields, Zenon
<1>3. CASE obs.bucket = "untracked"
  BY <1>3 DEF AfterPace
<1>4. CASE obs.bucket # "untracked"
  <2>1. AfterPace(obs, s, on) = [s EXCEPT !.firedMilestones = f, !.previousBucket = b]
    BY <1>4, Zenon DEF AfterPace
  <2>2. b = IF /\ obs.bucket # "untracked"
               /\ \/ SEVERITY[obs.bucket] <= SEVERITY[s.previousBucket]
                  \/ PaceFires(obs, s, on) # {}
            THEN obs.bucket ELSE s.previousBucket
    BY <1>4, Zenon
  <2>4. "underTenPercent" \in f <=> "underTenPercent" \in s.firedMilestones
    BY DEF f, cleared
  <2> HIDE DEF f, b, was, is, cleared
  <2>3. /\ AfterPace(obs, s, on) \in NotificationState
        /\ AfterPace(obs, s, on).previousBucket = b
        /\ AfterPace(obs, s, on).firedMilestones = f
        /\ AfterPace(obs, s, on).primed = s.primed
        /\ AfterPace(obs, s, on).wasUnderTenPercent = s.wasUnderTenPercent
        /\ AfterPace(obs, s, on).wasAboveZeroUsed = s.wasAboveZeroUsed
    BY <2>1, <1>2, Zenon DEF NotificationState
  <2> QED
    BY <2>2, <2>3, <2>4, Zenon
<1> QED
  BY <1>3, <1>4

LEMMA AfterUnderFields ==
  ASSUME NEW obs \in Observation, NEW s \in NotificationState, NEW on
  PROVE  /\ AfterUnder(obs, s, on) \in NotificationState
         /\ AfterUnder(obs, s, on).primed = s.primed
         /\ AfterUnder(obs, s, on).previousBucket = s.previousBucket
         /\ AfterUnder(obs, s, on).wasAboveZeroUsed = s.wasAboveZeroUsed
         /\ obs.under /\ (s.wasUnderTenPercent \/ UnderFires(obs, s, on) # {})
              => AfterUnder(obs, s, on).wasUnderTenPercent
<1> DEFINE f == IF obs.under THEN s.firedMilestones ELSE s.firedMilestones \ {"underTenPercent"}
           u == IF obs.under /\ ~s.wasUnderTenPercent /\ UnderFires(obs, s, on) = {}
                THEN s.wasUnderTenPercent ELSE obs.under
<1>1. f \in SUBSET Milestones
  BY StateFields
<1>2. u \in BOOLEAN
  BY StateFields, ObservationFields, Zenon
<1>3. AfterUnder(obs, s, on) = [s EXCEPT !.firedMilestones = f, !.wasUnderTenPercent = u]
  BY Zenon DEF AfterUnder
<1>4. obs.under /\ (s.wasUnderTenPercent \/ UnderFires(obs, s, on) # {}) => u
  BY Zenon
<1> HIDE DEF f, u
<1> QED
  BY <1>1, <1>2, <1>3, <1>4, Zenon DEF NotificationState

-----------------------------------------------------------------------------
\* What a pass does to the state and to what has been told, case by case.
LEMMA TransitionKnown ==
  ASSUME NEW obs \in Observation, NEW s \in NotificationState, NEW on \in SUBSET Milestones,
         told \in SUBSET Milestones, Known(s, told), "jitter" \notin Disturbance
  PROVE  LET result == transitions(obs, s, on)
         IN  /\ result.newState \in NotificationState
             /\ result.fire \in SUBSET Milestones
             /\ Known(result.newState, NowTold(obs, s, result.fire))
             /\ result.fire \cap StillTold(obs, s) = {}
<1> DEFINE w == InWindow(obs, s)
           t == AfterSession(obs, w)
           result == transitions(obs, s, on)
           still == StillTold(obs, s)
<1>0. /\ obs.bucket \in Buckets \cup {"noData"}
      /\ obs.zero \in BOOLEAN /\ obs.under \in BOOLEAN /\ obs.exhausted \in BOOLEAN
      /\ obs.resetsAt \in Nat
  BY ObservationFields
<1>1. OtherWindow(obs, s) <=> NewWindow(obs, s)
  BY <1>0, StateFields DEF OtherWindow, NewWindow, Slack
<1>2. still \subseteq told /\ still \subseteq Milestones
  BY DEF StillTold
\* Readings of a new window arm everything but the session reset.
<1>3. NewWindow(obs, s) => still \subseteq {"sessionReset"}
  BY <1>1, <1>2 DEF StillTold, Armed
<1>4. /\ ~s.primed => still = {}
      /\ w \in NotificationState /\ t \in NotificationState
      /\ w.primed = s.primed /\ t.primed = s.primed
  <2>1. ~s.primed => still = {}
    BY <1>2 DEF Known
  <2>2. w \in NotificationState /\ w.primed = s.primed
    BY InWindowFields, Zenon
  <2>3. t \in NotificationState /\ t.primed = w.primed
    BY <2>2, AfterSessionFields, Zenon
  <2> QED
    BY <2>1, <2>2, <2>3, Zenon
<1>5. Known(w, still)
  <2>1. ~w.primed => still = {}
    BY <1>4, Zenon
  <2>2. "underTenPercent" \in still => w.wasUnderTenPercent
    BY <1>2, <1>3, InWindowFields, Zenon DEF Known
  <2>3. "closeToRunningOut" \in still => w.previousBucket = "runningOut"
    BY <1>2, <1>3, InWindowFields, Zenon DEF Known
  <2>4. "healthyToClose" \in still => w.previousBucket \in {"close", "runningOut"}
    BY <1>2, <1>3, InWindowFields, Zenon DEF Known
  <2>5. "sessionReset" \in still => ~w.wasAboveZeroUsed
    BY <1>2, InWindowFields, Zenon DEF Known
  <2> QED
    BY <2>1, <2>2, <2>3, <2>4, <2>5, Zenon DEF Known
<1>6. CASE obs.bucket = "noData"
  <2>1. result = [fire |-> {}, newState |-> w]
    BY <1>6 DEF transitions
  <2>2. NowTold(obs, s, {}) = still
    BY <1>6 DEF NowTold
  <2> QED
    BY <2>1, <2>2, <1>4, <1>5
\* An observation clears what it shows to have recovered.
<1>7. ASSUME obs.bucket # "noData"
      PROVE  /\ "underTenPercent" \in still => obs.under
             /\ "sessionReset" \in still => obs.zero
             /\ "closeToRunningOut" \in still =>
                  \/ obs.bucket = "runningOut"
                  \/ obs.bucket = "untracked" /\ ~obs.exhausted
             /\ "healthyToClose" \in still =>
                  \/ obs.bucket \in {"close", "runningOut"}
                  \/ obs.bucket = "untracked" /\ ~obs.exhausted
  <2>1. still \cap Recovered(obs) = {}
    BY DEF StillTold, Armed
  <2>2. Recovered(obs) = (Milestones \ Holds(obs))
                          \ (IF obs.bucket = "untracked" /\ ~obs.exhausted
                             THEN {"healthyToClose", "closeToRunningOut"} ELSE {})
    BY <1>7, Zenon DEF Recovered
  <2>3. /\ "underTenPercent" \in Holds(obs) => obs.under
        /\ "sessionReset" \in Holds(obs) => obs.zero
        /\ "closeToRunningOut" \in Holds(obs) => obs.bucket = "runningOut"
        /\ "healthyToClose" \in Holds(obs) => obs.bucket \in {"close", "runningOut"}
    BY Zenon DEF Holds
  <2> QED
    BY <2>1, <2>2, <2>3, <1>2 DEF Milestones
<1>8. ASSUME obs.bucket # "noData"
      PROVE  /\ "underTenPercent" \in Holds(obs) => obs.under
             /\ "sessionReset" \in Holds(obs) => obs.zero
             /\ "closeToRunningOut" \in Holds(obs) => obs.bucket = "runningOut"
             /\ "healthyToClose" \in Holds(obs) => obs.bucket \in {"close", "runningOut"}
  BY Zenon DEF Holds
<1>9. CASE obs.bucket # "noData" /\ ~s.primed
  <2>1. result = [fire |-> {}, newState |-> Primed(obs, w)]
    BY <1>9, <1>4 DEF transitions
  <2>2. NowTold(obs, s, {}) = Holds(obs)
    BY <1>9, <1>4 DEF NowTold
  <2>3. Known(Primed(obs, w), Holds(obs))
    BY <1>8, <1>9, <1>4, PrimedFields, Zenon DEF Known
  <2>4. still = {}
    BY <1>9, <1>4
  <2>5. Primed(obs, w) \in NotificationState
    BY <1>9, <1>4, PrimedFields
  <2> HIDE DEF w, t, still
  <2> QED
    BY <2>1, <2>2, <2>3, <2>4, <2>5 DEF still
<1>10. CASE obs.bucket # "noData" /\ s.primed /\ obs.exhausted
  <2>1. result = [fire |-> {}, newState |-> Exhausted(obs, t)]
    BY <1>10, <1>4 DEF transitions
  <2>2. NowTold(obs, s, {}) = still \cup Holds(obs)
    BY <1>10 DEF NowTold
  <2>3. Known(Exhausted(obs, t), still \cup Holds(obs))
    BY <1>7, <1>8, <1>10, <1>4, ExhaustedFields, AfterSessionFields, Zenon DEF Known
  <2>4. Exhausted(obs, t) \in NotificationState
    BY <1>10, <1>4, ExhaustedFields
  <2> QED
    BY <2>1, <2>2, <2>3, <2>4
<1>11. CASE obs.bucket # "noData" /\ s.primed /\ ~obs.exhausted
  <2> DEFINE sf == SessionFires(obs, w, on)
             pf == PaceFires(obs, t, on)
             uf == UnderFires(obs, t, on)
             p == AfterPace(obs, t, on)
             u == AfterUnder(obs, p, on)
             fire == sf \cup pf \cup uf
             new == NowTold(obs, s, fire)
  <2>1. result = [fire |-> fire, newState |-> u]
    BY <1>11, <1>4 DEF transitions
  <2>2. p \in NotificationState /\ u \in NotificationState
    BY <1>4, <1>11, AfterPaceFields, AfterUnderFields
  <2>3. /\ sf \subseteq {"sessionReset"} /\ uf \subseteq {"underTenPercent"}
        /\ pf \subseteq {"healthyToClose", "closeToRunningOut"}
    BY Zenon DEF SessionFires, PaceFires, UnderFires
  <2>4. sf # {} => obs.zero /\ w.wasAboveZeroUsed
    BY Zenon DEF SessionFires
  <2>5. uf # {} => obs.under /\ ~t.wasUnderTenPercent
    BY Zenon DEF UnderFires
  <2>6. /\ t.previousBucket = w.previousBucket
        /\ t.wasUnderTenPercent = w.wasUnderTenPercent
        /\ t.wasAboveZeroUsed = ~obs.zero
    BY <1>4, AfterSessionFields, Zenon
  <2>7. /\ "healthyToClose" \in pf =>
             obs.bucket = "close" /\ t.previousBucket \notin {"close", "runningOut"}
        /\ "closeToRunningOut" \in pf =>
             obs.bucket = "runningOut" /\ t.previousBucket # "runningOut"
    <3>1. obs.bucket \in Buckets /\ t.previousBucket \in Buckets
      BY <1>0, <1>4, <1>11, StateFields
    <3> QED
      BY <3>1 DEF PaceFires, SEVERITY, Buckets
  <2>8. fire \cap still = {}
    BY <2>3, <2>4, <2>5, <2>6, <2>7, <1>5, Zenon DEF Known
  <2>9. new = still \cup fire
                \cup (IF "closeToRunningOut" \in fire THEN {"healthyToClose"} ELSE {})
    BY <1>11 DEF NowTold
  <2>10. /\ p.primed = t.primed /\ p.wasUnderTenPercent = t.wasUnderTenPercent
         /\ p.wasAboveZeroUsed = t.wasAboveZeroUsed
         /\ "underTenPercent" \in p.firedMilestones <=> "underTenPercent" \in t.firedMilestones
         /\ p.previousBucket =
              IF /\ obs.bucket # "untracked"
                 /\ SEVERITY[obs.bucket] <= SEVERITY[t.previousBucket] \/ pf # {}
              THEN obs.bucket ELSE t.previousBucket
    BY <1>4, <1>11, AfterPaceFields, Zenon
  <2>11. UnderFires(obs, p, on) = uf
    BY <2>10 DEF UnderFires, maybeFire
  <2>12. /\ u.primed = p.primed /\ u.previousBucket = p.previousBucket
         /\ u.wasAboveZeroUsed = p.wasAboveZeroUsed
         /\ obs.under /\ (p.wasUnderTenPercent \/ uf # {}) => u.wasUnderTenPercent
    <3> HIDE DEF p
    <3> QED
      BY <2>2, <2>11, AfterUnderFields, Zenon
  <2> HIDE DEF p, u, sf, pf, uf, fire, new, w, t, still
  <2>13. u.primed
    BY <1>4, <1>11, <2>10, <2>12, Zenon
  <2>14. "underTenPercent" \in new => u.wasUnderTenPercent
    <3>1. "underTenPercent" \in new => "underTenPercent" \in still \/ "underTenPercent" \in uf
      BY <2>9, <2>3 DEF fire
    <3>2. "underTenPercent" \in still => obs.under /\ w.wasUnderTenPercent
      BY <1>5, <1>7, <1>11, Zenon DEF Known
    <3>3. "underTenPercent" \in uf => obs.under /\ uf # {}
      BY <2>5, Zenon
    <3> QED
      BY <3>1, <3>2, <3>3, <2>6, <2>10, <2>12, Zenon
  <2>15. "closeToRunningOut" \in new => u.previousBucket = "runningOut"
    <3>1. "closeToRunningOut" \in new =>
            "closeToRunningOut" \in still \/ "closeToRunningOut" \in pf
      BY <2>9, <2>3 DEF fire
    <3>2. CASE "closeToRunningOut" \in still
      BY <3>2, <1>5, <1>7, <1>11, <2>6, <2>10, <2>12 DEF Known
    <3>3. CASE "closeToRunningOut" \in pf
      BY <3>3, <2>7, <2>10, <2>12
    <3> QED
      BY <3>1, <3>2, <3>3
  <2>16. "healthyToClose" \in new => u.previousBucket \in {"close", "runningOut"}
    <3>1. "healthyToClose" \in new =>
            "healthyToClose" \in still \/ "healthyToClose" \in pf \/ "closeToRunningOut" \in pf
      BY <2>9, <2>3 DEF fire
    <3>2. CASE "healthyToClose" \in still
      BY <3>2, <1>5, <1>7, <1>11, <2>6, <2>10, <2>12 DEF Known
    <3>3. CASE "healthyToClose" \in pf \/ "closeToRunningOut" \in pf
      BY <3>3, <2>7, <2>10, <2>12
    <3> QED
      BY <3>1, <3>2, <3>3
  <2>17. "sessionReset" \in new => ~u.wasAboveZeroUsed
    <3>1. "sessionReset" \in new => "sessionReset" \in still \/ "sessionReset" \in sf
      BY <2>9, <2>3 DEF fire
    <3>2. "sessionReset" \in still => obs.zero
      BY <1>7, <1>11, Zenon
    <3>3. "sessionReset" \in sf => obs.zero
      BY <2>4, Zenon
    <3>4. u.wasAboveZeroUsed = ~obs.zero
      BY <2>6, <2>10, <2>12, Zenon
    <3> QED
      BY <3>1, <3>2, <3>3, <3>4, Zenon
  <2>18. Known(u, new)
    BY <2>13, <2>14, <2>15, <2>16, <2>17, Zenon DEF Known
  <2>19. fire \in SUBSET Milestones
    BY <2>3 DEF fire, Milestones
  <2> QED
    BY <2>1, <2>2, <2>8, <2>18, <2>19 DEF new, still
<1> HIDE DEF w, t, still, result
<1> QED
  BY <1>0, <1>6, <1>9, <1>10, <1>11, StateFields DEF still, result

LEMMA TransitionType ==
  ASSUME NEW obs \in Observation, NEW s \in NotificationState, NEW on \in SUBSET Milestones
  PROVE  /\ transitions(obs, s, on).newState \in NotificationState
         /\ transitions(obs, s, on).fire \in SUBSET Milestones
<1> DEFINE w == InWindow(obs, s)
           t == AfterSession(obs, w)
           p == AfterPace(obs, t, on)
<1>1. w \in NotificationState /\ t \in NotificationState
  BY InWindowFields, AfterSessionFields
<1>2. obs.bucket \in Buckets \cup {"noData"} /\ obs.exhausted \in BOOLEAN
      /\ w.primed \in BOOLEAN
  BY <1>1, ObservationFields, StateFields
<1>3. CASE obs.bucket = "noData"
  BY <1>3, <1>1 DEF transitions
<1>4. CASE obs.bucket # "noData" /\ ~w.primed
  BY <1>4, <1>1, PrimedFields DEF transitions
<1>5. CASE obs.bucket # "noData" /\ w.primed /\ obs.exhausted
  BY <1>5, <1>1, ExhaustedFields DEF transitions
<1>6. CASE obs.bucket # "noData" /\ w.primed /\ ~obs.exhausted
  <2> DEFINE fire == SessionFires(obs, w, on) \cup PaceFires(obs, t, on)
                       \cup UnderFires(obs, t, on)
  <2>1. transitions(obs, s, on) = [fire |-> fire, newState |-> AfterUnder(obs, p, on)]
    BY <1>6 DEF transitions
  <2>2. AfterUnder(obs, p, on) \in NotificationState
    BY <1>1, <1>6, AfterPaceFields, AfterUnderFields
  <2>3. fire \in SUBSET Milestones
    BY DEF SessionFires, PaceFires, UnderFires, Milestones
  <2> QED
    BY <2>1, <2>2, <2>3
<1> QED
  BY <1>2, <1>3, <1>4, <1>5, <1>6

LEMMA FirstIn ==
  ASSUME NEW pass \in (SUBSET Milestones) \ {{}}
  PROVE  First(pass) \in pass
<1>1. \E m \in pass : \A n \in pass : Rank[m] <= Rank[n]
  <2>1. pass \subseteq Milestones /\ pass # {}
    OBVIOUS
  <2>2. CASE "sessionReset" \in pass
    BY <2>1, <2>2 DEF Rank, Milestones
  <2>3. CASE "sessionReset" \notin pass /\ "healthyToClose" \in pass
    BY <2>1, <2>3 DEF Rank, Milestones
  <2>4. CASE /\ "sessionReset" \notin pass /\ "healthyToClose" \notin pass
             /\ "closeToRunningOut" \in pass
    BY <2>1, <2>4 DEF Rank, Milestones
  <2>5. CASE pass = {"underTenPercent"}
    BY <2>5 DEF Rank
  <2> QED
    BY <2>1, <2>2, <2>3, <2>4, <2>5 DEF Milestones
<1> QED
  BY <1>1 DEF First

LEMMA RemoveAtType ==
  ASSUME NEW S, NEW seq \in Seq(S), NEW i \in DOMAIN seq
  PROVE  RemoveAt(seq, i) \in Seq(S) /\ Len(RemoveAt(seq, i)) = Len(seq) - 1
<1>1. i \in 1 .. Len(seq) /\ Len(seq) \in Nat /\ \A j \in 1 .. Len(seq) : seq[j] \in S
  OBVIOUS
<1>2. /\ SubSeq(seq, 1, i - 1) \in Seq(S)
      /\ Len(SubSeq(seq, 1, i - 1)) = IF 1 <= i - 1 THEN (i - 1) - 1 + 1 ELSE 0
  BY <1>1, SubSeqProperties
<1>3. /\ SubSeq(seq, i + 1, Len(seq)) \in Seq(S)
      /\ Len(SubSeq(seq, i + 1, Len(seq))) =
           IF i + 1 <= Len(seq) THEN Len(seq) - (i + 1) + 1 ELSE 0
  BY <1>1, SubSeqProperties
<1>4. /\ RemoveAt(seq, i) \in Seq(S)
      /\ Len(RemoveAt(seq, i)) = Len(SubSeq(seq, 1, i - 1)) + Len(SubSeq(seq, i + 1, Len(seq)))
  BY <1>2, <1>3, ConcatProperties DEF RemoveAt
<1> QED
  BY <1>1, <1>2, <1>3, <1>4

-----------------------------------------------------------------------------
LEMMA Constants ==
  /\ Levels \subseteq Nat /\ Moments \subseteq Nat
  /\ Limit \in Nat \ {0} /\ Period \in Nat \ {0} /\ MaxSending \in Nat \ {0}
  /\ Settings \subseteq SUBSET Milestones
  BY PaceAssumption, Zenon DEF PaceAssumption

\* What a pass over a typed reading does.
LEMMA PassStep ==
  ASSUME TypeOK, MayPass, NEW shown \in Readings, NEW on \in SUBSET Milestones,
         Pass(shown, on)
  PROVE  /\ state' \in NotificationState
         /\ sending' \in Seq((SUBSET Milestones) \ {{}}) /\ Len(sending') <= MaxSending
         /\ told' \subseteq Milestones /\ failed' \subseteq Milestones
         /\ last' \in [fired : SUBSET Milestones, again : SUBSET Milestones,
                        missed : SUBSET Milestones, unsent : SUBSET Milestones]
         /\ "jitter" \notin Disturbance /\ Known(state, told)
              => Known(state', told') /\ last'.again = {}
<1> DEFINE obs == deriveObservation(shown, now)
           fire == transitions(obs, state, on).fire
<1>1. CASE on = {} \/ shown = NoCard
  <2>1. last' = Quiet /\ UNCHANGED <<state, sending, told, failed>>
    BY <1>1, Zenon DEF Pass
  <2> QED
    BY <2>1 DEF TypeOK, Quiet
<1>2. CASE ~(on = {} \/ shown = NoCard)
  <2>1. /\ state' = transitions(obs, state, on).newState
        /\ sending' = IF fire = {} THEN sending ELSE Append(sending, fire)
        /\ told' = NowTold(obs, state, fire)
        /\ failed' = failed \ (Armed(obs, state) \cup fire)
        /\ last' = [fired |-> fire, again |-> fire \cap StillTold(obs, state),
                    missed |-> Due(obs, on) \ told', unsent |-> Due(obs, on) \cap failed']
    BY <1>2, Zenon DEF Pass
  <2>2. now \in Nat /\ state \in NotificationState /\ told \in SUBSET Milestones
    BY Constants DEF TypeOK
  <2>3. obs \in Observation
    BY <2>2, ObservationType
  <2> HIDE DEF obs
  <2>4. state' \in NotificationState /\ fire \in SUBSET Milestones
    BY <2>1, <2>2, <2>3, TransitionType
  <2>5. "jitter" \notin Disturbance /\ Known(state, told)
          => Known(state', told') /\ fire \cap StillTold(obs, state) = {}
    BY <2>1, <2>2, <2>3, TransitionKnown
  <2> HIDE DEF fire
  <2>6. told' \subseteq Milestones
    BY <2>1, <2>2, <2>4 DEF NowTold, StillTold, Holds, Milestones
  <2>7. failed' \subseteq Milestones /\ Due(obs, on) \subseteq Milestones
    BY <2>1 DEF TypeOK, Due
  <2>8. sending' \in Seq((SUBSET Milestones) \ {{}}) /\ Len(sending') <= MaxSending
    <3>1. sending \in Seq((SUBSET Milestones) \ {{}}) /\ Len(sending) <= MaxSending
      BY DEF TypeOK
    <3>2. Len(sending) < MaxSending
      BY <3>1, Constants DEF MayPass
    <3> QED
      BY <2>1, <2>4, <3>1, <3>2, Constants
  <2>9. last' \in [fired : SUBSET Milestones, again : SUBSET Milestones,
                   missed : SUBSET Milestones, unsent : SUBSET Milestones]
    BY <2>1, <2>4, <2>7
  <2> QED
    BY <2>1, <2>4, <2>5, <2>6, <2>7, <2>8, <2>9
<1> QED
  BY <1>1, <1>2

LEMMA CardIsReading == TypeOK => card \in Readings
  BY DEF TypeOK, Readings

LEMMA InitType == Init => TypeOK
<1> SUFFICES ASSUME Init PROVE TypeOK
  OBVIOUS
<1>1. state \in NotificationState
  <2>1. NoReset \in Nat /\ {} \in SUBSET Milestones /\ "untracked" \in Buckets
    BY DEF NoReset, Buckets
  <2> QED
    BY <2>1, Zenon DEF Init, initialNotificationState, NotificationState
<1>2. card \in [used : Levels \cup {0}, limit : {-1, 0, Limit}, resetsAt : Nat, period : {Period}]
  BY Constants DEF Init, NoCard, NoReset
<1>3. now \in Moments /\ used \in Levels \cup {0} /\ resets \in Nat /\ toggles \subseteq Milestones
  BY Constants DEF Init
<1>4. sending \in Seq((SUBSET Milestones) \ {{}}) /\ Len(sending) <= MaxSending
  BY Constants DEF Init
<1>5. probed \in BOOLEAN
  BY Zenon DEF Init
<1>6. /\ last \in [fired : SUBSET Milestones, again : SUBSET Milestones,
                    missed : SUBSET Milestones, unsent : SUBSET Milestones]
      /\ told \subseteq Milestones /\ failed \subseteq Milestones
  BY DEF Init, Quiet
<1> QED
  BY <1>1, <1>2, <1>3, <1>4, <1>5, <1>6 DEF TypeOK

LEMMA NextInv ==
  ASSUME TypeOK, [Next]_vars
  PROVE  /\ TypeOK'
         /\ "jitter" \notin Disturbance /\ Known(state, told) /\ last.again = {}
              => Known(state, told)' /\ last'.again = {}
<1> DEFINE Memory == /\ state' \in NotificationState
                     /\ sending' \in Seq((SUBSET Milestones) \ {{}}) /\ Len(sending') <= MaxSending
                     /\ told' \subseteq Milestones /\ failed' \subseteq Milestones
                     /\ last' \in [fired : SUBSET Milestones, again : SUBSET Milestones,
                                    missed : SUBSET Milestones, unsent : SUBSET Milestones]
           World == /\ now' \in Moments /\ used' \in Levels \cup {0} /\ resets' \in Nat
           Shown == /\ card' \in [used : Levels \cup {0}, limit : {-1, 0, Limit},
                                   resetsAt : Nat, period : {Period}]
                    /\ toggles' \subseteq Milestones
<1>a. Memory /\ World /\ Shown /\ probed' \in BOOLEAN => TypeOK'
  BY Zenon DEF TypeOK
<1>1. CASE Refresh
  <2>1. PICK shown \in Reading : card' = shown /\ Pass(shown, toggles)
    BY <1>1 DEF Refresh
  <2>2. MayPass /\ probed' = TRUE /\ UNCHANGED <<now, used, resets, toggles>>
    BY <1>1, Zenon DEF Refresh
  <2>3. shown \in Readings
    BY Constants DEF TypeOK, Reading, Readings, NoReset
  <2>4. Memory /\ ("jitter" \notin Disturbance /\ Known(state, told)
                     => Known(state', told') /\ last'.again = {})
    BY <2>1, <2>2, <2>3, PassStep DEF TypeOK
  <2>5. World /\ Shown
    BY <2>1, <2>2, <2>3 DEF TypeOK, Readings
  <2>6. probed' \in BOOLEAN
    BY <2>2, Zenon
  <2> QED
    BY <1>a, <2>4, <2>5, <2>6, Zenon DEF Known
<1>2. CASE Rerender
  <2>1. Memory /\ ("jitter" \notin Disturbance /\ Known(state, told)
                     => Known(state', told') /\ last'.again = {})
    BY <1>2, CardIsReading, PassStep DEF TypeOK, Rerender
  <2>2. World /\ Shown
    BY <1>2 DEF TypeOK, Rerender
  <2>3. probed' \in BOOLEAN
    BY <1>2, Zenon DEF TypeOK, Rerender
  <2> QED
    BY <1>a, <2>1, <2>2, <2>3, Zenon DEF Known
<1>3. ASSUME NEW on \in Settings, SetToggles(on)
      PROVE  /\ TypeOK'
             /\ "jitter" \notin Disturbance /\ Known(state, told) /\ last.again = {}
                  => Known(state, told)' /\ last'.again = {}
  <2>1. on \in SUBSET Milestones
    BY Constants
  <2>2. Memory /\ ("jitter" \notin Disturbance /\ Known(state, told)
                     => Known(state', told') /\ last'.again = {})
    BY <1>3, <2>1, CardIsReading, PassStep DEF SetToggles
  <2>3. World /\ Shown
    BY <1>3, <2>1 DEF TypeOK, SetToggles
  <2>4. probed' \in BOOLEAN
    BY <1>3, Zenon DEF TypeOK, SetToggles
  <2> QED
    BY <1>a, <2>2, <2>3, <2>4, Zenon DEF Known
<1>4. CASE Tick
  <2>1. World
    BY <1>4, Constants DEF TypeOK, Tick
  <2>2. Memory /\ Shown
    BY <1>4 DEF TypeOK, Tick
  <2>3. probed' \in BOOLEAN
    BY <1>4, Zenon DEF TypeOK, Tick
  <2>4. UNCHANGED <<state, told, last>>
    BY <1>4 DEF Tick
  <2> QED
    BY <1>a, <2>1, <2>2, <2>3, <2>4, Zenon DEF Known
<1>5. CASE Use
  <2>1. World
    BY <1>5 DEF TypeOK, Use
  <2>2. Memory /\ Shown
    BY <1>5 DEF TypeOK, Use
  <2>3. probed' \in BOOLEAN
    BY <1>5, Zenon DEF TypeOK, Use
  <2>4. UNCHANGED <<state, told, last>>
    BY <1>5 DEF Use
  <2> QED
    BY <1>a, <2>1, <2>2, <2>3, <2>4, Zenon DEF Known
<1>6. ASSUME NEW i \in DOMAIN sending, NEW ok \in BOOLEAN, Settle(i, ok)
      PROVE  /\ TypeOK'
             /\ "jitter" \notin Disturbance /\ Known(state, told) /\ last.again = {}
                  => Known(state, told)' /\ last'.again = {}
  <2> DEFINE m == First(sending[i])
  <2>1. sending \in Seq((SUBSET Milestones) \ {{}}) /\ i \in 1 .. Len(sending)
    BY DEF TypeOK
  <2>2. sending[i] \in (SUBSET Milestones) \ {{}}
    BY <2>1
  <2>3. m \in Milestones
    BY <2>2, FirstIn
  <2>4. /\ state' = IF ok THEN [state EXCEPT !.firedMilestones = @ \cup {m}] ELSE state
        /\ failed' = IF ok THEN failed \ {m} ELSE failed \cup {m}
        /\ sending' = IF sending[i] = {m} THEN RemoveAt(sending, i)
                      ELSE [sending EXCEPT ![i] = @ \ {m}]
        /\ UNCHANGED <<now, used, resets, card, toggles, probed, last, told>>
    BY <1>6, Zenon DEF Settle
  <2> HIDE DEF m
  <2>5. state.firedMilestones \cup {m} \in SUBSET Milestones /\ state \in NotificationState
    BY <2>3, StateFields DEF TypeOK
  <2>6. /\ state' \in NotificationState
        /\ state'.primed = state.primed /\ state'.previousBucket = state.previousBucket
        /\ state'.wasUnderTenPercent = state.wasUnderTenPercent
        /\ state'.wasAboveZeroUsed = state.wasAboveZeroUsed
    <3>1. CASE ok
      BY <3>1, <2>4, <2>5, Zenon DEF NotificationState
    <3>2. CASE ~ok
      BY <3>2, <2>4, <2>5, Zenon
    <3> QED
      BY <3>1, <3>2
  <2>7. sending' \in Seq((SUBSET Milestones) \ {{}}) /\ Len(sending') <= MaxSending
    <3>1. CASE sending[i] = {m}
      BY <3>1, <2>1, <2>4, RemoveAtType, Constants DEF TypeOK
    <3>2. CASE sending[i] # {m}
      <4>1. sending[i] \ {m} \in (SUBSET Milestones) \ {{}}
        BY <2>2, <3>2
      <4> QED
        BY <3>2, <4>1, <2>1, <2>4, ExceptSeq DEF TypeOK
    <3> QED
      BY <3>1, <3>2
  <2>8. failed' \subseteq Milestones
    BY <2>3, <2>4 DEF TypeOK
  <2>9. Memory
    BY <2>4, <2>6, <2>7, <2>8 DEF TypeOK
  <2>10. World /\ Shown
    BY <2>4 DEF TypeOK
  <2>11. probed' \in BOOLEAN
    BY <2>4, Zenon DEF TypeOK
  <2> QED
    BY <1>a, <2>4, <2>6, <2>9, <2>10, <2>11, Zenon DEF Known
<1>7. CASE UNCHANGED vars
  <2>1. Memory /\ World /\ Shown
    BY <1>7 DEF TypeOK, vars
  <2>2. probed' \in BOOLEAN
    BY <1>7, Zenon DEF TypeOK, vars
  <2>3. UNCHANGED <<state, told, last>>
    BY <1>7 DEF vars
  <2> QED
    BY <1>a, <2>1, <2>2, <2>3, Zenon DEF Known
<1> QED
  BY <1>1, <1>2, <1>3, <1>4, <1>5, <1>6, <1>7, Zenon DEF Next

\* Type correctness of the alerts.
THEOREM TypeCorrect == Spec => []TypeOK
<1>1. TypeOK /\ [Next]_vars => TypeOK'
  BY NextInv
<1> QED
  BY InitType, <1>1, PTL DEF Spec

\* No alert is repeated within a window without a recovery in between, and none
\* is raised for what the first reading showed: whatever the amounts, the
\* windows and the toggles, and however deliveries are delayed or fail, as long
\* as the reset instant of a window is reported unchanged.
THEOREM NoRepeats == "jitter" \notin Disturbance => (Spec => []AlertsAreNotRepeated)
<1> SUFFICES ASSUME "jitter" \notin Disturbance PROVE Spec => []AlertsAreNotRepeated
  OBVIOUS
<1> DEFINE IInv == TypeOK /\ Known(state, told) /\ last.again = {}
<1>1. Init => IInv
  <2>1. Init => Known(state, told)
    BY Zenon DEF Init, Known
  <2>2. Init => last.again = {}
    BY DEF Init, Quiet
  <2> QED
    BY <2>1, <2>2, InitType
<1>2. IInv /\ [Next]_vars => IInv'
  BY NextInv
<1>3. IInv => AlertsAreNotRepeated
  BY DEF AlertsAreNotRepeated
<1> QED
  BY <1>1, <1>2, <1>3, PTL DEF Spec

-----------------------------------------------------------------------------
(* What is due is told.  The converse of Known: a bucket, a flag or a mark *)
(* that can hold an alert back stands for something that was told, up to   *)
(* two cases in which it no longer matters: the marks of the pace alerts   *)
(* once their window is over, and the mark of running out in its last      *)
(* hundredth, where only an exhausted metric can still be behind.          *)

Heard(s, t) ==
  /\ s.wasUnderTenPercent => "underTenPercent" \in t
  /\ s.previousBucket = "runningOut" => "closeToRunningOut" \in t
  /\ s.previousBucket \in {"close", "runningOut"} => "healthyToClose" \in t

PaceAlerts == {"healthyToClose", "closeToRunningOut"}

\* The last hundredth of the window that ends at `at`, and all later time.
Ending(at, t) == 99 * Period <= 100 * Elapsed(at, Period, t)

\* The window that ends at `at` is under way and old enough for a pace.
Paced(at, t) == Calculable(Limit, at, Period, t) /\ ~TooEarly(at, Period, t)

\* Multiplying by the limit does not change which rate is larger.
LEMMA Scaled ==
  ASSUME NEW a \in Int, NEW b \in Int, NEW c \in Nat \ {0}
  PROVE  (a <= b <=> c * a <= c * b) /\ (a < b <=> c * a < c * b)
<1>1. a <= b => c * a <= c * b
  OBVIOUS
<1>2. a < b => c * a < c * b
  OBVIOUS
<1>3. b < a => c * b < c * a
  OBVIOUS
<1> QED  BY <1>1, <1>2, <1>3

\* What a reading within a window says, by arithmetic: 99 % used is neither
\* ahead nor, before the last hundredth of the window, on track.
LEMMA ReadingFacts ==
  ASSUME NEW u \in Nat, NEW at \in Nat \ {0}, now \in Nat
  PROVE  LET obs == deriveObservation([used |-> u, limit |-> Limit, resetsAt |-> at,
                                       period |-> Period], now)
         IN  /\ obs.bucket \in Buckets
             /\ obs.resetsAt = at
             /\ obs.exhausted => obs.under /\ obs.bucket # "healthy"
             /\ obs.exhausted /\ obs.bucket = "close" => Ending(at, now)
             /\ Ending(at, now) /\ obs.bucket = "runningOut" => obs.exhausted
             /\ ~obs.exhausted /\ obs.bucket \in {"close", "runningOut"} => Paced(at, now)
             /\ at <= now /\ ~obs.exhausted => obs.bucket = "untracked"
             /\ Paced(at, now) => obs.bucket # "untracked"
<1> DEFINE status == calculatePaceStatus(u, Limit, at, Period, now)
           obs == deriveObservation([used |-> u, limit |-> Limit, resetsAt |-> at,
                                     period |-> Period], now)
           e == Elapsed(at, Period, now)
           projected == u * Period
           budget == Limit * e
           whole == Limit * Period
<1>1. Limit \in Nat \ {0} /\ Period \in Nat \ {0} /\ e \in Int
  BY Constants DEF Elapsed
<1>2. projected \in Int /\ budget \in Int /\ whole \in Int
  BY <1>1
<1>3. /\ obs.bucket = IF u >= Limit THEN "runningOut" ELSE BucketOf(status)
      /\ obs.under <=> 10 * (Limit - u) < Limit
      /\ obs.exhausted <=> 100 * u >= 99 * Limit
      /\ obs.resetsAt = at
  <2> DEFINE shown == [used |-> u, limit |-> Limit, resetsAt |-> at, period |-> Period]
  <2>1. /\ shown.used = u /\ shown.limit = Limit
        /\ shown.resetsAt = at /\ shown.period = Period
    BY Zenon
  <2>2. ~(Limit <= 0) /\ at # NoReset
    BY <1>1 DEF NoReset
  <2> HIDE DEF shown
  <2>3. deriveObservation(shown, now) =
          [bucket |-> IF u >= Limit THEN "runningOut" ELSE BucketOf(status),
           zero |-> u <= 0, under |-> 10 * (Limit - u) < Limit,
           exhausted |-> 100 * u >= 99 * Limit, resetsAt |-> at]
    BY <2>1, <2>2, Zenon DEF deriveObservation
  <2>4. obs = [bucket |-> IF u >= Limit THEN "runningOut" ELSE BucketOf(status),
               zero |-> u <= 0, under |-> 10 * (Limit - u) < Limit,
               exhausted |-> 100 * u >= 99 * Limit, resetsAt |-> at]
    BY <2>3 DEF shown
  <2> HIDE DEF obs, status
  <2>5. obs.under = (10 * (Limit - u) < Limit) /\ obs.exhausted = (100 * u >= 99 * Limit)
    BY <2>4, Zenon
  <2>6. /\ obs.bucket = IF u >= Limit THEN "runningOut" ELSE BucketOf(status)
        /\ obs.resetsAt = at
    BY <2>4, Zenon
  <2> QED  BY <2>5, <2>6, Zenon
<1>4. /\ Calculable(Limit, at, Period, now) <=> e > 0 /\ e < Period
      /\ at <= now => e >= Period
  BY <1>1 DEF Calculable, Elapsed
<1>5. 100 * u >= 99 * Limit <=> 100 * projected >= 99 * whole
  <2>1. 99 * Limit <= 100 * u <=> Period * (99 * Limit) <= Period * (100 * u)
    BY <1>1, Scaled
  <2>2. Period * (99 * Limit) = 99 * whole /\ Period * (100 * u) = 100 * projected
    BY <1>1
  <2> QED  BY <2>1, <2>2
<1>6. e < Period => budget < whole
  BY <1>1, Scaled
<1>7. Ending(at, now) <=> 99 * whole <= 100 * budget
  <2>1. 99 * Period <= 100 * e <=> Limit * (99 * Period) <= Limit * (100 * e)
    BY <1>1, Scaled
  <2>2. Limit * (99 * Period) = 99 * whole /\ Limit * (100 * e) = 100 * budget
    BY <1>1
  <2> QED  BY <2>1, <2>2 DEF Ending
<1>8. whole > 0
  BY <1>1
<1>9. /\ status = "ahead" => /\ Calculable(Limit, at, Period, now)
                             /\ u = 0 \/ 10 * projected <= 8 * budget
      /\ status = "on-track" => /\ Paced(at, now)
                                /\ projected <= budget
      /\ status = "behind" /\ u < Limit => Paced(at, now) /\ projected > budget
      /\ ~Calculable(Limit, at, Period, now) => status = "none"
      /\ Paced(at, now) => status # "none"
      /\ status \in {"none", "ahead", "on-track", "behind"}
  BY <1>1, <1>2 DEF calculatePaceStatus, Paced, Projected
<1> HIDE DEF status, obs, e, projected, budget, whole
<1>10. obs.bucket \in Buckets
  BY <1>3, BucketType DEF Buckets
<1>11. obs.exhausted => obs.under
  BY <1>1, <1>3
<1>12. u < Limit => /\ obs.bucket = "healthy" <=> status = "ahead"
                    /\ obs.bucket = "close" <=> status = "on-track"
                    /\ obs.bucket = "runningOut" <=> status = "behind"
                    /\ obs.bucket = "untracked" <=> status = "none"
  BY <1>1, <1>3, <1>9 DEF BucketOf
<1>13. u >= Limit => obs.bucket = "runningOut" /\ obs.exhausted
  BY <1>1, <1>3
<1>14. u < Limit \/ u >= Limit
  BY <1>1
<1>15. obs.exhausted => obs.bucket # "healthy"
  <2> SUFFICES ASSUME obs.exhausted, obs.bucket = "healthy" PROVE FALSE
    OBVIOUS
  <2>1. status = "ahead"
    BY <1>12, <1>13, <1>14
  <2>2. e < Period /\ (u = 0 \/ 10 * projected <= 8 * budget)
    BY <2>1, <1>4, <1>9
  <2>3. u # 0
    BY <1>1, <1>3
  <2> QED  BY <2>2, <2>3, <1>2, <1>3, <1>5, <1>6, <1>8
<1>16. obs.exhausted /\ obs.bucket = "close" => Ending(at, now)
  BY <1>2, <1>3, <1>5, <1>7, <1>9, <1>12, <1>13, <1>14
<1>17. Ending(at, now) /\ obs.bucket = "runningOut" => obs.exhausted
  BY <1>2, <1>3, <1>5, <1>7, <1>9, <1>12, <1>13, <1>14
<1>18. ~obs.exhausted /\ obs.bucket \in {"close", "runningOut"} => Paced(at, now)
  BY <1>9, <1>12, <1>13, <1>14
<1>19. at <= now /\ ~obs.exhausted => obs.bucket = "untracked"
  BY <1>1, <1>4, <1>9, <1>12, <1>13, <1>14
<1>20. Paced(at, now) => obs.bucket # "untracked"
  BY <1>9, <1>12, <1>13, <1>14
<1> QED
  BY <1>3, <1>10, <1>11, <1>15, <1>16, <1>17, <1>18, <1>19, <1>20 DEF obs

-----------------------------------------------------------------------------
\* What each part of `transitions` does to the marks and the reset instant.
LEMMA InWindowMarks ==
  ASSUME NEW obs \in Observation, NEW s \in NotificationState
  PROVE  /\ InWindow(obs, s).firedMilestones =
              IF NewWindow(obs, s) THEN {} ELSE s.firedMilestones
         /\ InWindow(obs, s).resetsAt =
              IF obs.resetsAt = NoReset THEN s.resetsAt ELSE obs.resetsAt
<1> DEFINE at == IF obs.resetsAt = NoReset THEN s.resetsAt ELSE obs.resetsAt
<1>1. CASE NewWindow(obs, s)
  <2>1. InWindow(obs, s) = [s EXCEPT !.resetsAt = at, !.firedMilestones = {},
                              !.wasUnderTenPercent = FALSE, !.previousBucket = "untracked"]
    BY <1>1 DEF InWindow
  <2> HIDE DEF at
  <2>2. InWindow(obs, s).firedMilestones = {} /\ InWindow(obs, s).resetsAt = at
    BY <2>1, Zenon DEF NotificationState
  <2> QED  BY <2>2, <1>1 DEF at
<1>2. CASE ~NewWindow(obs, s)
  <2>1. InWindow(obs, s) = [s EXCEPT !.resetsAt = at]
    BY <1>2 DEF InWindow
  <2> HIDE DEF at
  <2>2. /\ InWindow(obs, s).firedMilestones = s.firedMilestones
        /\ InWindow(obs, s).resetsAt = at
    BY <2>1, Zenon DEF NotificationState
  <2> QED  BY <2>2, <1>2 DEF at
<1> QED  BY <1>1, <1>2

LEMMA PrimedMarks ==
  ASSUME NEW obs \in Observation, NEW s \in NotificationState
  PROVE  /\ Primed(obs, s).firedMilestones = {}
         /\ Primed(obs, s).resetsAt = s.resetsAt
BY Zenon DEF Primed, NotificationState

LEMMA AfterSessionMarks ==
  ASSUME NEW obs \in Observation, NEW s \in NotificationState
  PROVE  /\ AfterSession(obs, s).resetsAt = s.resetsAt
         /\ AfterSession(obs, s).firedMilestones \subseteq s.firedMilestones
         /\ \A m \in Milestones \ {"sessionReset"} :
              m \in AfterSession(obs, s).firedMilestones <=> m \in s.firedMilestones
<1> DEFINE f == IF obs.zero THEN s.firedMilestones ELSE s.firedMilestones \ {"sessionReset"}
<1>1. AfterSession(obs, s) = [s EXCEPT !.wasAboveZeroUsed = ~obs.zero, !.firedMilestones = f]
  BY Zenon DEF AfterSession
<1>2. f \subseteq s.firedMilestones
      /\ \A m \in Milestones \ {"sessionReset"} : m \in f <=> m \in s.firedMilestones
  BY ObservationFields
<1> HIDE DEF f
<1>3. AfterSession(obs, s).resetsAt = s.resetsAt /\ AfterSession(obs, s).firedMilestones = f
  BY <1>1, Zenon DEF NotificationState
<1> QED  BY <1>2, <1>3

LEMMA ExhaustedMarks ==
  ASSUME NEW obs \in Observation, NEW s \in NotificationState
  PROVE  /\ Exhausted(obs, s).firedMilestones = s.firedMilestones
         /\ Exhausted(obs, s).resetsAt = s.resetsAt
BY Zenon DEF Exhausted, NotificationState

LEMMA AfterPaceMarks ==
  ASSUME NEW obs \in Observation, NEW s \in NotificationState, NEW on,
         obs.bucket # "noData"
  PROVE  /\ AfterPace(obs, s, on).resetsAt = s.resetsAt
         /\ AfterPace(obs, s, on).firedMilestones \subseteq s.firedMilestones
         /\ obs.bucket = "healthy" /\ s.previousBucket \in {"close", "runningOut"}
              => "healthyToClose" \notin AfterPace(obs, s, on).firedMilestones
         /\ obs.bucket \in {"healthy", "close"} /\ s.previousBucket = "runningOut"
              => "closeToRunningOut" \notin AfterPace(obs, s, on).firedMilestones
<1> DEFINE was == SEVERITY[s.previousBucket]
           is  == SEVERITY[obs.bucket]
           cleared == {m \in {"healthyToClose"} : is < was /\ is <= SEVERITY["healthy"]}
                 \cup {m \in {"closeToRunningOut"} : is < was /\ is <= SEVERITY["close"]}
           f == s.firedMilestones \ cleared
           b == IF is <= was \/ PaceFires(obs, s, on) # {} THEN obs.bucket ELSE s.previousBucket
<1>1. CASE obs.bucket = "untracked"
  BY <1>1 DEF AfterPace
<1>2. CASE obs.bucket # "untracked"
  <2>1. AfterPace(obs, s, on) = [s EXCEPT !.firedMilestones = f, !.previousBucket = b]
    BY <1>2, Zenon DEF AfterPace
  <2>2. /\ f \subseteq s.firedMilestones
        /\ obs.bucket = "healthy" /\ s.previousBucket \in {"close", "runningOut"}
             => "healthyToClose" \notin f
        /\ obs.bucket \in {"healthy", "close"} /\ s.previousBucket = "runningOut"
             => "closeToRunningOut" \notin f
    BY DEF SEVERITY
  <2> HIDE DEF f, b
  <2>3. AfterPace(obs, s, on).resetsAt = s.resetsAt /\ AfterPace(obs, s, on).firedMilestones = f
    BY <2>1, Zenon DEF NotificationState
  <2> QED  BY <2>2, <2>3
<1> QED  BY <1>1, <1>2

LEMMA AfterUnderMarks ==
  ASSUME NEW obs \in Observation, NEW s \in NotificationState, NEW on
  PROVE  /\ AfterUnder(obs, s, on).resetsAt = s.resetsAt
         /\ AfterUnder(obs, s, on).firedMilestones \subseteq s.firedMilestones
         /\ "underTenPercent" \in AfterUnder(obs, s, on).firedMilestones => obs.under
         /\ AfterUnder(obs, s, on).wasUnderTenPercent
              => obs.under /\ (s.wasUnderTenPercent \/ UnderFires(obs, s, on) # {})
<1> DEFINE f == IF obs.under THEN s.firedMilestones ELSE s.firedMilestones \ {"underTenPercent"}
           u == IF obs.under /\ ~s.wasUnderTenPercent /\ UnderFires(obs, s, on) = {}
                THEN s.wasUnderTenPercent ELSE obs.under
<1>1. AfterUnder(obs, s, on) = [s EXCEPT !.firedMilestones = f, !.wasUnderTenPercent = u]
  BY Zenon DEF AfterUnder
<1>2. f \subseteq s.firedMilestones /\ (~obs.under => "underTenPercent" \notin f)
  BY ObservationFields
<1>3. u => obs.under /\ (s.wasUnderTenPercent \/ UnderFires(obs, s, on) # {})
  BY Zenon
<1> HIDE DEF f, u
<1>4. /\ AfterUnder(obs, s, on).resetsAt = s.resetsAt
      /\ AfterUnder(obs, s, on).firedMilestones = f
      /\ AfterUnder(obs, s, on).wasUnderTenPercent = u
  BY <1>1, Zenon DEF NotificationState
<1> QED  BY <1>2, <1>3, <1>4, Zenon

-----------------------------------------------------------------------------
\* What a pass does to the converse: what is due is told, and what holds an
\* alert back from then on stands for something told.  `over` and `ending`
\* say of the window of the state what the two exceptions ask.
LEMMA TransitionHeard ==
  ASSUME NEW obs \in Observation, NEW s \in NotificationState, NEW on \in SUBSET Milestones,
         NEW over \in BOOLEAN, NEW ending \in BOOLEAN,
         told \in SUBSET Milestones, Known(s, told), Heard(s, told), "jitter" \notin Disturbance,
         "underTenPercent" \in s.firedMilestones => "underTenPercent" \in told,
         "healthyToClose" \in s.firedMilestones => over \/ "healthyToClose" \in told,
         "closeToRunningOut" \in s.firedMilestones => ending \/ "closeToRunningOut" \in told,
         obs.bucket # "noData" /\ obs.exhausted => obs.under /\ obs.bucket # "healthy",
         ~NewWindow(obs, s) =>
           /\ over => ending /\ (obs.bucket \in {"noData", "untracked"} \/ obs.exhausted)
           /\ ending /\ obs.bucket = "runningOut" => obs.exhausted
           /\ obs.bucket = "close" /\ obs.exhausted => ending
           /\ obs.bucket = "untracked" /\ s.firedMilestones \cap PaceAlerts # {} => over
  PROVE LET result == transitions(obs, s, on)
            new == NowTold(obs, s, result.fire)
            marks == result.newState.firedMilestones \cup result.fire
        IN  /\ Due(obs, on) \subseteq new
            /\ Heard(result.newState, new)
            /\ "underTenPercent" \in marks => "underTenPercent" \in new
            /\ "healthyToClose" \in marks =>
                 "healthyToClose" \in new \/ (over /\ ~NewWindow(obs, s))
            /\ "closeToRunningOut" \in marks =>
                 "closeToRunningOut" \in new \/ (ending /\ ~NewWindow(obs, s))
            /\ result.fire \cap PaceAlerts # {} =>
                 obs.bucket \in {"close", "runningOut"} /\ ~obs.exhausted
            /\ result.newState.firedMilestones \subseteq
                 IF NewWindow(obs, s) THEN {} ELSE s.firedMilestones
            /\ result.newState.resetsAt =
                 IF obs.resetsAt = NoReset THEN s.resetsAt ELSE obs.resetsAt
<1> DEFINE w == InWindow(obs, s)
           t == AfterSession(obs, w)
           result == transitions(obs, s, on)
           still == StillTold(obs, s)
           at == IF obs.resetsAt = NoReset THEN s.resetsAt ELSE obs.resetsAt
<1>0. /\ obs.bucket \in Buckets \cup {"noData"}
      /\ obs.zero \in BOOLEAN /\ obs.under \in BOOLEAN /\ obs.exhausted \in BOOLEAN
      /\ obs.resetsAt \in Nat
  BY ObservationFields
<1>1. OtherWindow(obs, s) <=> NewWindow(obs, s)
  BY <1>0, StateFields DEF OtherWindow, NewWindow, Slack
<1>2. /\ w \in NotificationState /\ t \in NotificationState
      /\ w.primed = s.primed /\ t.primed = s.primed
      /\ t.previousBucket = w.previousBucket
      /\ t.wasUnderTenPercent = w.wasUnderTenPercent
  <2>1. w \in NotificationState /\ w.primed = s.primed
    BY InWindowFields, Zenon
  <2>2. /\ t \in NotificationState /\ t.primed = w.primed
        /\ t.previousBucket = w.previousBucket /\ t.wasUnderTenPercent = w.wasUnderTenPercent
    BY <2>1, AfterSessionFields, Zenon
  <2> QED
    BY <2>1, <2>2, Zenon
<1>3. /\ w.firedMilestones = IF NewWindow(obs, s) THEN {} ELSE s.firedMilestones
      /\ w.resetsAt = at /\ t.resetsAt = at
      /\ t.firedMilestones \subseteq w.firedMilestones
  BY <1>2, InWindowMarks, AfterSessionMarks
\* What was told stays told within the window, unless it has recovered.
<1>4. \A m \in Milestones : m \in told /\ ~NewWindow(obs, s) /\ m \notin Recovered(obs) => m \in still
  BY <1>1 DEF StillTold, Armed
<1>5. ASSUME obs.bucket # "noData"
      PROVE  /\ obs.under => "underTenPercent" \notin Recovered(obs)
             /\ \/ obs.bucket \in {"close", "runningOut"}
                \/ obs.bucket = "untracked" /\ ~obs.exhausted
                => "healthyToClose" \notin Recovered(obs)
             /\ \/ obs.bucket = "runningOut"
                \/ obs.bucket = "untracked" /\ ~obs.exhausted
                => "closeToRunningOut" \notin Recovered(obs)
             /\ obs.under => "underTenPercent" \in Holds(obs)
             /\ obs.bucket \in {"close", "runningOut"} => "healthyToClose" \in Holds(obs)
             /\ obs.bucket = "runningOut" => "closeToRunningOut" \in Holds(obs)
  BY <1>5, <1>0 DEF Recovered, Holds, Milestones
<1>6. obs.bucket = "noData" => Recovered(obs) = {}
  BY DEF Recovered
\* The memory of the code within its window, and what it stands for.
<1>7. /\ w.wasUnderTenPercent => ~NewWindow(obs, s) /\ "underTenPercent" \in told
      /\ w.previousBucket = "runningOut" =>
           ~NewWindow(obs, s) /\ "closeToRunningOut" \in told
      /\ w.previousBucket \in {"close", "runningOut"} =>
           ~NewWindow(obs, s) /\ "healthyToClose" \in told
  BY InWindowFields DEF Heard
<1>8. \A m \in w.firedMilestones : ~NewWindow(obs, s) /\ m \in s.firedMilestones
  BY <1>3
<1>9. /\ "underTenPercent" \in w.firedMilestones =>
           ~NewWindow(obs, s) /\ "underTenPercent" \in told
      /\ "healthyToClose" \in w.firedMilestones =>
           /\ ~NewWindow(obs, s)
           /\ over \/ ("healthyToClose" \in told /\ w.previousBucket \in {"close", "runningOut"})
      /\ "closeToRunningOut" \in w.firedMilestones =>
           /\ ~NewWindow(obs, s)
           /\ ending \/ ("closeToRunningOut" \in told /\ w.previousBucket = "runningOut")
  BY <1>8, InWindowFields DEF Known
<1>10. w.firedMilestones \subseteq Milestones
  BY <1>2, StateFields
<1>m. {"underTenPercent", "healthyToClose", "closeToRunningOut"} \subseteq Milestones
  BY DEF Milestones
<1>11. CASE obs.bucket = "noData"
  <2>1. result = [fire |-> {}, newState |-> w]
    BY <1>11 DEF transitions
  <2>2. NowTold(obs, s, {}) = still
    BY <1>11 DEF NowTold
  <2>3. Due(obs, on) = {}
    BY <1>11 DEF Due
  <2>4. Heard(w, still)
    BY <1>4, <1>6, <1>7, <1>11, <1>m DEF Heard
  <2>5. /\ "underTenPercent" \in w.firedMilestones => "underTenPercent" \in still
        /\ "healthyToClose" \in w.firedMilestones =>
             "healthyToClose" \in still \/ (over /\ ~NewWindow(obs, s))
        /\ "closeToRunningOut" \in w.firedMilestones =>
             "closeToRunningOut" \in still \/ (ending /\ ~NewWindow(obs, s))
    BY <1>4, <1>6, <1>9, <1>11, <1>m
  <2> HIDE DEF w, t, still
  <2> QED
    BY <2>1, <2>2, <2>3, <2>4, <2>5, <1>3
<1>12. CASE obs.bucket # "noData" /\ ~s.primed
  <2>1. result = [fire |-> {}, newState |-> Primed(obs, w)]
    BY <1>2, <1>12 DEF transitions
  <2>2. Holds(obs) \subseteq NowTold(obs, s, {})
    BY <1>12 DEF NowTold
  <2>3. Due(obs, on) \subseteq Holds(obs)
    BY DEF Due
  <2>4. /\ Primed(obs, w).previousBucket = obs.bucket
        /\ Primed(obs, w).wasUnderTenPercent = obs.under
    BY <1>2, <1>12, PrimedFields, Zenon
  <2>5. Primed(obs, w).firedMilestones = {} /\ Primed(obs, w).resetsAt = w.resetsAt
    BY <1>2, PrimedMarks, Zenon
  <2>6. Heard(Primed(obs, w), NowTold(obs, s, {}))
    BY <2>2, <2>4, <1>5, <1>12 DEF Heard
  <2> HIDE DEF w, t, still
  <2> QED
    BY <2>1, <2>2, <2>3, <2>5, <2>6, <1>3
<1>13. CASE obs.bucket # "noData" /\ s.primed /\ obs.exhausted
  <2> DEFINE new == still \cup Holds(obs)
             x == Exhausted(obs, t)
  <2>1. result = [fire |-> {}, newState |-> x]
    BY <1>2, <1>13 DEF transitions
  <2>2. NowTold(obs, s, {}) = new
    BY <1>13 DEF NowTold
  <2>3. Due(obs, on) = {}
    BY <1>13 DEF Due
  <2>4. x.previousBucket = obs.bucket /\ x.firedMilestones = t.firedMilestones
        /\ x.resetsAt = t.resetsAt
    BY <1>2, <1>13, ExhaustedFields, ExhaustedMarks, Zenon
  <2>5. Heard(x, new)
    <3>1. "underTenPercent" \in new
      BY <1>5, <1>13
    <3>2. obs.bucket = "runningOut" => "closeToRunningOut" \in new
      BY <1>5
    <3>3. obs.bucket \in {"close", "runningOut"} => "healthyToClose" \in new
      BY <1>5
    <3> HIDE DEF new, x
    <3> QED  BY <3>1, <3>2, <3>3, <2>4 DEF Heard
  <2>6. "underTenPercent" \in new
    BY <1>5, <1>13
  <2>7. "healthyToClose" \in t.firedMilestones =>
          "healthyToClose" \in new \/ (over /\ ~NewWindow(obs, s))
    <3> SUFFICES ASSUME "healthyToClose" \in t.firedMilestones
                 PROVE  "healthyToClose" \in new \/ (over /\ ~NewWindow(obs, s))
      OBVIOUS
    <3>1. "healthyToClose" \in w.firedMilestones
      BY <1>3
    <3>2. ~NewWindow(obs, s) /\ s.firedMilestones \cap PaceAlerts # {}
      BY <3>1, <1>8 DEF PaceAlerts
    <3>3. obs.bucket \in {"close", "runningOut", "untracked"}
      BY <1>0, <1>13 DEF Buckets
    <3> QED  BY <3>2, <3>3, <1>5, <1>13
  <2>8. "closeToRunningOut" \in t.firedMilestones =>
          "closeToRunningOut" \in new \/ (ending /\ ~NewWindow(obs, s))
    <3> SUFFICES ASSUME "closeToRunningOut" \in t.firedMilestones
                 PROVE  "closeToRunningOut" \in new \/ (ending /\ ~NewWindow(obs, s))
      OBVIOUS
    <3>1. "closeToRunningOut" \in w.firedMilestones
      BY <1>3
    <3>2. ~NewWindow(obs, s) /\ s.firedMilestones \cap PaceAlerts # {}
      BY <3>1, <1>8 DEF PaceAlerts
    <3>3. obs.bucket \in {"close", "runningOut", "untracked"}
      BY <1>0, <1>13 DEF Buckets
    <3> QED  BY <3>2, <3>3, <1>5, <1>13
  <2> HIDE DEF w, t, still, new, x
  <2> QED
    BY <2>1, <2>2, <2>3, <2>4, <2>5, <2>6, <2>7, <2>8, <1>3
<1>14. CASE obs.bucket # "noData" /\ s.primed /\ ~obs.exhausted
  <2> DEFINE sf == SessionFires(obs, w, on)
             pf == PaceFires(obs, t, on)
             uf == UnderFires(obs, t, on)
             p == AfterPace(obs, t, on)
             u == AfterUnder(obs, p, on)
             fire == sf \cup pf \cup uf
             new == NowTold(obs, s, fire)
  <2>1. result = [fire |-> fire, newState |-> u]
    BY <1>2, <1>14 DEF transitions
  <2>2. p \in NotificationState /\ u \in NotificationState
    BY <1>2, <1>14, AfterPaceFields, AfterUnderFields
  <2>3. /\ sf \subseteq {"sessionReset"} /\ uf \subseteq {"underTenPercent"}
        /\ pf \subseteq PaceAlerts
    BY Zenon DEF SessionFires, PaceFires, UnderFires, PaceAlerts
  <2>4. new = still \cup fire
                \cup (IF "closeToRunningOut" \in fire THEN {"healthyToClose"} ELSE {})
    BY <1>14 DEF NowTold
  <2>5. /\ pf # {} => obs.bucket \in {"close", "runningOut"}
        /\ pf # {} /\ obs.bucket = "close" => "healthyToClose" \in pf
        /\ pf # {} /\ obs.bucket = "runningOut" => "closeToRunningOut" \in pf
        /\ /\ obs.bucket = "close" /\ t.previousBucket \notin {"close", "runningOut"}
           /\ "healthyToClose" \in on \ t.firedMilestones
           => "healthyToClose" \in pf
        /\ /\ obs.bucket = "runningOut" /\ t.previousBucket # "runningOut"
           /\ "closeToRunningOut" \in on \ t.firedMilestones
           => "closeToRunningOut" \in pf
    <3>1. obs.bucket \in Buckets /\ t.previousBucket \in Buckets
      BY <1>0, <1>2, <1>14, StateFields
    <3> HIDE DEF t
    <3> QED  BY <3>1 DEF PaceFires, SEVERITY, Buckets, maybeFire
  <2>6. /\ uf # {} => "underTenPercent" \in uf
        /\ obs.under /\ ~t.wasUnderTenPercent /\ "underTenPercent" \in on \ t.firedMilestones
             => "underTenPercent" \in uf
    BY Zenon DEF UnderFires, maybeFire
  <2>7. /\ p.wasUnderTenPercent = t.wasUnderTenPercent
        /\ "underTenPercent" \in p.firedMilestones <=> "underTenPercent" \in t.firedMilestones
        /\ p.previousBucket =
             IF /\ obs.bucket # "untracked"
                /\ SEVERITY[obs.bucket] <= SEVERITY[t.previousBucket] \/ pf # {}
             THEN obs.bucket ELSE t.previousBucket
    BY <1>2, <1>14, AfterPaceFields, Zenon
  <2>8. UnderFires(obs, p, on) = uf
    BY <2>7 DEF UnderFires, maybeFire
  <2>9. /\ u.previousBucket = p.previousBucket
        /\ u.resetsAt = at
        /\ u.firedMilestones \subseteq p.firedMilestones
        /\ p.firedMilestones \subseteq t.firedMilestones
        /\ "underTenPercent" \in u.firedMilestones => obs.under
        /\ u.wasUnderTenPercent => obs.under /\ (t.wasUnderTenPercent \/ uf # {})
        /\ obs.bucket = "healthy" /\ t.previousBucket \in {"close", "runningOut"}
             => "healthyToClose" \notin u.firedMilestones
        /\ obs.bucket \in {"healthy", "close"} /\ t.previousBucket = "runningOut"
             => "closeToRunningOut" \notin u.firedMilestones
    <3>1. /\ u.previousBucket = p.previousBucket
          /\ u.resetsAt = p.resetsAt
          /\ u.firedMilestones \subseteq p.firedMilestones
          /\ "underTenPercent" \in u.firedMilestones => obs.under
          /\ u.wasUnderTenPercent => obs.under /\ (p.wasUnderTenPercent \/ uf # {})
      <4> HIDE DEF p, uf
      <4>1. u.previousBucket = p.previousBucket
        BY <2>2, AfterUnderFields, Zenon
      <4>2. /\ u.resetsAt = p.resetsAt
            /\ u.firedMilestones \subseteq p.firedMilestones
            /\ "underTenPercent" \in u.firedMilestones => obs.under
            /\ u.wasUnderTenPercent
                 => obs.under /\ (p.wasUnderTenPercent \/ UnderFires(obs, p, on) # {})
        BY <2>2, AfterUnderMarks, Zenon
      <4> HIDE DEF u
      <4> QED  BY <4>1, <4>2, <2>8, Zenon
    <3>2. /\ p.resetsAt = t.resetsAt
          /\ p.firedMilestones \subseteq t.firedMilestones
          /\ obs.bucket = "healthy" /\ t.previousBucket \in {"close", "runningOut"}
               => "healthyToClose" \notin p.firedMilestones
          /\ obs.bucket \in {"healthy", "close"} /\ t.previousBucket = "runningOut"
               => "closeToRunningOut" \notin p.firedMilestones
      BY <1>2, <1>14, AfterPaceMarks, Zenon
    <3> HIDE DEF p, u, t, w
    <3> QED  BY <3>1, <3>2, <2>7, <1>3
  <2> HIDE DEF p, u, sf, pf, uf, fire, new, w, t, still
  <2>10. obs.bucket \in Buckets /\ t.previousBucket \in Buckets
    BY <1>0, <1>2, <1>14, StateFields
\* What the code still knows of this window was told.
  <2>11. /\ t.wasUnderTenPercent /\ obs.under => "underTenPercent" \in still
         /\ t.previousBucket = "runningOut" /\ obs.bucket \in {"runningOut", "untracked"}
              => "closeToRunningOut" \in still
         /\ t.previousBucket \in {"close", "runningOut"} /\ obs.bucket # "healthy"
              => "healthyToClose" \in still
    BY <1>2, <1>4, <1>5, <1>7, <1>14, <1>m, <2>10 DEF Buckets
  <2>12. still \subseteq new /\ fire \subseteq new
         /\ ("closeToRunningOut" \in fire => "healthyToClose" \in new)
    BY <2>4
  <2>13. pf \subseteq fire /\ uf \subseteq fire
    BY DEF fire
  <2>14. Due(obs, on) \subseteq new
    <3> SUFFICES ASSUME NEW m \in Due(obs, on) PROVE m \in new
      OBVIOUS
    <3>1. /\ m \in on /\ m \in Holds(obs) /\ m # "sessionReset"
          /\ m = "healthyToClose" => obs.bucket = "close"
      BY DEF Due
    <3>2. CASE m = "underTenPercent"
      <4>1. obs.under
        BY <3>1, <3>2 DEF Holds
      <4>2. "underTenPercent" \in t.firedMilestones => "underTenPercent" \in still
        BY <4>1, <1>3, <1>4, <1>5, <1>9, <1>14, <1>m
      <4> QED  BY <3>1, <3>2, <4>1, <4>2, <2>6, <2>11, <2>12, <2>13
    <3>3. CASE m = "healthyToClose"
      <4>1. "healthyToClose" \in t.firedMilestones => t.previousBucket \in {"close", "runningOut"}
        BY <3>1, <3>3, <1>2, <1>3, <1>9, <1>14
      <4> QED  BY <3>1, <3>3, <4>1, <2>5, <2>11, <2>12, <2>13
    <3>4. CASE m = "closeToRunningOut"
      <4>1. obs.bucket = "runningOut"
        BY <3>1, <3>4 DEF Holds
      <4>2. "closeToRunningOut" \in t.firedMilestones => t.previousBucket = "runningOut"
        BY <4>1, <1>2, <1>3, <1>9, <1>14
      <4> QED  BY <3>1, <3>4, <4>1, <4>2, <2>5, <2>11, <2>12, <2>13
    <3> QED  BY <3>1, <3>2, <3>3, <3>4 DEF Holds, Milestones
  <2>15. u.wasUnderTenPercent => "underTenPercent" \in new
    BY <2>6, <2>9, <2>11, <2>12, <2>13, Zenon
  <2>16. /\ u.previousBucket = "runningOut" => "closeToRunningOut" \in new
         /\ u.previousBucket \in {"close", "runningOut"} => "healthyToClose" \in new
    <3>1. CASE obs.bucket # "untracked" /\ pf # {}
      BY <3>1, <2>5, <2>7, <2>9, <2>12, <2>13
    <3>2. CASE /\ obs.bucket # "untracked"
               /\ SEVERITY[obs.bucket] <= SEVERITY[t.previousBucket]
      <4>1. /\ obs.bucket = "runningOut" => t.previousBucket = "runningOut"
            /\ obs.bucket = "close" => t.previousBucket \in {"close", "runningOut"}
        BY <3>2, <2>10 DEF SEVERITY, Buckets
      <4> QED  BY <3>2, <4>1, <2>7, <2>9, <2>11, <2>12
    <3>3. CASE /\ obs.bucket # "untracked" /\ pf = {}
               /\ ~(SEVERITY[obs.bucket] <= SEVERITY[t.previousBucket])
      <4>1. t.previousBucket # "runningOut" /\ (t.previousBucket = "close" => obs.bucket = "runningOut")
        BY <3>3, <2>10 DEF SEVERITY, Buckets
      <4> QED  BY <3>3, <4>1, <2>7, <2>9, <2>11, <2>12
    <3>4. CASE obs.bucket = "untracked"
      BY <3>4, <2>7, <2>9, <2>11, <2>12
    <3> QED  BY <3>1, <3>2, <3>3, <3>4
  <2>17. Heard(u, new)
    BY <2>15, <2>16 DEF Heard
  <2>18. "underTenPercent" \in u.firedMilestones => "underTenPercent" \in new
    BY <2>9, <2>12, <1>3, <1>4, <1>5, <1>9, <1>14, <1>m
  <2>19. "healthyToClose" \in u.firedMilestones =>
           "healthyToClose" \in new \/ (over /\ ~NewWindow(obs, s))
    BY <2>9, <2>11, <2>12, <1>2, <1>3, <1>9
  <2>20. "closeToRunningOut" \in u.firedMilestones =>
           "closeToRunningOut" \in new \/ (ending /\ ~NewWindow(obs, s))
    BY <2>9, <2>10, <2>11, <2>12, <1>2, <1>3, <1>9 DEF Buckets
  <2>21. fire \cap PaceAlerts # {} => pf # {}
    BY <2>3 DEF fire, PaceAlerts
  <2>22. u.firedMilestones \subseteq IF NewWindow(obs, s) THEN {} ELSE s.firedMilestones
    BY <2>9, <1>3
  <2> QED
    BY <2>1, <2>5, <2>9, <2>12, <2>14, <2>17, <2>18, <2>19, <2>20, <2>21, <2>22, <1>14
       DEF new
<1> HIDE DEF w, t, still, result
<1> QED
  BY <1>0, <1>11, <1>12, <1>13, <1>14, StateFields DEF still, result

-----------------------------------------------------------------------------
Pending == UNION {sending[i] : i \in DOMAIN sending}

\* A window is known by its end: that of the provider, or one that is over.
CurrentInv ==
  /\ resets # 0
  /\ state.resetsAt = resets \/ state.resetsAt <= now
  /\ state.resetsAt <= resets
  /\ card.limit > 0 => /\ card.limit = Limit
                       /\ card.resetsAt # NoReset
                       /\ card.resetsAt = resets \/ card.resetsAt <= now
                       /\ card.resetsAt <= resets
                       /\ state.resetsAt <= card.resetsAt

\* A mark, and an alert that is about to leave one, was told, up to the two
\* exceptions; and a pace alert was fired at a time that had a pace.
MarksTold(marks, t, at, time) ==
  /\ "underTenPercent" \in marks => "underTenPercent" \in t
  /\ "healthyToClose" \in marks => "healthyToClose" \in t \/ at <= time
  /\ "closeToRunningOut" \in marks => "closeToRunningOut" \in t \/ Ending(at, time)
  /\ marks \cap PaceAlerts # {} /\ time < at => Paced(at, time)

MarksInv == MarksTold(state.firedMilestones \cup Pending, told, state.resetsAt, now)

HeardInv ==
  /\ Heard(state, told)
  /\ CurrentInv /\ MarksInv
  /\ Len(sending) <= 1
  /\ last.missed = {}

\* What a pass sees of a reading on the screen, in the window of the state.
LEMMA ShownFacts ==
  ASSUME TypeOK, NEW shown \in Readings,
         shown.limit > 0 => /\ shown.limit = Limit
                            /\ shown.resetsAt # NoReset
                            /\ state.resetsAt <= shown.resetsAt,
         MarksTold(state.firedMilestones, told, state.resetsAt, now)
  PROVE  LET obs == deriveObservation(shown, now)
         IN  /\ obs.bucket # "noData" /\ obs.exhausted => obs.under /\ obs.bucket # "healthy"
             /\ obs.bucket # "noData" => shown.limit > 0 /\ obs.resetsAt = shown.resetsAt
             /\ obs.bucket = "noData" => obs.resetsAt = NoReset
             /\ obs.bucket \in {"close", "runningOut"} /\ ~obs.exhausted => Paced(obs.resetsAt, now)
             /\ ~NewWindow(obs, state) =>
                  /\ obs.resetsAt \in {NoReset, state.resetsAt}
                  /\ state.resetsAt <= now =>
                       /\ Ending(state.resetsAt, now)
                       /\ obs.bucket \in {"noData", "untracked"} \/ obs.exhausted
                  /\ Ending(state.resetsAt, now) /\ obs.bucket = "runningOut" => obs.exhausted
                  /\ obs.bucket = "close" /\ obs.exhausted => Ending(state.resetsAt, now)
                  /\ obs.bucket = "untracked" /\ state.firedMilestones \cap PaceAlerts # {}
                       => state.resetsAt <= now
<1> DEFINE obs == deriveObservation(shown, now)
<1>1. /\ now \in Nat /\ state.resetsAt \in Nat
      /\ Limit \in Nat \ {0} /\ Period \in Nat \ {0}
  BY Constants, StateFields DEF TypeOK
<1>2. state.resetsAt <= now => Ending(state.resetsAt, now)
  BY <1>1 DEF Ending, Elapsed
<1>3. CASE shown.limit <= 0
  <2>1. obs = NoData
    BY <1>3 DEF deriveObservation
  <2>2. obs.bucket = "noData" /\ obs.exhausted = FALSE /\ obs.resetsAt = NoReset
    BY <2>1 DEF NoData
  <2> HIDE DEF obs
  <2> QED  BY <2>2, <1>2 DEF obs
<1>4. CASE ~(shown.limit <= 0)
  <2>1. shown.used \in Nat /\ shown.limit = Limit /\ shown.resetsAt \in Nat /\ shown.period = Period
    <3>1. /\ shown.used \in Levels \cup {0} /\ shown.limit \in {-1, 0, Limit}
          /\ shown.resetsAt \in Nat /\ shown.period \in {Period}
      BY Zenon DEF Readings
    <3>2. shown.used \in Levels \/ shown.used = 0
      BY <3>1, Zenon
    <3>3. Levels \subseteq Nat
      BY Constants, Zenon
    <3>4. 0 \in Nat
      OBVIOUS
    <3>5. shown.used \in Nat
      BY <3>2, <3>3, <3>4, Zenon
    <3> QED  BY <1>1, <1>4, <3>1, <3>5
  <2>2. shown.limit > 0
    BY <1>1, <2>1
  <2>3. shown.resetsAt \in Nat \ {0} /\ state.resetsAt <= shown.resetsAt
    BY <2>1, <2>2 DEF NoReset
  <2>4. shown = [used |-> shown.used, limit |-> Limit, resetsAt |-> shown.resetsAt,
                 period |-> Period]
    <3>1. shown = [used |-> shown.used, limit |-> shown.limit,
                   resetsAt |-> shown.resetsAt, period |-> shown.period]
      BY DEF Readings
    <3> QED  BY <3>1, <2>1
  <2>5. /\ obs.bucket \in Buckets
        /\ obs.resetsAt = shown.resetsAt
        /\ obs.exhausted => obs.under /\ obs.bucket # "healthy"
        /\ obs.exhausted /\ obs.bucket = "close" => Ending(shown.resetsAt, now)
        /\ Ending(shown.resetsAt, now) /\ obs.bucket = "runningOut" => obs.exhausted
        /\ ~obs.exhausted /\ obs.bucket \in {"close", "runningOut"} => Paced(shown.resetsAt, now)
        /\ shown.resetsAt <= now /\ ~obs.exhausted => obs.bucket = "untracked"
        /\ Paced(shown.resetsAt, now) => obs.bucket # "untracked"
    BY <1>1, <2>1, <2>3, <2>4, ReadingFacts
  <2> HIDE DEF obs
  <2>6. ~NewWindow(obs, state) => shown.resetsAt = state.resetsAt
    BY <1>1, <2>3, <2>5 DEF NewWindow, NoReset
  <2>7. state.firedMilestones \cap PaceAlerts # {} /\ ~(state.resetsAt <= now)
          => Paced(state.resetsAt, now)
    BY <1>1 DEF MarksTold
  <2>8. obs.bucket # "noData"
    BY <2>5 DEF Buckets
  <2> QED  BY <1>2, <2>2, <2>5, <2>6, <2>7, <2>8 DEF obs
<1> QED  BY <1>3, <1>4

\* What is on the screen is the window of the provider, or one that is over.
Dated(shown) ==
  shown.limit > 0 => /\ shown.limit = Limit
                     /\ shown.resetsAt # NoReset
                     /\ shown.resetsAt = resets \/ shown.resetsAt <= now
                     /\ shown.resetsAt <= resets
                     /\ state.resetsAt <= shown.resetsAt

\* A pass keeps the converse, in the window it leaves behind.
LEMMA PassHeard ==
  ASSUME TypeOK, Known(state, told), HeardInv, MayPass,
         "jitter" \notin Disturbance, "slow" \notin Disturbance,
         NEW shown \in Readings, Dated(shown),
         NEW on \in SUBSET Milestones, Pass(shown, on)
  PROVE  /\ Heard(state', told')
         /\ MarksTold(state'.firedMilestones \cup Pending', told', state'.resetsAt, now)
         /\ Len(sending') <= 1
         /\ last'.missed = {}
         /\ state'.resetsAt = state.resetsAt
              \/ (shown.limit > 0 /\ state'.resetsAt = shown.resetsAt)
<1> DEFINE obs == deriveObservation(shown, now)
           result == transitions(obs, state, on)
           fire == result.fire
<1>1. sending = <<>>
  BY DEF MayPass
<1>2. MarksTold(state.firedMilestones, told, state.resetsAt, now)
  BY DEF HeardInv, MarksInv, MarksTold
<1>3. CASE on = {} \/ shown = NoCard
  <2>1. last' = Quiet /\ UNCHANGED <<state, sending, told>>
    BY <1>3, Zenon DEF Pass
  <2>2. Pending' = Pending
    BY <2>1 DEF Pending
  <2> QED
    BY <2>1, <2>2, <1>1 DEF HeardInv, MarksInv, Quiet
<1>4. CASE ~(on = {} \/ shown = NoCard)
  <2>1. /\ state' = result.newState
        /\ sending' = IF fire = {} THEN sending ELSE Append(sending, fire)
        /\ told' = NowTold(obs, state, fire)
        /\ last' = [fired |-> fire, again |-> fire \cap StillTold(obs, state),
                    missed |-> Due(obs, on) \ told', unsent |-> Due(obs, on) \cap failed']
    BY <1>4, Zenon DEF Pass
  <2>2. now \in Nat /\ state \in NotificationState /\ told \in SUBSET Milestones
    BY Constants DEF TypeOK
  <2>3. obs \in Observation /\ obs.resetsAt \in Nat
    BY <2>2, ObservationType, ObservationFields
  <2>4. /\ obs.bucket # "noData" /\ obs.exhausted => obs.under /\ obs.bucket # "healthy"
        /\ obs.bucket # "noData" => shown.limit > 0 /\ obs.resetsAt = shown.resetsAt
        /\ obs.bucket = "noData" => obs.resetsAt = NoReset
        /\ obs.bucket \in {"close", "runningOut"} /\ ~obs.exhausted => Paced(obs.resetsAt, now)
        /\ ~NewWindow(obs, state) =>
             /\ obs.resetsAt \in {NoReset, state.resetsAt}
             /\ state.resetsAt <= now =>
                  /\ Ending(state.resetsAt, now)
                  /\ obs.bucket \in {"noData", "untracked"} \/ obs.exhausted
             /\ Ending(state.resetsAt, now) /\ obs.bucket = "runningOut" => obs.exhausted
             /\ obs.bucket = "close" /\ obs.exhausted => Ending(state.resetsAt, now)
             /\ obs.bucket = "untracked" /\ state.firedMilestones \cap PaceAlerts # {}
                  => state.resetsAt <= now
    BY <1>2, ShownFacts DEF Dated
  <2> HIDE DEF obs
  <2>5. Heard(state, told)
    BY DEF HeardInv
  <2>6. (state.resetsAt <= now) \in BOOLEAN /\ Ending(state.resetsAt, now) \in BOOLEAN
    BY DEF Ending
  <2> DEFINE over == state.resetsAt <= now
             ending == Ending(state.resetsAt, now)
             new == NowTold(obs, state, fire)
             marks == result.newState.firedMilestones \cup fire
  <2>7. /\ "underTenPercent" \in state.firedMilestones => "underTenPercent" \in told
        /\ "healthyToClose" \in state.firedMilestones => over \/ "healthyToClose" \in told
        /\ "closeToRunningOut" \in state.firedMilestones => ending \/ "closeToRunningOut" \in told
        /\ state.firedMilestones \cap PaceAlerts # {} /\ now < state.resetsAt
             => Paced(state.resetsAt, now)
    BY <1>2, Zenon DEF MarksTold
  <2>8. ~NewWindow(obs, state) =>
          /\ over => ending /\ (obs.bucket \in {"noData", "untracked"} \/ obs.exhausted)
          /\ ending /\ obs.bucket = "runningOut" => obs.exhausted
          /\ obs.bucket = "close" /\ obs.exhausted => ending
          /\ obs.bucket = "untracked" /\ state.firedMilestones \cap PaceAlerts # {} => over
    BY <2>4, Zenon
  <2>9. obs.bucket # "noData" /\ obs.exhausted => obs.under /\ obs.bucket # "healthy"
    BY <2>4, Zenon
  <2> HIDE DEF over, ending
  <2>10. over \in BOOLEAN /\ ending \in BOOLEAN
    BY <2>6, Zenon DEF over, ending
  <2>11. /\ Due(obs, on) \subseteq new
         /\ Heard(result.newState, new)
         /\ "underTenPercent" \in marks => "underTenPercent" \in new
         /\ "healthyToClose" \in marks =>
              "healthyToClose" \in new \/ (over /\ ~NewWindow(obs, state))
         /\ "closeToRunningOut" \in marks =>
              "closeToRunningOut" \in new \/ (ending /\ ~NewWindow(obs, state))
         /\ fire \cap PaceAlerts # {} =>
              obs.bucket \in {"close", "runningOut"} /\ ~obs.exhausted
         /\ result.newState.firedMilestones \subseteq
              IF NewWindow(obs, state) THEN {} ELSE state.firedMilestones
         /\ result.newState.resetsAt =
              IF obs.resetsAt = NoReset THEN state.resetsAt ELSE obs.resetsAt
    BY <2>2, <2>3, <2>5, <2>7, <2>8, <2>9, <2>10, TransitionHeard, SMTT(40)
  <2> HIDE DEF result, fire, new, marks
  <2>12. Pending' = fire /\ Len(sending') <= 1
    <3>1. CASE fire = {}
      BY <3>1, <2>1, <1>1 DEF Pending
    <3>2. CASE fire # {}
      <4>1. sending' = <<fire>>
        BY <3>2, <2>1, <1>1
      <4>2. DOMAIN sending' = {1} /\ sending'[1] = fire /\ Len(sending') = 1
        BY <4>1
      <4> QED  BY <4>2 DEF Pending
    <3> QED  BY <3>1, <3>2
  <2>13. state'.firedMilestones \cup Pending' = marks /\ told' = new
    BY <2>1, <2>12, Zenon DEF marks, new
  <2>14. state'.resetsAt = IF obs.resetsAt = NoReset THEN state.resetsAt ELSE obs.resetsAt
    BY <2>1, <2>11
  <2>15. ~NewWindow(obs, state) => state'.resetsAt = state.resetsAt
    BY <2>4, <2>14
  <2>16. state'.resetsAt = state.resetsAt
           \/ (shown.limit > 0 /\ state'.resetsAt = shown.resetsAt)
    BY <2>4, <2>14
  <2>17. marks \cap PaceAlerts # {} /\ now < state'.resetsAt => Paced(state'.resetsAt, now)
    <3>1. CASE fire \cap PaceAlerts # {}
      <4>1. obs.bucket # "noData" /\ Paced(obs.resetsAt, now)
        BY <3>1, <2>4, <2>11
      <4>2. obs.resetsAt # NoReset
        BY <4>1, <2>4 DEF Dated
      <4> QED  BY <4>1, <4>2, <2>14
    <3>2. CASE fire \cap PaceAlerts = {}
      <4> SUFFICES ASSUME marks \cap PaceAlerts # {}, now < state'.resetsAt
                   PROVE  Paced(state'.resetsAt, now)
        OBVIOUS
      <4>1. result.newState.firedMilestones \cap PaceAlerts # {}
        BY <3>2 DEF marks
      <4>2. ~NewWindow(obs, state) /\ state.firedMilestones \cap PaceAlerts # {}
        BY <4>1, <2>11
      <4> QED  BY <4>2, <2>7, <2>15
    <3> QED  BY <3>1, <3>2
  <2>18. MarksTold(marks, new, state'.resetsAt, now)
    <3>1. /\ over => state'.resetsAt <= now \/ NewWindow(obs, state)
          /\ ending => Ending(state'.resetsAt, now) \/ NewWindow(obs, state)
      BY <2>15 DEF over, ending
    <3> QED  BY <3>1, <2>11, <2>17, Zenon DEF MarksTold
  <2>19. last'.missed = {}
    <3>1. last'.missed = Due(obs, on) \ told'
      BY <2>1
    <3> QED  BY <3>1, <2>11, <2>13
  <2>20. Heard(state', told')
    BY <2>1, <2>11, <2>13, Zenon
  <2> QED
    BY <2>12, <2>13, <2>16, <2>18, <2>19, <2>20
<1> QED
  BY <1>3, <1>4

\* Time does not take the exceptions back, nor does it make a pace too early.
LEMMA TimePasses ==
  ASSUME NEW at \in Nat, NEW s \in Nat, NEW t \in Nat, s <= t
  PROVE  /\ at <= s => at <= t
         /\ Ending(at, s) => Ending(at, t)
         /\ Paced(at, s) /\ t < at => Paced(at, t)
<1>1. Period \in Nat \ {0} /\ Limit \in Nat \ {0}
  BY Constants
<1> QED
  BY <1>1 DEF Ending, Paced, Elapsed, Calculable, TooEarly

LEMMA HeardStep ==
  ASSUME TypeOK, Known(state, told), HeardInv, [Next]_vars,
         "jitter" \notin Disturbance, "slow" \notin Disturbance
  PROVE  HeardInv'
<1>t. /\ now \in Nat /\ resets \in Nat /\ state \in NotificationState /\ state.resetsAt \in Nat
      /\ Period \in Nat \ {0} /\ Limit \in Nat \ {0} /\ card.resetsAt \in Nat
  <2>1. /\ now \in Moments /\ resets \in Nat /\ state \in NotificationState
        /\ card \in [used : Levels \cup {0}, limit : {-1, 0, Limit}, resetsAt : Nat,
                     period : {Period}]
    BY Zenon DEF TypeOK
  <2>2. now \in Nat
    BY <2>1, Constants
  <2>3. card.resetsAt \in Nat
    BY <2>1, Zenon
  <2> QED
    BY <2>1, <2>2, <2>3, Constants, StateFields
<1>1. ASSUME NEW shown \in Readings, Dated(shown), NEW on \in SUBSET Milestones,
             MayPass, Pass(shown, on), card' = shown, UNCHANGED <<now, resets>>
      PROVE  HeardInv'
  <2>1. /\ Heard(state', told')
        /\ MarksTold(state'.firedMilestones \cup Pending', told', state'.resetsAt, now)
        /\ Len(sending') <= 1 /\ last'.missed = {}
        /\ state'.resetsAt = state.resetsAt
             \/ (shown.limit > 0 /\ state'.resetsAt = shown.resetsAt)
    BY <1>1, PassHeard, Zenon
  <2>2. CurrentInv'
    <3>1. shown.resetsAt \in Nat
      BY DEF Readings
    <3>2. UNCHANGED <<now, resets>> /\ card' = shown
      BY <1>1
    <3>3. Dated(shown)
      BY <1>1
    <3> QED
      BY <1>t, <2>1, <3>1, <3>2, <3>3 DEF CurrentInv, HeardInv, Dated
  <2>3. MarksInv' /\ Heard(state, told)'
    BY <1>1, <2>1, Zenon DEF MarksInv, Heard, MarksTold, Ending, Paced
  <2> QED
    BY <2>1, <2>2, <2>3, Zenon DEF HeardInv
<1>d. Dated(card)
  BY DEF HeardInv, CurrentInv, Dated
<1>2. CASE Refresh
  <2>1. PICK shown \in Reading : card' = shown /\ Pass(shown, toggles)
    BY <1>2 DEF Refresh
  <2>2. MayPass /\ UNCHANGED <<now, resets>>
    BY <1>2, Zenon DEF Refresh
  <2>3. shown \in Readings /\ toggles \in SUBSET Milestones
    BY Constants DEF TypeOK, Reading, Readings, NoReset
  <2>4. shown.limit > 0 => shown.limit = Limit /\ shown.resetsAt = resets
    BY <2>1 DEF Reading
  <2>5. Dated(shown)
    BY <1>t, <2>4 DEF Dated, HeardInv, CurrentInv, NoReset
  <2> QED
    BY <1>1, <2>1, <2>2, <2>3, <2>5, Zenon
<1>3. CASE Rerender
  <2>1. /\ Pass(card, toggles) /\ MayPass /\ card' = card /\ UNCHANGED <<now, resets>>
        /\ toggles \in SUBSET Milestones
    BY <1>3, Zenon DEF Rerender, TypeOK
  <2> QED
    BY <1>1, <1>d, <2>1, CardIsReading, Zenon
<1>4. ASSUME NEW on \in Settings, SetToggles(on) PROVE HeardInv'
  <2>1. /\ Pass(card, on) /\ MayPass /\ card' = card /\ UNCHANGED <<now, resets>>
        /\ on \in SUBSET Milestones
    BY <1>4, Constants, Zenon DEF SetToggles
  <2> QED
    BY <1>1, <1>d, <2>1, CardIsReading, Zenon
<1>5. CASE Tick
  <2>1. UNCHANGED <<card, state, sending, told, last>>
    BY <1>5 DEF Tick
  <2>2. /\ now' \in Nat /\ now <= now'
        /\ resets' = IF now' >= resets THEN resets + Period ELSE resets
    BY <1>5, <1>t, Constants DEF Tick
  <2>3. CurrentInv'
    BY <1>t, <2>1, <2>2 DEF HeardInv, CurrentInv, NoReset
  <2>4. /\ state.resetsAt <= now => state.resetsAt <= now'
        /\ Ending(state.resetsAt, now) => Ending(state.resetsAt, now')
        /\ Paced(state.resetsAt, now) /\ now' < state.resetsAt => Paced(state.resetsAt, now')
    BY <1>t, <2>2, TimePasses
  <2>5. now' < state.resetsAt => now < state.resetsAt
    BY <1>t, <2>2
  <2> DEFINE marks == state.firedMilestones \cup Pending
             at == state.resetsAt
  <2>6. MarksTold(marks, told, at, now)
    BY DEF HeardInv, MarksInv
  <2> HIDE DEF marks, at
  <2>7. MarksTold(marks, told, at, now')
    BY <2>4, <2>5, <2>6, Zenon DEF MarksTold, at
  <2>8. MarksTold(marks', told', at', now') => MarksInv'
    BY Zenon DEF MarksInv, MarksTold, Ending, Paced, marks, at
  <2>9. marks' = marks /\ at' = at /\ told' = told
    BY <2>1 DEF marks, at, Pending
  <2>10. Heard(state, told)' /\ Len(sending') <= 1 /\ last'.missed = {}
    BY <2>1 DEF HeardInv, Heard
  <2> QED
    BY <2>3, <2>7, <2>8, <2>9, <2>10, Zenon DEF HeardInv
<1>6. ASSUME UNCHANGED <<now, resets, card, state, sending, told, last>> PROVE HeardInv'
  BY <1>6 DEF HeardInv, CurrentInv, MarksInv, MarksTold, Heard, Pending, Ending, Paced
<1>7. ASSUME NEW i \in DOMAIN sending, NEW ok \in BOOLEAN, Settle(i, ok) PROVE HeardInv'
  <2> DEFINE m == First(sending[i])
  <2>1. sending \in Seq((SUBSET Milestones) \ {{}}) /\ Len(sending) <= 1 /\ i \in 1 .. Len(sending)
    BY DEF TypeOK, HeardInv
  <2>2. sending[i] \in (SUBSET Milestones) \ {{}}
    BY <2>1
  <2>3. m \in sending[i]
    BY <2>2, FirstIn
  <2>4. /\ state' = IF ok THEN [state EXCEPT !.firedMilestones = @ \cup {m}] ELSE state
        /\ sending' = IF sending[i] = {m} THEN RemoveAt(sending, i)
                      ELSE [sending EXCEPT ![i] = @ \ {m}]
        /\ UNCHANGED <<now, resets, card, last, told>>
    BY <1>7, Zenon DEF Settle
  <2> HIDE DEF m
  <2>5. /\ state'.primed = state.primed /\ state'.previousBucket = state.previousBucket
        /\ state'.wasUnderTenPercent = state.wasUnderTenPercent
        /\ state'.resetsAt = state.resetsAt
        /\ state'.firedMilestones \subseteq state.firedMilestones \cup {m}
    <3>1. CASE ok
      <4>1. state' = [state EXCEPT !.firedMilestones = @ \cup {m}]
        BY <3>1, <2>4, Zenon
      <4> QED  BY <4>1, <1>t DEF NotificationState
    <3>2. CASE ~ok
      BY <3>2, <2>4
    <3> QED  BY <3>1, <3>2
  <2>6. Len(sending') <= 1 /\ Pending' \subseteq Pending
    <3>1. CASE sending[i] = {m}
      <4>1. RemoveAt(sending, i) \in Seq((SUBSET Milestones) \ {{}})
            /\ Len(RemoveAt(sending, i)) = Len(sending) - 1
        BY <2>1, RemoveAtType
      <4>2. sending' \in Seq((SUBSET Milestones) \ {{}}) /\ Len(sending') = Len(sending) - 1
        BY <4>1, <3>1, <2>4
      <4>3. Len(sending') = 0 /\ DOMAIN sending' = {}
        BY <4>2, <2>1
      <4> QED  BY <4>3 DEF Pending
    <3>2. CASE sending[i] # {m}
      <4>1. sending' = [sending EXCEPT ![i] = @ \ {m}]
        BY <3>2, <2>4
      <4>2. /\ DOMAIN sending' = DOMAIN sending
            /\ \A j \in DOMAIN sending : sending'[j] \subseteq sending[j]
        BY <4>1, <2>1
      <4>3. Len(sending') = Len(sending)
        BY <4>1, <2>1
      <4> QED  BY <4>2, <4>3, <2>1 DEF Pending
    <3> QED  BY <3>1, <3>2
  <2>7. m \in Pending
    BY <2>3 DEF Pending
  <2>8. state'.firedMilestones \cup Pending' \subseteq state.firedMilestones \cup Pending
    BY <2>5, <2>6, <2>7
  <2> DEFINE marks == state.firedMilestones \cup Pending
             at == state.resetsAt
  <2>9. MarksTold(marks, told, at, now)
    BY DEF HeardInv, MarksInv
  <2>10. at' = at /\ told' = told /\ now' = now /\ marks' \subseteq marks
    BY <2>4, <2>5, <2>8
  <2> HIDE DEF marks, at
  <2>11. MarksTold(marks', told, at, now)
    BY <2>9, <2>10 DEF MarksTold
  <2>12. MarksTold(marks', told', at', now') => MarksInv'
    BY Zenon DEF MarksInv, MarksTold, Ending, Paced, marks, at
  <2>13. CurrentInv'
    BY <2>4, <2>5 DEF HeardInv, CurrentInv
  <2>14. Heard(state, told)' /\ last'.missed = {}
    BY <2>4, <2>5 DEF HeardInv, Heard
  <2> QED
    BY <2>6, <2>10, <2>11, <2>12, <2>13, <2>14, Zenon DEF HeardInv
<1>8. CASE Use
  <2>1. UNCHANGED <<now, resets, card, state, sending, told, last>>
    BY <1>8 DEF Use
  <2> QED  BY <1>6, <2>1
<1>9. CASE UNCHANGED vars
  <2>1. UNCHANGED <<now, resets, card, state, sending, told, last>>
    BY <1>9 DEF vars
  <2> QED  BY <1>6, <2>1
<1> QED
  BY <1>2, <1>3, <1>4, <1>5, <1>7, <1>8, <1>9, Zenon DEF Next

\* A worsening that the user wants to hear of is told at the first pass that
\* sees it: no toggle that was off, no reading without data and no mark of an
\* earlier alert or window makes the code keep it to itself.  This is for
\* deliveries that end before the next pass and a reset instant that is
\* reported unchanged; deliveries may fail.
THEOREM WorseningsAreTold ==
  "slow" \notin Disturbance /\ "jitter" \notin Disturbance => (Spec => []WorseningIsTold)
<1> SUFFICES ASSUME "slow" \notin Disturbance, "jitter" \notin Disturbance
             PROVE  Spec => []WorseningIsTold
  OBVIOUS
<1> DEFINE IInv == TypeOK /\ Known(state, told) /\ last.again = {} /\ HeardInv
<1>1. Init => IInv
  <2> SUFFICES ASSUME Init PROVE IInv
    OBVIOUS
  <2>1. TypeOK
    BY InitType
  <2>2. Known(state, told)
    BY Zenon DEF Init, Known
  <2>3. last = Quiet /\ sending = <<>> /\ resets = Period /\ now < Period /\ now \in Nat
        /\ state = initialNotificationState /\ told = {}
    BY Constants DEF Init
  <2>4. Heard(state, told)
    BY <2>3, Zenon DEF Heard, initialNotificationState
  <2>5. state.firedMilestones = {} /\ state.resetsAt = NoReset /\ Pending = {}
    BY <2>3 DEF initialNotificationState, Pending
  <2>6. CurrentInv
    BY <2>3, <2>5, Constants DEF CurrentInv, Init, NoReset, NoCard
  <2>7. MarksInv
    BY <2>5 DEF MarksInv, MarksTold
  <2>8. last.again = {} /\ last.missed = {} /\ Len(sending) <= 1
    BY <2>3 DEF Quiet
  <2> QED
    BY <2>1, <2>2, <2>4, <2>6, <2>7, <2>8 DEF HeardInv
<1>2. IInv /\ [Next]_vars => IInv'
  BY NextInv, HeardStep, Zenon
<1>3. IInv => WorseningIsTold
  BY DEF HeardInv, WorseningIsTold
<1> QED
  BY <1>1, <1>2, <1>3, PTL DEF Spec
=============================================================================
