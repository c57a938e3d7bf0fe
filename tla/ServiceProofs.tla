---------------------------- MODULE ServiceProofs ----------------------------
(***************************************************************************)
(* Proofs about the services of the native side: the auto-update           *)
(* scheduler, the slots of the local HTTP server, the global shortcut, the *)
(* query of the usage logs and the renewal of the prices, each for every   *)
(* value of its constants.                                                 *)
(***************************************************************************)
EXTENDS Scheduler, HttpServer, GlobalShortcut, CcusageQuery, PricingCache,
        FiniteSetTheorems, SequenceTheorems, TLAPS

(***************************************************************************)
(* Scheduler: for every set of intervals, slice, slack and jitter.         *)
(***************************************************************************)
\* Where the current sleep stands on the wall clock.
SleepInv ==
  pc = "sleep" =>
    /\ left <= asked
    /\ left > 0 => late = 0
    /\ now = before + (asked - left) + late + jumped
    /\ napped <=> jumped > Slack

\* A suspension that was noticed leads from the sleep to the refresh.
NapInv == napped => pc \in {"sleep", "fire"}

\* The wall clock shows at least the time awake, less what it was set back.
ClockInv == now + back >= cycle_start + waited

DeadlineInv ==
  pc # "cycle" => deadline > cycle_start /\ published = deadline

Length == deadline - cycle_start

\* How long the cycle has lasted, by control state.
WaitInv ==
  /\ pc = "cycle" => waited <= late
  /\ pc = "look"  => waited <= Length + back + Jitter + late
  /\ pc = "sleep" => waited + left <= Length + back + late
  /\ pc = "fire"  => waited <= Length + back + 2 * Jitter + late

\* How long the refresh has been due, by control state.
OverdueInv ==
  /\ ~Due => overdue = 0
  /\ pc = "look"  => overdue <= MaxSlice + Jitter + late
  /\ pc = "sleep" => overdue <= (MaxSlice - left) + late
  /\ pc = "fire"  => overdue <= MaxSlice + 2 * Jitter + late

IInv == TypeOK /\ SleepInv /\ NapInv /\ ClockInv /\ DeadlineInv /\ WaitInv /\ OverdueInv

LEMMA InitIInv == Init => IInv
  <1> SUFFICES ASSUME Init PROVE IInv
      OBVIOUS
  <1>0. napped \in BOOLEAN
    BY Zenon DEF Init
  <1>1. TypeOK
    BY <1>0, SchedulerAssumption DEF Init, TypeOK
  <1>2. SleepInv /\ ClockInv /\ DeadlineInv /\ WaitInv
    BY <1>1 DEF Init, TypeOK, SleepInv, ClockInv, DeadlineInv, WaitInv
  <1>3. NapInv /\ ~Due
    BY DEF Init, NapInv, Due
  <1>4. OverdueInv
    BY <1>1, <1>3 DEF Init, OverdueInv
  <1> QED BY <1>1, <1>2, <1>3, <1>4 DEF IInv

\* What a gain of the wall clock preserves.
LEMMA GainInv ==
  ASSUME IInv, NEW e \in Int, Gain(e), now' = now + e, now' \in Nat, back' \in Nat,
         UNCHANGED <<interval, pc, cycle_start, deadline, published, before, asked,
                     left, late, waited>>,
         overdue' \in {0, overdue}
  PROVE  TypeOK' /\ SleepInv' /\ NapInv'
  <1>1. CASE pc = "sleep"
    <2>1. jumped' = jumped + e /\ (napped' <=> jumped' > Slack)
      <3>1. jumped' = jumped + e
        BY <1>1 DEF Gain
      <3>2. jumped' \in Int /\ Slack \in Int
        BY <3>1, SchedulerAssumption DEF IInv, TypeOK
      <3>3. napped' <=> ~(jumped' <= Slack)
        BY <1>1, Zenon DEF Gain
      <3>4. ~(jumped' <= Slack) <=> jumped' > Slack
        BY <3>2
      <3> QED BY <3>1, <3>3, <3>4, Zenon
    <2>2. napped' \in BOOLEAN
      BY <1>1, Zenon DEF Gain
    <2>3. TypeOK'
      BY <2>1, <2>2 DEF IInv, TypeOK
    <2>4. SleepInv'
      <3>1. /\ left <= asked
            /\ left > 0 => late = 0
            /\ now + e = before + (asked - left) + late + (jumped + e)
        BY <1>1 DEF IInv, TypeOK, SleepInv
      <3> QED BY <1>1, <2>1, <3>1 DEF SleepInv
    <2> QED BY <1>1, <2>3, <2>4 DEF NapInv
  <1>2. CASE pc # "sleep"
    <2>1. jumped' = 0 /\ napped' = napped
      BY <1>2 DEF Gain
    <2>2. napped' \in BOOLEAN
      BY <2>1, Zenon DEF IInv, TypeOK
    <2> QED
      BY <1>2, <2>1, <2>2 DEF IInv, TypeOK, SleepInv, NapInv
  <1> QED BY <1>1, <1>2

LEMMA NextIInv == IInv /\ [Next]_vars => IInv'
  <1> SUFFICES ASSUME IInv, [Next]_vars
               PROVE  IInv'
      OBVIOUS
  <1> USE SchedulerAssumption
  <1>1. CASE BeginCycle
    <2>1. interval \in Nat \ {0} /\ deadline' = cycle_start + interval
          /\ published' = deadline' /\ pc = "cycle" /\ pc' = "look" /\ late' = 0
      BY <1>1 DEF BeginCycle, IInv, TypeOK
    <2>2. TypeOK'
      BY <1>1, <2>1 DEF BeginCycle, Overdue, Due, IInv, TypeOK
    <2>3. SleepInv' /\ NapInv' /\ ClockInv' /\ DeadlineInv'
      BY <1>1, <2>1 DEF BeginCycle, IInv, TypeOK, SleepInv, NapInv, ClockInv, DeadlineInv
    <2>4. WaitInv'
      BY <1>1, <2>1 DEF BeginCycle, IInv, TypeOK, WaitInv, Length
    <2>5. OverdueInv'
      BY <1>1, <2>1 DEF BeginCycle, Overdue, Due, IInv, TypeOK, OverdueInv, NapInv
    <2> QED BY <2>2, <2>3, <2>4, <2>5 DEF IInv
  <1>2. CASE scheduler_step
    <2>1. CASE now >= deadline
      <3>1. TypeOK' /\ SleepInv' /\ NapInv' /\ ClockInv' /\ DeadlineInv'
        BY <1>2, <2>1 DEF scheduler_step, Overdue, IInv, TypeOK, SleepInv, NapInv,
                          ClockInv, DeadlineInv
      <3>2. WaitInv'
        BY <1>2, <2>1 DEF scheduler_step, IInv, TypeOK, WaitInv, Length
      <3>3. OverdueInv'
        BY <1>2, <2>1 DEF scheduler_step, Overdue, Due, IInv, TypeOK, OverdueInv
      <3> QED BY <3>1, <3>2, <3>3 DEF IInv
    <2>2. CASE ~(now >= deadline)
      <3> DEFINE t == Shorter(deadline - now, MaxSlice)
      <3>1. t \in 1 .. MaxSlice /\ t <= deadline - now
        BY <2>2 DEF Shorter, IInv, TypeOK
      <3>2. /\ pc = "look" /\ pc' = "sleep" /\ asked' = t /\ left' = t
            /\ jumped' = 0 /\ before' = now /\ late' = 0
            /\ UNCHANGED <<now, interval, cycle_start, deadline, published, napped,
                           back, waited>>
        BY <1>2, <2>2 DEF scheduler_step, Sleep
      <3>3. ~napped /\ ~Due
        BY <2>2, <3>2 DEF IInv, NapInv, Due
      <3>4. overdue' = 0
        BY <1>2, <3>3 DEF scheduler_step, Overdue
      <3> HIDE DEF t
      <3>5. TypeOK' /\ SleepInv' /\ NapInv' /\ ClockInv' /\ DeadlineInv'
        BY <3>1, <3>2, <3>3, <3>4 DEF IInv, TypeOK, SleepInv, NapInv, ClockInv, DeadlineInv
      <3>6. WaitInv'
        BY <2>2, <3>1, <3>2 DEF IInv, TypeOK, ClockInv, WaitInv, Length
      <3>7. OverdueInv'
        BY <3>1, <3>2, <3>4 DEF IInv, TypeOK, OverdueInv
      <3> QED BY <3>5, <3>6, <3>7 DEF IInv
    <2> QED BY <2>1, <2>2
  <1>3. CASE Wake
    <2>1. /\ pc = "sleep" /\ left = 0 /\ pc' \in {"fire", "look"} /\ late' = 0
          /\ jumped' = 0
          /\ UNCHANGED <<now, interval, cycle_start, deadline, published, before,
                         asked, left, napped, back, waited>>
      BY <1>3 DEF Wake
    <2>2. napped => pc' = "fire"
      BY <1>3 DEF Wake, woke_from_suspend, Since, IInv, TypeOK, SleepInv
    <2>3. overdue' \in {0, overdue}
      BY <1>3 DEF Wake, Overdue, IInv, TypeOK
    <2>4. TypeOK' /\ SleepInv' /\ NapInv' /\ ClockInv' /\ DeadlineInv'
      BY <2>1, <2>2, <2>3 DEF IInv, TypeOK, SleepInv, NapInv, ClockInv, DeadlineInv
    <2>5. WaitInv'
      BY <2>1 DEF IInv, TypeOK, WaitInv, Length
    <2>6. ~Due' => overdue' = 0
      BY <1>3 DEF Wake, Overdue
    <2>7. OverdueInv'
      BY <2>1, <2>3, <2>6 DEF IInv, TypeOK, OverdueInv
    <2> QED BY <2>4, <2>5, <2>7 DEF IInv
  <1>4. CASE Fire
    <2>1. ~Due' /\ overdue' = 0 /\ NapInv'
      BY <1>4 DEF Fire, Overdue, Due, NapInv
    <2>0. napped' \in BOOLEAN
      BY <1>4, Zenon DEF Fire
    <2>2. TypeOK'
      BY <1>4, <2>0, <2>1 DEF Fire, IInv, TypeOK
    <2>3. SleepInv' /\ DeadlineInv' /\ OverdueInv'
      BY <1>4, <2>1 DEF Fire, SleepInv, DeadlineInv, OverdueInv
    <2>4. ClockInv' /\ WaitInv'
      BY <1>4 DEF Fire, IInv, TypeOK, ClockInv, WaitInv
    <2> QED BY <2>1, <2>2, <2>3, <2>4 DEF IInv
  <1>5. CASE Tick
    <2>1. /\ now' = now + 1 /\ waited' = waited + 1
          /\ UNCHANGED <<interval, pc, cycle_start, deadline, published, before,
                         asked, jumped, napped, back>>
      BY <1>5 DEF Tick
    <2>2. overdue' \in {0, overdue + 1} /\ (~Due' => overdue' = 0)
      BY <1>5 DEF Tick, Overdue, IInv, TypeOK
    <2>3. CASE Asleep
      <3>1. pc = "sleep" /\ left > 0 /\ left' = left - 1 /\ late' = late /\ late = 0
        BY <1>5, <2>3 DEF Tick, Asleep, IInv, SleepInv
      <3> QED
        BY <2>1, <2>2, <3>1 DEF IInv, TypeOK, SleepInv, NapInv, ClockInv, DeadlineInv,
                                WaitInv, OverdueInv, Length
    <2>4. CASE ~Asleep
      <3>1. late < Jitter /\ late' = late + 1 /\ left' = left
            /\ (pc = "sleep" => left = 0)
        BY <1>5, <2>4 DEF Tick, Asleep, IInv, TypeOK
      <3>2. TypeOK' /\ SleepInv' /\ NapInv' /\ ClockInv' /\ DeadlineInv'
        BY <2>1, <2>2, <3>1 DEF IInv, TypeOK, SleepInv, NapInv, ClockInv, DeadlineInv
      <3>3. WaitInv'
        BY <2>1, <3>1 DEF IInv, TypeOK, WaitInv, Length
      <3>4. OverdueInv'
        BY <2>1, <2>2, <3>1 DEF IInv, TypeOK, OverdueInv
      <3> QED BY <3>2, <3>3, <3>4 DEF IInv
    <2> QED BY <2>3, <2>4
  <1>6. ASSUME NEW d \in Nap, Suspend(d)
        PROVE  IInv'
    <2>1. d \in Nat /\ d \in Int
      OBVIOUS
    <2>2. /\ now' = now + d /\ Gain(d)
          /\ UNCHANGED <<interval, pc, cycle_start, deadline, published, before, asked,
                         left, late, back, waited>>
      BY <1>6 DEF Suspend, threadVars
    <2>3. overdue' \in {0, overdue} /\ (~Due' => overdue' = 0)
      BY <1>6, <2>1 DEF Suspend, Overdue, IInv, TypeOK
    <2>4. now' \in Nat /\ back' \in Nat
      BY <2>1, <2>2 DEF IInv, TypeOK
    <2>5. TypeOK' /\ SleepInv' /\ NapInv'
      BY <2>1, <2>2, <2>3, <2>4, GainInv
    <2>6. ClockInv' /\ DeadlineInv' /\ WaitInv' /\ OverdueInv'
      BY <2>1, <2>2, <2>3 DEF IInv, TypeOK, ClockInv, DeadlineInv, WaitInv, OverdueInv,
                              Length
    <2> QED BY <2>5, <2>6 DEF IInv
  <1>7. ASSUME NEW d \in Nap, SetBack(d)
        PROVE  IInv'
    <2>1. d \in Nat /\ -d \in Int
      OBVIOUS
    <2>2. /\ now' = now - d /\ d <= now /\ back' = back + d /\ Gain(-d)
          /\ UNCHANGED <<interval, pc, cycle_start, deadline, published, before, asked,
                         left, late, waited>>
      BY <1>7 DEF SetBack, threadVars
    <2>3. overdue' \in {0, overdue} /\ (~Due' => overdue' = 0)
      BY <1>7, <2>1 DEF SetBack, Overdue, IInv, TypeOK
    <2>4. now' = now + (-d) /\ now' \in Nat /\ back' \in Nat
      BY <2>1, <2>2 DEF IInv, TypeOK
    <2>5. TypeOK' /\ SleepInv' /\ NapInv'
      BY <2>1, <2>2, <2>3, <2>4, GainInv
    <2>6. ClockInv' /\ DeadlineInv' /\ WaitInv' /\ OverdueInv'
      BY <2>1, <2>2, <2>3 DEF IInv, TypeOK, ClockInv, DeadlineInv, WaitInv, OverdueInv,
                              Length
    <2> QED BY <2>5, <2>6 DEF IInv
  <1>8. CASE ChangeInterval
    BY <1>8 DEF ChangeInterval, threadVars, IInv, TypeOK, SleepInv, NapInv, ClockInv,
                DeadlineInv, WaitInv, OverdueInv, Length, Due
  <1>9. CASE UNCHANGED vars
    BY <1>9 DEF vars, threadVars, IInv, TypeOK, SleepInv, NapInv, ClockInv,
                DeadlineInv, WaitInv, OverdueInv, Length, Due
  <1> QED
    BY <1>1, <1>2, <1>3, <1>4, <1>5, <1>6, <1>7, <1>8, <1>9 DEF Next

LEMMA Invariance == Spec => []IInv
  <1>1. Init => IInv
    BY InitIInv
  <1>2. IInv /\ [Next]_vars => IInv'
    BY NextIInv
  <1> QED BY <1>1, <1>2, PTL DEF Spec

\* Every variable of the scheduler keeps its type.
THEOREM TypeCorrect == Spec => []TypeOK
  <1>1. IInv => TypeOK
    BY DEF IInv
  <1> QED BY <1>1, Invariance, PTL

\* Whatever the interval, a refresh that is due starts within one slice of
\* time awake (and three waits for the processor), after a suspension of any
\* length that the wall clock shows.
THEOREM DueRefreshIsSoon == Spec => []DueSoon
  <1>1. IInv => DueSoon
    <2> SUFFICES ASSUME IInv PROVE DueSoon
        OBVIOUS
    <2>1. pc = "cycle" => overdue = 0
      BY DEF IInv, OverdueInv, Due, NapInv
    <2> QED BY <2>1, SchedulerAssumption DEF IInv, TypeOK, OverdueInv, DueSoon
  <1> QED BY <1>1, Invariance, PTL

\* Refreshes keep coming at the interval whatever happens to the clock, except
\* that a clock set back delays the next one by as much.
THEOREM RefreshIsPeriodic == Spec => []RefreshesKeepComing
  <1>1. IInv => RefreshesKeepComing
    BY SchedulerAssumption DEF IInv, TypeOK, WaitInv, Length, RefreshesKeepComing
  <1> QED BY <1>1, Invariance, PTL

\* A machine that is merely busy never causes a refresh before the time that
\* was announced.
THEOREM NoSpuriousRefresh == Spec => NoEarlyRefresh
  <1>1. IInv /\ [Next]_vars
          => [pc # "fire" /\ pc' = "fire" => now >= published \/ jumped > 0]_vars
    <2> SUFFICES ASSUME IInv, Next, pc # "fire", pc' = "fire"
                 PROVE  now >= published \/ jumped > 0
        OBVIOUS
    <2>1. scheduler_step \/ Wake
      BY DEF Next, BeginCycle, Fire, Tick, Suspend, SetBack, ChangeInterval, threadVars
    <2>2. CASE scheduler_step
      BY <2>2 DEF scheduler_step, Sleep, IInv, DeadlineInv
    <2>3. CASE Wake
      <3>1. pc = "sleep" /\ left = 0 /\ Since(now, before) > asked + Slack
        BY <2>3 DEF Wake, woke_from_suspend
      <3>2. now = before + asked + late + jumped
        BY <3>1 DEF IInv, TypeOK, SleepInv
      <3> QED
        BY <3>1, <3>2, SchedulerAssumption DEF Since, IInv, TypeOK
    <2> QED BY <2>1, <2>2, <2>3
  <1> QED BY <1>1, Invariance, PTL DEF Spec, NoEarlyRefresh

(***************************************************************************)
(* HttpServer                                                              *)
(***************************************************************************)
Holding == {c \in Connection : connection[c] \in {"held", "read"}}

HttpTypeOK ==
  /\ listener \in {"accepts", "loads", "swaps", "turns away", "spawns"}
  /\ newcomer \in Connection
  /\ seen \in Nat /\ active \in Nat
  /\ connection \in [Connection -> {"none", "accepted", "busy", "held", "read", "closed"}]

\* A slot is taken only for a connection without one, and only after fewer
\* than all were seen taken.
HttpInv ==
  /\ HttpTypeOK
  /\ IsFiniteSet(Holding)
  /\ SlotsAreGivenBack
  /\ listener \in {"loads", "swaps", "turns away"} => connection[newcomer] = "accepted"
  /\ listener = "swaps" => seen < MAX_CONCURRENT_CONNECTIONS

LEMMA HttpConstants == MAX_CONCURRENT_CONNECTIONS \in Nat
  BY HttpAssumption DEF HttpAssumption

LEMMA HttpInitInv == HttpInit => HttpInv
  <1> SUFFICES ASSUME HttpInit PROVE HttpInv
      OBVIOUS
  <1>1. Holding = {}
    BY DEF HttpInit, Holding
  <1>2. IsFiniteSet(Holding) /\ Cardinality(Holding) = 0
    BY <1>1, FS_EmptySet
  <1> QED BY <1>2, HttpConstants DEF HttpInit, HttpInv, HttpTypeOK, SlotsAreGivenBack, Holding

LEMMA Slots ==
  SlotsAreGivenBack <=> active = Cardinality(Holding) /\ active <= MAX_CONCURRENT_CONNECTIONS
  BY DEF SlotsAreGivenBack, Holding

\* A step that leaves the counter and the held connections preserves both.
LEMMA SameHolding ==
  ASSUME HttpInv, active' = active, Holding' = Holding
  PROVE  IsFiniteSet(Holding)' /\ SlotsAreGivenBack'
  BY DEF HttpInv, SlotsAreGivenBack, Holding

LEMMA HttpStep == HttpInv /\ [HttpNext]_httpVars => HttpInv'
  <1> SUFFICES ASSUME HttpInv, [HttpNext]_httpVars PROVE HttpInv'
      OBVIOUS
  <1>1. CASE start_server
    <2>1. active' = active /\ Holding' = Holding
      BY <1>1 DEF start_server, Turns, HttpInv, HttpTypeOK, Holding
    <2> QED BY <1>1, <2>1, SameHolding DEF start_server, Turns, HttpInv, HttpTypeOK
  <1>2. CASE load
    <2>1. active' = active /\ Holding' = Holding
      BY <1>2 DEF load, Holding
    <2>2. IsFiniteSet(Holding)' /\ SlotsAreGivenBack'
      BY <2>1, SameHolding
    <2>3. HttpTypeOK' /\ connection'[newcomer'] = "accepted"
      BY <1>2 DEF load, HttpInv, HttpTypeOK
    <2>4. listener' = "swaps" => seen' < MAX_CONCURRENT_CONNECTIONS
      BY <1>2, HttpConstants DEF load, HttpInv, HttpTypeOK
    <2> QED BY <2>2, <2>3, <2>4 DEF HttpInv
  <1>3. CASE compare_exchange
    <2>1. CASE active = seen
      <3>1. newcomer \notin Holding /\ Holding' = Holding \cup {newcomer}
        BY <1>3, <2>1 DEF compare_exchange, Takes, Turns, HttpInv, HttpTypeOK, Holding
      <3>2. IsFiniteSet(Holding') /\ Cardinality(Holding') = Cardinality(Holding) + 1
        BY <3>1, FS_AddElement DEF HttpInv
      <3>3. active = Cardinality(Holding) /\ active' = active + 1 /\ active < MAX_CONCURRENT_CONNECTIONS
        BY <1>3, <2>1, Slots DEF compare_exchange, Takes, HttpInv
      <3>8. active \in Nat
        BY DEF HttpInv, HttpTypeOK
      <3>7. active' = Cardinality(Holding')
        BY <3>2, <3>3, Zenon
      <3>9. active' <= MAX_CONCURRENT_CONNECTIONS
        BY <3>3, <3>8, HttpConstants
      <3>4. active' = Cardinality(Holding') /\ active' <= MAX_CONCURRENT_CONNECTIONS
        BY <3>7, <3>9
      <3>6. SlotsAreGivenBack'
        BY <3>4 DEF SlotsAreGivenBack, Holding
      <3>5. HttpTypeOK'
        BY <1>3, <2>1 DEF compare_exchange, Takes, Turns, HttpInv, HttpTypeOK
      <3> QED BY <1>3, <2>1, <3>2, <3>5, <3>6 DEF compare_exchange, Takes, HttpInv
    <2>2. CASE active # seen
      <3>1. active' = active /\ Holding' = Holding
        BY <1>3, <2>2 DEF compare_exchange, Holding
      <3> QED BY <1>3, <2>2, <3>1, SameHolding DEF compare_exchange, HttpInv, HttpTypeOK
    <2> QED BY <2>1, <2>2
  <1>4. CASE response_service_unavailable
    <2>1. active' = active /\ Holding' = Holding
      BY <1>4 DEF response_service_unavailable, Turns, HttpInv, HttpTypeOK, Holding
    <2> QED BY <1>4, <2>1, SameHolding DEF response_service_unavailable, Turns, HttpInv, HttpTypeOK
  <1>5. CASE spawn
    <2>1. active' = active /\ Holding' = Holding
      BY <1>5 DEF spawn, Holding
    <2> QED BY <1>5, <2>1, SameHolding DEF spawn, HttpInv, HttpTypeOK
  <1>6. ASSUME NEW c \in Connection, handle_connection(c) PROVE HttpInv'
    <2>1. active' = active /\ Holding' = Holding
      BY <1>6 DEF handle_connection, Turns, HttpInv, HttpTypeOK, Holding
    <2> QED BY <1>6, <2>1, SameHolding DEF handle_connection, Turns, HttpInv, HttpTypeOK
  <1>7. ASSUME NEW c \in Connection, drop(c) PROVE HttpInv'
    <2>1. c \in Holding /\ Holding' = Holding \ {c}
      BY <1>7 DEF drop, Turns, HttpInv, HttpTypeOK, Holding
    <2>2. IsFiniteSet(Holding') /\ Cardinality(Holding') = Cardinality(Holding) - 1
      BY <2>1, FS_RemoveElement DEF HttpInv
    <2>3. Cardinality(Holding') \in Nat
      BY <2>2, FS_CardinalityType
    <2>7. active = Cardinality(Holding) /\ active <= MAX_CONCURRENT_CONNECTIONS /\ active \in Nat
      BY Slots DEF HttpInv, HttpTypeOK
    <2>8. active' = active - 1
      BY <1>7 DEF drop
    <2>9. active' = Cardinality(Holding')
      BY <2>2, <2>7, <2>8, Zenon
    <2>4. active' = Cardinality(Holding') /\ active' <= MAX_CONCURRENT_CONNECTIONS
      BY <2>7, <2>8, <2>9, HttpConstants
    <2>5. SlotsAreGivenBack'
      BY <2>4 DEF SlotsAreGivenBack, Holding
    <2>6. HttpTypeOK'
      BY <1>7, <2>3, <2>4 DEF drop, Turns, HttpInv, HttpTypeOK
    <2> QED BY <1>7, <2>2, <2>5, <2>6 DEF drop, Turns, HttpInv, HttpTypeOK
  <1>8. CASE UNCHANGED httpVars
    <2>1. active' = active /\ Holding' = Holding
      BY <1>8 DEF httpVars, Holding
    <2> QED BY <1>8, <2>1, SameHolding DEF httpVars, HttpInv, HttpTypeOK
  <1> QED BY <1>1, <1>2, <1>3, <1>4, <1>5, <1>6, <1>7, <1>8 DEF HttpNext

\* local_http_api/server.rs: for any number of connections and slots, the
\* counter of the limiter is the number of connections that hold a slot, and
\* these are never more than there are.
THEOREM SlotsReturn == HttpSpec => []SlotsAreGivenBack
  <1>1. HttpInv => SlotsAreGivenBack
    BY DEF HttpInv
  <1> QED BY <1>1, HttpInitInv, HttpStep, PTL DEF HttpSpec

(***************************************************************************)
(* GlobalShortcut                                                          *)
(***************************************************************************)
ShortcutTypeOK ==
  /\ commands \in Seq(Shortcut \cup {NoShortcut})
  /\ runs \in BOOLEAN /\ refused \in BOOLEAN /\ withheld \in BOOLEAN
  /\ ~runs => commands = <<>>

ManagedIsRegistered == ~withheld => registered = {managed} \ {NoShortcut}

LastIsShown == commands # <<>> => globalShortcut = commands[Len(commands)]

ServedIsManaged == runs /\ commands = <<>> /\ ~refused => managed = globalShortcut

ShortcutInv == ShortcutTypeOK /\ ManagedIsRegistered /\ LastIsShown /\ ServedIsManaged

LEMMA ShortcutInitInv == ShortcutInit => ShortcutInv
  <1> SUFFICES ASSUME ShortcutInit PROVE ShortcutInv
      OBVIOUS
  <1>1. commands = <<>> /\ commands \in Seq(Shortcut \cup {NoShortcut})
    BY DEF ShortcutInit
  <1>2. runs = FALSE /\ refused = FALSE /\ withheld = FALSE
    BY DEF ShortcutInit
  <1>3. registered = {managed} \ {NoShortcut}
    BY DEF ShortcutInit
  <1> QED BY <1>1, <1>2, <1>3, Zenon
          DEF ShortcutInv, ShortcutTypeOK, ManagedIsRegistered, LastIsShown, ServedIsManaged

\* The system keeps s alone, or refuses it and keeps none.
LEMMA Registers ==
  ASSUME NEW s, on_shortcut(s, {}, NoShortcut)
  PROVE  /\ registered' = {managed'} \ {NoShortcut}
         /\ refused' \in BOOLEAN /\ (~refused' => managed' = s)
  BY DEF on_shortcut

\* The last command stays the last until it is served.
LEMMA LastOfTail ==
  ASSUME NEW S, NEW q \in Seq(S), q # <<>>
  PROVE  /\ Tail(q) \in Seq(S)
         /\ Tail(q) = <<>> => Head(q) = q[Len(q)]
         /\ Tail(q) # <<>> => Tail(q)[Len(Tail(q))] = q[Len(q)]
  <1>1. /\ Tail(q) \in Seq(S) /\ Len(Tail(q)) = Len(q) - 1 /\ Head(q) = q[1]
        /\ \A i \in 1..Len(Tail(q)) : Tail(q)[i] = q[i + 1]
    BY HeadTailProperties
  <1>2. Len(q) \in Nat /\ Len(Tail(q)) \in Nat
    BY <1>1, LenProperties
  <1>3. ASSUME Tail(q) = <<>> PROVE Head(q) = q[Len(q)]
    <2> DEFINE n == Len(q)
               m == Len(Tail(q))
    <2>1. m = n - 1 /\ n \in Nat
      BY <1>1, <1>2
    <2>2. Len(<<>>) = 0
      OBVIOUS
    <2>3. m = 0
      BY <1>3, <2>2, Zenon
    <2>4. n = 1
      <3> HIDE DEF n, m
      <3> QED BY <2>1, <2>3
    <2> QED BY <1>1, <2>4, Zenon
  <1>4. ASSUME Tail(q) # <<>> PROVE Tail(q)[Len(Tail(q))] = q[Len(q)]
    <2>1. Len(Tail(q)) \in 1..Len(Tail(q))
      BY <1>1, <1>2, <1>4, EmptySeq
    <2>2. Tail(q)[Len(Tail(q))] = q[Len(Tail(q)) + 1]
      BY <1>1, <2>1
    <2>3. Len(Tail(q)) + 1 = Len(q)
      BY <1>1, <1>2
    <2> QED BY <2>2, <2>3
  <1> QED BY <1>1, <1>3, <1>4

\* What a command served leaves, if the shortcut managed after it is its own.
LEMMA Served ==
  ASSUME ShortcutInv, Serve, ~refused' => managed' = Head(commands), refused' \in BOOLEAN
  PROVE  /\ commands' \in Seq(Shortcut \cup {NoShortcut}) /\ runs' \in BOOLEAN
         /\ ~runs' => commands' = <<>>
         /\ LastIsShown' /\ ServedIsManaged'
  <1>1. /\ commands' = Tail(commands) /\ commands # <<>>
        /\ runs' = runs /\ globalShortcut' = globalShortcut
    BY DEF Serve
  <1>2. commands \in Seq(Shortcut \cup {NoShortcut}) /\ runs /\ runs \in BOOLEAN
    BY <1>1 DEF ShortcutInv, ShortcutTypeOK
  <1>3. globalShortcut = commands[Len(commands)]
    BY <1>1 DEF ShortcutInv, LastIsShown
  <1>4. /\ commands' \in Seq(Shortcut \cup {NoShortcut})
        /\ commands' = <<>> => Head(commands) = globalShortcut
        /\ commands' # <<>> => commands'[Len(commands')] = globalShortcut
    BY <1>1, <1>2, <1>3, LastOfTail, Zenon
  <1> QED BY <1>1, <1>2, <1>4, Zenon DEF LastIsShown, ServedIsManaged

LEMMA ShortcutStep == ShortcutInv /\ [ShortcutNext]_shortcutVars => ShortcutInv'
  <1> SUFFICES ASSUME ShortcutInv, [ShortcutNext]_shortcutVars PROVE ShortcutInv'
      OBVIOUS
  <1>1. CASE setup
    <2>1. on_shortcut(storedShortcut, {}, NoShortcut) /\ globalShortcut' = storedShortcut
      BY <1>1 DEF setup
    <2>2. /\ registered' = {managed'} \ {NoShortcut}
          /\ refused' \in BOOLEAN /\ (~refused' => managed' = globalShortcut')
      BY <2>1, Registers, Zenon
    <2>3. commands' = <<>> /\ commands' \in Seq(Shortcut \cup {NoShortcut})
      BY <1>1 DEF setup, ShortcutInv, ShortcutTypeOK
    <2>4. runs' = TRUE /\ withheld' \in BOOLEAN
      BY <1>1 DEF setup, ShortcutInv, ShortcutTypeOK
    <2> QED BY <2>2, <2>3, <2>4, Zenon
            DEF ShortcutInv, ShortcutTypeOK, ManagedIsRegistered, LastIsShown, ServedIsManaged
  <1>2. ASSUME NEW s \in Shortcut \cup {NoShortcut}, handleGlobalShortcutChange(s)
        PROVE  ShortcutInv'
    <2>1. /\ commands' \in Seq(Shortcut \cup {NoShortcut}) /\ commands' # <<>>
          /\ commands'[Len(commands')] = globalShortcut'
      BY <1>2 DEF handleGlobalShortcutChange, ShortcutInv, ShortcutTypeOK
    <2>2. /\ runs /\ runs' = runs /\ refused' = refused /\ withheld' = withheld
          /\ registered' = registered /\ managed' = managed
      BY <1>2 DEF handleGlobalShortcutChange
    <2> QED BY <2>1, <2>2, Zenon
            DEF ShortcutInv, ShortcutTypeOK, ManagedIsRegistered, LastIsShown, ServedIsManaged
  <1>3. CASE Unchanged
    <2>1. /\ Serve /\ refused' = FALSE /\ Head(commands) = managed /\ managed' = managed
          /\ registered' = registered /\ withheld' = withheld
      BY <1>3 DEF Unchanged
    <2>2. refused' \in BOOLEAN /\ managed' = Head(commands)
      BY <2>1
    <2>3. ManagedIsRegistered' /\ withheld' \in BOOLEAN
      BY <2>1, Zenon DEF ShortcutInv, ManagedIsRegistered, ShortcutTypeOK
    <2> QED BY <2>1, <2>2, <2>3, Served, Zenon DEF ShortcutInv, ShortcutTypeOK
  <1>4. CASE Released("forgotten")
    <2>1. /\ Serve /\ withheld' = withheld /\ withheld \in BOOLEAN
          /\ on_shortcut(Head(commands), registered \ {managed}, NoShortcut)
      BY <1>4 DEF Released, ShortcutInv, ShortcutTypeOK
    <2>2. refused' \in BOOLEAN /\ (~refused' => managed' = Head(commands))
      BY <2>1 DEF on_shortcut
    <2>3. ManagedIsRegistered'
      <3>1. CASE withheld
        BY <2>1, <3>1, Zenon DEF ManagedIsRegistered
      <3>2. CASE ~withheld
        <4>1. registered \ {managed} = {}
          BY <3>2 DEF ShortcutInv, ManagedIsRegistered
        <4> QED BY <2>1, <4>1, Registers DEF ManagedIsRegistered
      <3> QED BY <3>1, <3>2
    <2> QED BY <2>1, <2>2, <2>3, Served, Zenon DEF ShortcutInv, ShortcutTypeOK
  <1>5. CASE Withheld
    <2>1. Serve /\ withheld' = TRUE /\ on_shortcut(Head(commands), registered, managed)
      BY <1>5 DEF Withheld
    <2>2. refused' \in BOOLEAN /\ (~refused' => managed' = Head(commands))
      BY <2>1 DEF on_shortcut
    <2>3. ManagedIsRegistered' /\ withheld' \in BOOLEAN
      BY <2>1, Zenon DEF ManagedIsRegistered
    <2> QED BY <2>1, <2>2, <2>3, Served, Zenon DEF ShortcutInv, ShortcutTypeOK
  <1>6. CASE EndShortcut
    <2>1. commands' \in Seq(Shortcut \cup {NoShortcut}) /\ commands' = <<>>
      BY <1>6 DEF EndShortcut
    <2> QED BY <1>6, <2>1 DEF EndShortcut, ShortcutInv, ShortcutTypeOK, ManagedIsRegistered,
               LastIsShown, ServedIsManaged
  <1>7. CASE UNCHANGED shortcutVars
    BY <1>7 DEF shortcutVars, ShortcutInv, ShortcutTypeOK, ManagedIsRegistered, LastIsShown,
                ServedIsManaged
  <1> QED BY <1>1, <1>2, <1>3, <1>4, <1>5, <1>6, <1>7 DEF ShortcutNext, update_global_shortcut

\* use-settings-system-actions.ts, lib.rs: for any shortcuts and any length of
\* the queue of commands, once they are served the shortcut that is shown is
\* the one that is registered, and alone, unless the system refused it or did
\* not release an earlier one.
THEOREM ShownWorks == ShortcutSpec => []ShownIsRegistered
  <1>1. ShortcutInv => ShownIsRegistered
    BY DEF ShortcutInv, ManagedIsRegistered, ServedIsManaged, ShownIsRegistered
  <1> QED BY <1>1, ShortcutInitInv, ShortcutStep, PTL DEF ShortcutSpec

(***************************************************************************)
(* CcusageQuery                                                            *)
(***************************************************************************)
Loading == {"loads", "sends", "clears", "drops"}

Stopped == {"part", "cancelled"}

QueryTypeOK ==
  /\ guard \in BOOLEAN /\ cancel \in BOOLEAN /\ overrun \in BOOLEAN
  /\ caller \in [Query -> {"idle", "begins", "waits", "late", "done"}]
  /\ worker \in [Query -> {"none", "ended", "panicked"} \cup Loading]
  /\ result \in [Query -> {"none", "all", "failed"} \cup Stopped]
  /\ answer \in [Query -> {"none", "all", "failed"} \cup Stopped]

\* A query holds the guard from its beginning to the end of its worker.
HoldsGuard(q) == caller[q] = "begins" \/ worker[q] \in Loading

OneLoads ==
  /\ guard <=> \E q \in Query : HoldsGuard(q)
  /\ \A q, r \in Query : HoldsGuard(q) /\ HoldsGuard(r) => q = r
  /\ \A q \in Query : caller[q] = "begins" => worker[q] \notin Loading

\* A load finds the flag set only once its own query no longer waits.
FlagIsItsOwn ==
  \A q \in Query :
    /\ cancel /\ worker[q] = "loads" => caller[q] = "done"
    /\ caller[q] = "waits" => result[q] \notin Stopped
    /\ answer[q] \notin Stopped

QueryInv == QueryTypeOK /\ OneLoads /\ (~overrun => FlagIsItsOwn)

LEMMA LoadingIsNotOver ==
  ASSUME QueryTypeOK PROVE \A q \in Query : Over(q) <=> worker[q] \notin Loading
  BY DEF QueryTypeOK, Over, Loading

LEMMA QueryInitInv == QueryInit => QueryInv
  <1> SUFFICES ASSUME QueryInit PROVE QueryInv
      OBVIOUS
  <1>1. QueryTypeOK
    BY DEF QueryInit, QueryTypeOK
  <1>2. OneLoads
    BY DEF QueryInit, OneLoads, HoldsGuard, Loading
  <1>3. FlagIsItsOwn
    BY DEF QueryInit, FlagIsItsOwn, Stopped
  <1> QED BY <1>1, <1>2, <1>3 DEF QueryInv

LEMMA QueryTypeStep == QueryTypeOK /\ [QueryNext]_queryVars => QueryTypeOK'
  <1> SUFFICES ASSUME QueryTypeOK, [QueryNext]_queryVars PROVE QueryTypeOK'
      OBVIOUS
  <1> USE DEF QueryTypeOK
  <1>1. ASSUME NEW q \in Query, run_ccusage_query(q) PROVE QueryTypeOK'
    BY <1>1 DEF run_ccusage_query, Answers
  <1>2. ASSUME NEW q \in Query, StartLoad(q) PROVE QueryTypeOK'
    BY <1>2 DEF StartLoad, Spawn, Loading
  <1>3. ASSUME NEW q \in Query, Received(q) PROVE QueryTypeOK'
    BY <1>3 DEF Received, Answers
  <1>4. ASSUME NEW q \in Query, TimedOut(q) PROVE QueryTypeOK'
    BY <1>4 DEF TimedOut
  <1>5. ASSUME NEW q \in Query, set_provider_cancel(q) PROVE QueryTypeOK'
    <2>1. overrun' \in BOOLEAN
      BY <1>5 DEF set_provider_cancel
    <2> QED BY <1>5, <2>1 DEF set_provider_cancel, Answers
  <1>6. ASSUME NEW q \in Query, Loaded(q) PROVE QueryTypeOK'
    <2>1. PICK what \in {"all", "failed"} \cup Stopped : result' = [result EXCEPT ![q] = what]
      BY <1>6 DEF Loaded, Stopped
    <2> QED BY <1>6, <2>1 DEF Loaded, Step, Loading
  <1>7. ASSUME NEW q \in Query, Send(q) PROVE QueryTypeOK'
    BY <1>7 DEF Send, Step, Loading
  <1>8. ASSUME NEW q \in Query, ClearFlag(q) PROVE QueryTypeOK'
    BY <1>8 DEF ClearFlag, Step, Loading
  <1>9. ASSUME NEW q \in Query, DropGuard(q) PROVE QueryTypeOK'
    BY <1>9 DEF DropGuard, Step
  <1>10. ASSUME NEW q \in Query, WorkerPanics(q) PROVE QueryTypeOK'
    BY <1>10 DEF WorkerPanics, Step
  <1>11. CASE UNCHANGED queryVars
    BY <1>11 DEF queryVars
  <1> QED BY <1>1, <1>2, <1>3, <1>4, <1>5, <1>6, <1>7, <1>8, <1>9, <1>10, <1>11 DEF QueryNext

\* A step after which the same queries hold the guard.
LEMMA SameHolders ==
  ASSUME OneLoads, guard' = guard,
         \A q \in Query : HoldsGuard(q)' <=> HoldsGuard(q),
         \A q \in Query : caller'[q] = "begins" => worker'[q] \notin Loading
  PROVE  OneLoads'
  BY Zenon DEF OneLoads

\* A step by which the one that holds the guard gives it back.
LEMMA HolderEnds ==
  ASSUME OneLoads, NEW q \in Query, HoldsGuard(q), ~guard',
         ~HoldsGuard(q)', \A r \in Query \ {q} : HoldsGuard(r)' <=> HoldsGuard(r),
         \A r \in Query : caller'[r] = "begins" => worker'[r] \notin Loading
  PROVE  OneLoads'
  BY DEF OneLoads

LEMMA OneLoadsStep == QueryTypeOK /\ OneLoads /\ [QueryNext]_queryVars => OneLoads'
  <1> SUFFICES ASSUME QueryTypeOK, OneLoads, [QueryNext]_queryVars PROVE OneLoads'
      OBVIOUS
  <1>1. ASSUME NEW q \in Query, run_ccusage_query(q) PROVE OneLoads'
    <2>1. worker' = worker /\ worker[q] \notin Loading
      BY <1>1, LoadingIsNotOver DEF run_ccusage_query
    <2>2. CASE Answers(q, "failed") /\ UNCHANGED guard
      <3>1. guard' = guard /\ \A r \in Query : HoldsGuard(r)' <=> HoldsGuard(r)
        BY <1>1, <2>1, <2>2 DEF run_ccusage_query, Answers, HoldsGuard, QueryTypeOK
      <3>2. \A r \in Query : caller'[r] = "begins" => worker'[r] \notin Loading
        BY <2>1, <2>2 DEF Answers, OneLoads, QueryTypeOK
      <3> QED BY <3>1, <3>2, SameHolders
    <2>3. CASE ~guard /\ guard' = TRUE /\ caller' = [caller EXCEPT ![q] = "begins"]
      <3>1. \A r \in Query : ~HoldsGuard(r)
        BY <2>3 DEF OneLoads
      <3>2. \A r \in Query : HoldsGuard(r)' <=> r = q
        BY <2>1, <2>3, <3>1 DEF HoldsGuard, QueryTypeOK
      <3>3. \A r \in Query : caller'[r] = "begins" => worker'[r] \notin Loading
        BY <2>1, <2>3 DEF OneLoads, QueryTypeOK
      <3>4. guard'
        BY <2>3
      <3> QED BY <3>2, <3>3, <3>4, Zenon DEF OneLoads
    <2> QED BY <1>1, <2>2, <2>3 DEF run_ccusage_query
  <1>2. ASSUME NEW q \in Query, StartLoad(q) PROVE OneLoads'
    <2>1. guard' = guard /\ \A r \in Query : HoldsGuard(r)' <=> HoldsGuard(r)
      BY <1>2 DEF StartLoad, Spawn, HoldsGuard, Loading, QueryTypeOK
    <2>2. \A r \in Query : caller'[r] = "begins" => worker'[r] \notin Loading
      BY <1>2 DEF StartLoad, Spawn, OneLoads, QueryTypeOK
    <2> QED BY <2>1, <2>2, SameHolders
  <1>3. ASSUME NEW q \in Query, Received(q) \/ TimedOut(q) \/ set_provider_cancel(q)
        PROVE  OneLoads'
    <2>1. /\ guard' = guard /\ worker' = worker
          /\ \E to \in {"late", "done"} :
                caller[q] # "begins" /\ caller' = [caller EXCEPT ![q] = to]
      BY <1>3 DEF Received, TimedOut, set_provider_cancel, Answers
    <2>2. \A r \in Query : caller'[r] = "begins" <=> caller[r] = "begins"
      BY <2>1 DEF QueryTypeOK
    <2>3. \A r \in Query : HoldsGuard(r)' <=> HoldsGuard(r)
      BY <2>1, <2>2 DEF HoldsGuard
    <2> QED BY <2>1, <2>2, <2>3, SameHolders DEF OneLoads
  <1>4. ASSUME NEW q \in Query, Loaded(q) \/ Send(q) \/ ClearFlag(q) PROVE OneLoads'
    <2>1. /\ guard' = guard /\ caller' = caller
          /\ \E to \in Loading : worker[q] \in Loading /\ worker' = [worker EXCEPT ![q] = to]
      BY <1>4 DEF Loaded, Send, ClearFlag, Step, Loading
    <2>2. \A r \in Query : worker'[r] \in Loading <=> worker[r] \in Loading
      BY <2>1 DEF QueryTypeOK
    <2>3. \A r \in Query : HoldsGuard(r)' <=> HoldsGuard(r)
      BY <2>1, <2>2 DEF HoldsGuard
    <2> QED BY <2>1, <2>2, <2>3, SameHolders DEF OneLoads
  <1>5. ASSUME NEW q \in Query, DropGuard(q) \/ WorkerPanics(q) PROVE OneLoads'
    <2>1. /\ ~guard' /\ caller' = caller /\ worker[q] \in Loading
          /\ \E to \in {"ended", "panicked"} : worker' = [worker EXCEPT ![q] = to]
      BY <1>5 DEF DropGuard, WorkerPanics, Step, Loading
    <2>2. /\ worker'[q] \notin Loading
          /\ \A r \in Query \ {q} : worker'[r] = worker[r]
      BY <2>1 DEF QueryTypeOK, Loading
    <2>3. /\ HoldsGuard(q) /\ ~HoldsGuard(q)'
          /\ \A r \in Query \ {q} : HoldsGuard(r)' <=> HoldsGuard(r)
      BY <2>1, <2>2 DEF HoldsGuard, OneLoads
    <2>4. \A r \in Query : caller'[r] = "begins" => worker'[r] \notin Loading
      BY <2>1, <2>2 DEF OneLoads
    <2> QED BY <2>1, <2>3, <2>4, HolderEnds
  <1>6. CASE UNCHANGED queryVars
    BY <1>6 DEF queryVars, OneLoads, HoldsGuard
  <1> QED BY <1>1, <1>2, <1>3, <1>4, <1>5, <1>6 DEF QueryNext

LEMMA FlagStep ==
  ASSUME QueryTypeOK, QueryTypeOK', [QueryNext]_queryVars, ~overrun => FlagIsItsOwn, ~overrun'
  PROVE  FlagIsItsOwn'
  <1>0. ~overrun
    <2>1. ASSUME NEW q \in Query, set_provider_cancel(q) PROVE ~overrun
      BY <2>1 DEF set_provider_cancel
    <2>2. ASSUME ~\E q \in Query : set_provider_cancel(q) PROVE overrun' = overrun
      BY <2>2 DEF QueryNext, run_ccusage_query, StartLoad, Spawn, Received, TimedOut,
                  Loaded, Send, ClearFlag, DropGuard, WorkerPanics, queryVars
    <2> QED BY <2>1, <2>2, Zenon
  <1> FlagIsItsOwn
    BY <1>0
  <1> USE DEF FlagIsItsOwn, QueryTypeOK
  <1>1. ASSUME NEW q \in Query, run_ccusage_query(q) PROVE FlagIsItsOwn'
    <2>1. worker[q] # "loads" /\ worker' = worker /\ result' = result /\ cancel' = cancel
      BY <1>1 DEF run_ccusage_query, Over
    <2>2. /\ \E to \in {"begins", "done"} : caller' = [caller EXCEPT ![q] = to]
          /\ \E what \in {"none", "failed"} : answer' = [answer EXCEPT ![q] = what]
      BY <1>1 DEF run_ccusage_query, Answers
    <2> QED BY <2>1, <2>2 DEF Stopped
  <1>2. ASSUME NEW q \in Query, StartLoad(q) PROVE FlagIsItsOwn'
    BY <1>2 DEF StartLoad, Spawn, Stopped
  <1>3. ASSUME NEW q \in Query, Received(q) PROVE FlagIsItsOwn'
    <2>1. \E what \in {"none", "all", "failed"} :
             caller' = [caller EXCEPT ![q] = "done"] /\ answer' = [answer EXCEPT ![q] = what]
      BY <1>3 DEF Received, Answers
    <2> QED BY <1>3, <2>1 DEF Received, Stopped
  <1>4. ASSUME NEW q \in Query, TimedOut(q) PROVE FlagIsItsOwn'
    BY <1>4 DEF TimedOut
  <1>5. ASSUME NEW q \in Query, set_provider_cancel(q) PROVE FlagIsItsOwn'
    <2>1. \A r \in Query \ {q} : Over(r)
      BY <1>5 DEF set_provider_cancel
    <2>2. /\ worker' = worker /\ result' = result
          /\ caller' = [caller EXCEPT ![q] = "done"] /\ answer' = [answer EXCEPT ![q] = "failed"]
      BY <1>5 DEF set_provider_cancel, Answers
    <2> QED BY <2>1, <2>2 DEF Over, Stopped
  <1>6. ASSUME NEW q \in Query, Loaded(q) PROVE FlagIsItsOwn'
    <2>1. /\ worker[q] = "loads" /\ worker' = [worker EXCEPT ![q] = "sends"]
          /\ cancel' = cancel /\ caller' = caller /\ answer' = answer
      BY <1>6 DEF Loaded, Step
    <2>2. PICK what : /\ result' = [result EXCEPT ![q] = what]
                      /\ ~cancel => what \notin Stopped
      BY <1>6 DEF Loaded, Stopped
    <2>3. caller[q] = "waits" => what \notin Stopped
      BY <2>1, <2>2
    <2> QED BY <2>1, <2>2, <2>3
  <1>7. ASSUME NEW q \in Query, Send(q) \/ ClearFlag(q) \/ DropGuard(q) \/ WorkerPanics(q)
        PROVE  FlagIsItsOwn'
    <2>1. /\ caller' = caller /\ answer' = answer /\ result' = result
          /\ cancel' => cancel
          /\ \E to \in {"clears", "drops", "ended", "panicked"} :
                worker' = [worker EXCEPT ![q] = to]
      BY <1>7 DEF Send, ClearFlag, DropGuard, WorkerPanics, Step
    <2> QED BY <2>1
  <1>8. CASE UNCHANGED queryVars
    BY <1>8 DEF queryVars
  <1> QED BY <1>1, <1>2, <1>3, <1>4, <1>5, <1>6, <1>7, <1>8 DEF QueryNext

LEMMA QueryStep == QueryInv /\ [QueryNext]_queryVars => QueryInv'
  BY QueryTypeStep, OneLoadsStep, FlagStep, Zenon DEF QueryInv

LEMMA AtMostOne ==
  ASSUME NEW S, \A x, y \in S : x = y
  PROVE  Cardinality(S) <= 1
  <1>1. CASE S = {}
    BY <1>1, FS_EmptySet
  <1>2. CASE S # {}
    <2>1. PICK x \in S : TRUE
      BY <1>2
    <2>2. S = {x}
      BY <2>1
    <2> QED BY <2>2, FS_Singleton
  <1> QED BY <1>1, <1>2

\* host_api.rs, run_ccusage_query: for any number of queries of a provider at
\* most one load is under way, and unless a query timed out under the load of
\* another no script gets what a load that was stopped had read or its failure.
THEOREM LoadsOfTheirOwn == QuerySpec => []LoadsAreTheirOwn
  <1>1. QueryInv => LoadsAreTheirOwn
    <2> SUFFICES ASSUME QueryInv PROVE LoadsAreTheirOwn
        OBVIOUS
    <2> DEFINE S == {q \in Query : ~Over(q)}
    <2>1. \A q, r \in S : q = r
      BY LoadingIsNotOver DEF QueryInv, OneLoads, HoldsGuard
    <2>2. Cardinality(S) <= 1
      <3> HIDE DEF S
      <3> QED BY <2>1, AtMostOne
    <2>3. ~overrun => \A q \in Query : answer[q] \notin {"part", "cancelled"}
      BY DEF QueryInv, FlagIsItsOwn, Stopped
    <2> QED BY <2>2, <2>3 DEF LoadsAreTheirOwn
  <1> QED BY <1>1, QueryInitInv, QueryStep, PTL DEF QuerySpec

(***************************************************************************)
(* PricingCache                                                            *)
(***************************************************************************)
PriceTypeOK ==
  /\ time \in Int /\ next_attempt \in Int /\ nap \in Int /\ quiet \in Nat
  /\ priceFile \in [holds : {"nothing", "garbage", "prices"}, mtime : Int]
  /\ ticker \in {"off", "look", "fetch", "write", "install", "asleep"}

\* The longest that a fetch may be due after the last one.
Term == IF overlay = "none" THEN RETRY_AFTER_FAILURE ELSE CACHE_TTL

AwakeIsCounted == ticker \in {"off", "fetch", "write", "install"} => quiet = 0

NapEnds == ticker = "asleep" => nap \in 1..REFRESH_TICK

DueInTerm == ticker \in {"look", "asleep"} => quiet + (next_attempt - time) <= Term

LooksInTerm ==
  /\ ticker = "look" => quiet <= Term + REFRESH_TICK
  /\ ticker = "asleep" => quiet + nap <= Term + REFRESH_TICK

PriceInv ==
  /\ PriceTypeOK /\ AwakeIsCounted /\ NapEnds
  /\ corrected \/ (DueInTerm /\ LooksInTerm)

LEMMA PriceConstants ==
  /\ CACHE_TTL \in Nat /\ RETRY_AFTER_FAILURE \in Nat /\ REFRESH_TICK \in Nat \ {0}
  /\ RETRY_AFTER_FAILURE <= CACHE_TTL
  /\ FileDate \subseteq Int /\ Gaps \subseteq Int /\ LastTime \in Nat
  BY PriceAssumption DEF PriceAssumption

LEMMA PriceInitInv == PriceInit => PriceInv
  <1> SUFFICES ASSUME PriceInit PROVE PriceInv
      OBVIOUS
  <1>1. priceFile \in [holds : {"nothing", "garbage", "prices"}, mtime : Int]
    BY PriceConstants DEF PriceInit, PriceFile
  <1> QED BY <1>1 DEF PriceInit, PriceInv, PriceTypeOK, AwakeIsCounted, NapEnds, DueInTerm,
                      LooksInTerm

LEMMA TermType == Term \in Nat /\ RETRY_AFTER_FAILURE <= Term
  BY PriceConstants DEF Term

LEMMA PriceStep == PriceInv /\ [PriceNext]_priceVars => PriceInv'
  <1> SUFFICES ASSUME PriceInv, [PriceNext]_priceVars PROVE PriceInv'
      OBVIOUS
  <1> USE PriceConstants
  <1> USE DEF PriceInv, PriceTypeOK, AwakeIsCounted, NapEnds, DueInTerm, LooksInTerm
  <1>1. CASE with_endpoint
    <2>1. /\ ticker' = "look" /\ quiet' = 0 /\ time' = time /\ priceFile' = priceFile /\ nap' = nap
          /\ overlay' = IF read_cache THEN "prices" ELSE "none"
          /\ next_attempt' = IF read_cache
                             THEN Earlier(priceFile.mtime + CACHE_TTL, time + CACHE_TTL)
                             ELSE time
      BY <1>1 DEF with_endpoint, StartsDue
    <2>2. next_attempt' \in Int /\ next_attempt' - time <= Term'
      BY <2>1 DEF Earlier, Term
    <2> QED BY <2>1, <2>2, TermType DEF Term
  <1>2. CASE spawn_refresh_ticker
    BY <1>2, TermType DEF spawn_refresh_ticker, Sleeps, Term
  <1>3. CASE ListFetched
    BY <1>3 DEF ListFetched
  <1>4. CASE ListMissed
    BY <1>4, TermType DEF ListMissed, Sleeps, Term
  <1>5. CASE write_cache
    <2>1. priceFile' \in [holds : {"nothing", "garbage", "prices"}, mtime : Int]
      BY <1>5 DEF write_cache
    <2> QED BY <1>5, <2>1 DEF write_cache
  <1>6. CASE install
    BY <1>6 DEF install, Sleeps, Term
  <1>7. CASE Awake
    BY <1>7, TermType DEF Awake, Term
  <1>8. ASSUME NEW n \in Gaps, Gap(n) PROVE PriceInv'
    <2>1. /\ n \in Int /\ time' = time + n
          /\ UNCHANGED <<priceFile, overlay, next_attempt, ticker, nap, quiet>>
      BY <1>8 DEF Gap
    <2>2. PriceTypeOK' /\ AwakeIsCounted' /\ NapEnds' /\ Term' = Term
      BY <2>1 DEF Term
    <2>3. ASSUME ~corrected' PROVE DueInTerm' /\ LooksInTerm'
      <3>1. ~corrected /\ ~(n < 0)
        BY <1>8, <2>3, Zenon DEF Gap
      <3>2. DueInTerm /\ LooksInTerm
        BY <3>1
      <3> QED BY <2>1, <2>2, <3>1, <3>2, TermType
    <2> QED BY <2>2, <2>3, Zenon
  <1>9. CASE EndPrices
    <2>1. priceFile' \in [holds : {"nothing", "garbage", "prices"}, mtime : Int]
      BY <1>9 DEF EndPrices, PriceFile
    <2> QED BY <1>9, <2>1 DEF EndPrices
  <1>10. CASE UNCHANGED priceVars
    BY <1>10 DEF priceVars, Term
  <1> QED BY <1>1, <1>2, <1>3, <1>4, <1>5, <1>6, <1>7, <1>8, <1>9, <1>10 DEF PriceNext

\* pricing_cache.rs: for any terms of which a retry is no longer than a
\* renewal, any dates of the file and any suspensions, a fetch is tried again
\* within a tick of the term.
THEOREM PricesRenewed == PriceSpec => []PricesAreRenewed
  <1>1. PriceInv => PricesAreRenewed
    BY PriceConstants, TermType
       DEF PriceInv, PriceTypeOK, AwakeIsCounted, NapEnds, LooksInTerm, PricesAreRenewed, Term
  <1> QED BY <1>1, PriceInitInv, PriceStep, PTL DEF PriceSpec
=============================================================================
