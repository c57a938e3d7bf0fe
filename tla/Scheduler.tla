------------------------------ MODULE Scheduler ------------------------------
(***************************************************************************)
(* The timing of the native auto-update scheduler                          *)
(* (start_auto_update_scheduler in src-tauri/src/lib.rs): a thread that    *)
(* measures its deadline on the wall clock but waits for it in sleeps of   *)
(* at most one slice, so that it notices a suspension of the machine.      *)
(*                                                                         *)
(* A sleep only advances while the machine is awake; the wall clock also   *)
(* advances while it is suspended, and may be set.  What a refresh probes  *)
(* is the action ScheduledBatch of UsagePipeline.                          *)
(***************************************************************************)
EXTENDS Integers

CONSTANTS
  Interval,  \* the intervals the settings allow
  MaxSlice,  \* SCHEDULER_MAX_SLICE_MS
  Slack,     \* SUSPEND_DETECT_SLACK_MS
  Jitter,    \* the longest a thread that can run waits for the processor
  Nap,       \* lengths of suspensions and of corrections of the clock
  Start,     \* times of the launch
  MaxClock,  \* bound: the last time on the wall clock
  MaxBack    \* bound: how far the clock is set back in one cycle

ASSUME SchedulerAssumption ==
  /\ Interval # {} /\ Interval \subseteq Nat \ {0}
  /\ MaxSlice \in Nat \ {0}
  /\ Slack \in Nat
  /\ Jitter \in Nat
  /\ Jitter <= Slack          \* "normal scheduler jitter stays far below this"
  /\ Nap \subseteq Nat
  /\ Start \subseteq Nat
  /\ MaxClock \in Nat
  /\ MaxBack \in Nat

VARIABLES
  now,          \* the wall clock, unix_now_ms()
  interval,     \* the interval in settings.json
  pc,           \* what the thread does next
  cycle_start,  \* cycle_start_ms
  deadline,     \* deadline_ms
  published,    \* NEXT_UPDATE_AT_MS, 0 before it is set
  before,       \* before_ms
  asked,        \* the length of the current sleep
  left,         \* what is left of it
  late,         \* how long the thread has been able to run without running
  jumped,       \* history: what the clock gained over the time awake in this sleep
  napped,       \* history: that was more than Slack, and no refresh came yet
  back,         \* history: how far the clock was set back since cycle_start
  waited,       \* history: the time awake since cycle_start
  overdue       \* history: the time awake since the refresh is due

threadVars == <<pc, cycle_start, deadline, published, before, asked, left>>
vars == <<now, interval, threadVars, late, jumped, napped, back, waited,
          overdue>>

Init ==
  /\ now \in Start
  /\ interval \in Interval
  /\ pc = "cycle"
  /\ cycle_start = now
  /\ deadline = 0
  /\ published = 0
  /\ before = 0
  /\ asked = 0
  /\ left = 0
  /\ late = 0
  /\ jumped = 0
  /\ napped = FALSE
  /\ back = 0
  /\ waited = 0
  /\ overdue = 0

\* The refresh is due: the deadline has passed, or the machine was suspended
\* during the current sleep.
Due ==
  \/ pc \in {"look", "sleep"} /\ now >= deadline
  \/ napped
  \/ pc = "fire"

Overdue(time) == overdue' = IF Due /\ Due' THEN overdue + time ELSE 0
-----------------------------------------------------------------------------
(* The scheduler thread.                                                   *)

\* The interval is read once per cycle.
BeginCycle ==
  /\ pc = "cycle"
  /\ deadline' = cycle_start + interval
  /\ published' = deadline'
  /\ pc' = "look"
  /\ late' = 0
  /\ UNCHANGED <<now, interval, cycle_start, before, asked, left, jumped,
                 napped, back, waited>>
  /\ Overdue(0)

Sleep(time) ==
  /\ pc' = "sleep"
  /\ asked' = time
  /\ left' = time
  /\ jumped' = 0

Shorter(m, n) == IF m <= n THEN m ELSE n

\* Fire at the deadline, else sleep towards it.  A delay between reading the
\* clock and falling asleep counts as a longer sleep.
scheduler_step ==
  /\ pc = "look"
  /\ before' = now
  /\ late' = 0
  /\ IF now >= deadline
     THEN pc' = "fire" /\ UNCHANGED <<asked, left, jumped>>
     ELSE Sleep(Shorter(deadline - now, MaxSlice))
  /\ UNCHANGED <<now, interval, cycle_start, deadline, published, napped,
                 back, waited>>
  /\ Overdue(0)

\* Mutant: only the deadline wakes the scheduler for good.
woke_from_suspend_Never(slept, elapsed) == FALSE

\* Mutant: the time that was asked for is not deducted.
woke_from_suspend_IgnoresSleep(slept, elapsed) == elapsed > Slack

woke_from_suspend(slept, elapsed) == elapsed > slept + Slack

\* saturating_sub
Since(m, n) == IF m >= n THEN m - n ELSE 0

\* The sleep returns, and the wall clock tells whether the machine was
\* suspended meanwhile.
Wake ==
  /\ pc = "sleep"
  /\ left = 0
  /\ pc' = IF woke_from_suspend(asked, Since(now, before)) THEN "fire" ELSE "look"
  /\ late' = 0
  /\ jumped' = 0
  /\ UNCHANGED <<now, interval, cycle_start, deadline, published, before, asked,
                 left, napped, back, waited>>
  /\ Overdue(0)

\* Mutant: the next cycle starts at the deadline that was missed.
Fire_FromDeadline ==
  /\ pc = "fire"
  /\ cycle_start' = deadline
  /\ pc' = "cycle"
  /\ late' = 0
  /\ napped' = FALSE
  /\ back' = 0
  /\ waited' = 0
  /\ UNCHANGED <<now, interval, deadline, published, before, asked, left, jumped>>
  /\ Overdue(0)

\* A batch is started, if a provider is enabled, and a new cycle begins.
Fire ==
  /\ pc = "fire"
  /\ cycle_start' = now
  /\ pc' = "cycle"
  /\ late' = 0
  /\ napped' = FALSE
  /\ back' = 0
  /\ waited' = 0
  /\ UNCHANGED <<now, interval, deadline, published, before, asked, left, jumped>>
  /\ Overdue(0)
-----------------------------------------------------------------------------
(* Its surroundings.                                                       *)

Asleep == pc = "sleep" /\ left > 0

\* A moment passes and the machine is awake.
Tick ==
  /\ now < MaxClock
  /\ now' = now + 1
  /\ IF Asleep
     THEN left' = left - 1 /\ UNCHANGED late
     ELSE late < Jitter /\ late' = late + 1 /\ UNCHANGED left
  /\ waited' = waited + 1
  /\ UNCHANGED <<interval, pc, cycle_start, deadline, published, before, asked,
                 jumped, napped, back>>
  /\ Overdue(1)

\* The wall clock gains d over the time awake.
Gain(d) ==
  IF pc = "sleep"
  THEN jumped' = jumped + d /\ napped' = ~(jumped' <= Slack)
  ELSE jumped' = 0 /\ UNCHANGED napped

\* The machine is suspended for d, or the clock is set forward by d.
Suspend(d) ==
  /\ now + d <= MaxClock
  /\ now' = now + d
  /\ Gain(d)
  /\ UNCHANGED <<interval, threadVars, late, back, waited>>
  /\ Overdue(0)

\* The clock is set back by d.
SetBack(d) ==
  /\ d <= now
  /\ back + d <= MaxBack
  /\ now' = now - d
  /\ Gain(-d)
  /\ back' = back + d
  /\ UNCHANGED <<interval, threadVars, late, waited>>
  /\ Overdue(0)

ChangeInterval ==
  /\ interval' \in Interval
  /\ UNCHANGED <<now, threadVars, late, jumped, napped, back, waited, overdue>>

Next ==
  \/ BeginCycle
  \/ scheduler_step
  \/ Wake
  \/ Fire
  \/ Tick
  \/ \E d \in Nap : Suspend(d) \/ SetBack(d)
  \/ ChangeInterval

Spec == Init /\ [][Next]_vars
-----------------------------------------------------------------------------
TypeOK ==
  /\ now \in Nat
  /\ interval \in Interval
  /\ pc \in {"cycle", "look", "sleep", "fire"}
  /\ cycle_start \in Nat
  /\ deadline \in Nat
  /\ published \in Nat
  /\ before \in Nat
  /\ asked \in 0 .. MaxSlice
  /\ left \in 0 .. MaxSlice
  /\ late \in 0 .. Jitter
  /\ jumped \in Int
  /\ napped \in BOOLEAN
  /\ back \in Nat
  /\ waited \in Nat
  /\ overdue \in Nat

\* A refresh that is due, because the announced time has passed or because
\* the machine was suspended during a sleep, starts within one slice of time
\* awake, whatever the length of the suspension and of the interval.
DueSoon == overdue <= MaxSlice + 3 * Jitter

\* A refresh starts before the announced time only if the wall clock ran ahead
\* of the time awake: a busy machine alone never causes one.
NoEarlyRefresh ==
  [][pc # "fire" /\ pc' = "fire" => now >= published \/ jumped > 0]_vars

\* Awake, the time between refreshes is at most the interval read at its
\* start, delays apart; setting the clock back adds just that much.
RefreshesKeepComing ==
  pc # "cycle" => waited <= (deadline - cycle_start) + back + 3 * Jitter
=============================================================================
