----------------------------- MODULE ProbeBatch -----------------------------
(***************************************************************************)
(* One run of run_probe_batch (src-tauri/src/lib.rs): a bounded pool of    *)
(* blocking threads takes probe units from one queue, runs each probe      *)
(* under catch_unwind, caches a successful output, emits its probe:result, *)
(* and counts it; the thread that counts the last unit emits               *)
(* probe:batch-complete and, for a scheduled batch, usage:updated.         *)
(*                                                                         *)
(* The units are numbered in queue order: the queue is next .. N.          *)
(***************************************************************************)
EXTENDS Naturals, FiniteSets

CONSTANTS
  N,                    \* the number of probe units of the batch
  MaxConcurrentProbes   \* MAX_CONCURRENT_PROBES

ASSUME BatchAssumption ==
  /\ N \in Nat \ {0}
  /\ MaxConcurrentProbes \in Nat \ {0}

VARIABLES
  scheduled,  \* the argument emit_usage_updated
  next,       \* the unit at the front of probe_queue, N + 1 when it is empty
  remaining,  \* the shared counter of units not yet counted
  pc,         \* the control state of each pool thread
  unit,       \* the unit each pool thread last took
  outcome,    \* history: how the probe of each unit ended
  runs,       \* history: the number of times each unit was probed
  cached,     \* the units handed to cache_successful_output
  results,    \* the number of probe:result events of each unit
  completes,  \* the number of probe:batch-complete events
  updates,    \* the number of usage:updated events
  counted     \* history: the units counted down

vars == <<scheduled, next, remaining, pc, unit, outcome, runs, cached, results,
          completes, updates, counted>>

Unit == 1 .. N

probe_worker_count(n) == IF n <= MaxConcurrentProbes THEN n ELSE MaxConcurrentProbes

Worker == 1 .. probe_worker_count(N)

\* A probe ends with usable lines, an Error badge, a rate-limit badge or a
\* panic.  A probe that runs too long is one of the error outcomes.
Outcome == {"ok", "error", "limited", "panic"}

Control == {"idle", "probe", "cache", "emit", "count", "complete", "updated",
            "exit"}

Init ==
  /\ scheduled \in BOOLEAN
  /\ next = 1
  /\ remaining = N
  /\ pc = [w \in Worker |-> "idle"]
  /\ unit = [w \in Worker |-> 0]
  /\ outcome = [u \in Unit |-> "none"]
  /\ runs = [u \in Unit |-> 0]
  /\ cached = {}
  /\ results = [u \in Unit |-> 0]
  /\ completes = 0
  /\ updates = 0
  /\ counted = {}
-----------------------------------------------------------------------------
Goto(w, c) == pc' = [pc EXCEPT ![w] = c]

\* Mutant: the front is read under the lock and removed under another.
Take_Peeks(w) ==
  /\ pc[w] = "idle"
  /\ IF next > N
     THEN Goto(w, "exit") /\ UNCHANGED <<next, unit>>
     ELSE /\ unit' = [unit EXCEPT ![w] = next]
          /\ next' \in {next, next + 1}
          /\ Goto(w, "probe")
  /\ UNCHANGED <<scheduled, remaining, outcome, runs, cached, results,
                 completes, updates, counted>>

\* Mutant: the thread that finds the queue empty declares the batch complete.
Take_EmptyCompletes(w) ==
  /\ pc[w] = "idle"
  /\ IF next > N
     THEN Goto(w, IF completes = 0 THEN "complete" ELSE "exit")
          /\ UNCHANGED <<next, unit>>
     ELSE /\ unit' = [unit EXCEPT ![w] = next]
          /\ next' = next + 1
          /\ Goto(w, "probe")
  /\ UNCHANGED <<scheduled, remaining, outcome, runs, cached, results,
                 completes, updates, counted>>

\* pop_front under the queue lock; an empty queue ends the thread.
Take(w) ==
  /\ pc[w] = "idle"
  /\ IF next > N
     THEN Goto(w, "exit") /\ UNCHANGED <<next, unit>>
     ELSE /\ unit' = [unit EXCEPT ![w] = next]
          /\ next' = next + 1
          /\ Goto(w, "probe")
  /\ UNCHANGED <<scheduled, remaining, outcome, runs, cached, results,
                 completes, updates, counted>>

AfterProbe(o) ==
  CASE o = "ok"    -> "cache"
    [] o = "panic" -> "count"
    [] OTHER       -> "emit"

\* Mutant: without catch_unwind a panic ends the thread.
Probe_Unwinds(w) ==
  /\ pc[w] = "probe"
  /\ \E o \in Outcome :
       /\ outcome' = [outcome EXCEPT ![unit[w]] = o]
       /\ Goto(w, IF o = "panic" THEN "exit" ELSE AfterProbe(o))
  /\ runs' = [runs EXCEPT ![unit[w]] = @ + 1]
  /\ UNCHANGED <<scheduled, next, remaining, unit, cached, results, completes,
                 updates, counted>>

\* Mutant: an output that is rate limited is cached like a successful one.
Probe_CachesLimited(w) ==
  /\ pc[w] = "probe"
  /\ \E o \in Outcome :
       /\ outcome' = [outcome EXCEPT ![unit[w]] = o]
       /\ Goto(w, IF o = "limited" THEN "cache" ELSE AfterProbe(o))
  /\ runs' = [runs EXCEPT ![unit[w]] = @ + 1]
  /\ UNCHANGED <<scheduled, next, remaining, unit, cached, results, completes,
                 updates, counted>>

\* run_probe_for_account under catch_unwind.
Probe(w) ==
  /\ pc[w] = "probe"
  /\ \E o \in Outcome :
       /\ outcome' = [outcome EXCEPT ![unit[w]] = o]
       /\ Goto(w, AfterProbe(o))
  /\ runs' = [runs EXCEPT ![unit[w]] = @ + 1]
  /\ UNCHANGED <<scheduled, next, remaining, unit, cached, results, completes,
                 updates, counted>>

CacheOutput(w) ==
  /\ pc[w] = "cache"
  /\ cached' = cached \cup {unit[w]}
  /\ Goto(w, "emit")
  /\ UNCHANGED <<scheduled, next, remaining, unit, outcome, runs, results,
                 completes, updates, counted>>

EmitResult(w) ==
  /\ pc[w] = "emit"
  /\ results' = [results EXCEPT ![unit[w]] = @ + 1]
  /\ Goto(w, "count")
  /\ UNCHANGED <<scheduled, next, remaining, unit, outcome, runs, cached,
                 completes, updates, counted>>

\* Mutant: the counter is tested before it is decremented.
Count_TestsNewValue(w) ==
  /\ pc[w] = "count"
  /\ remaining' = remaining - 1
  /\ counted' = counted \cup {unit[w]}
  /\ Goto(w, IF remaining' = 1 THEN "complete" ELSE "idle")
  /\ UNCHANGED <<scheduled, next, unit, outcome, runs, cached, results,
                 completes, updates>>

\* fetch_sub returns the value before the subtraction.
Count(w) ==
  /\ pc[w] = "count"
  /\ remaining' = remaining - 1
  /\ counted' = counted \cup {unit[w]}
  /\ Goto(w, IF remaining = 1 THEN "complete" ELSE "idle")
  /\ UNCHANGED <<scheduled, next, unit, outcome, runs, cached, results,
                 completes, updates>>

EmitComplete(w) ==
  /\ pc[w] = "complete"
  /\ completes' = completes + 1
  /\ Goto(w, IF scheduled THEN "updated" ELSE "idle")
  /\ UNCHANGED <<scheduled, next, remaining, unit, outcome, runs, cached,
                 results, updates, counted>>

EmitUpdated(w) ==
  /\ pc[w] = "updated"
  /\ updates' = updates + 1
  /\ Goto(w, "idle")
  /\ UNCHANGED <<scheduled, next, remaining, unit, outcome, runs, cached,
                 results, completes, counted>>

Step(w) ==
  \/ Take(w)
  \/ Probe(w)
  \/ CacheOutput(w)
  \/ EmitResult(w)
  \/ Count(w)
  \/ EmitComplete(w)
  \/ EmitUpdated(w)

\* Every pool thread has left its loop.
Done == \A w \in Worker : pc[w] = "exit"

Next == \E w \in Worker : Step(w)

Spec == Init /\ [][Next]_vars

\* A blocking thread runs; a probe ends because its own deadline bounds it.
FairSpec == Spec /\ \A w \in Worker : WF_vars(Step(w))
-----------------------------------------------------------------------------
TypeOK ==
  /\ scheduled \in BOOLEAN
  /\ next \in 1 .. N + 1
  /\ remaining \in 0 .. N
  /\ pc \in [Worker -> Control]
  /\ unit \in [Worker -> 0 .. N]
  /\ outcome \in [Unit -> Outcome \cup {"none"}]
  /\ runs \in [Unit -> Nat]
  /\ cached \subseteq Unit
  /\ results \in [Unit -> Nat]
  /\ completes \in Nat
  /\ updates \in Nat
  /\ counted \subseteq Unit

\* However the threads interleave on the queue, a unit is probed and reported
\* at most once: two threads never work for the same account in one batch.
ProbedOnce == \A u \in Unit : runs[u] <= 1 /\ results[u] <= 1

Settled(u) == outcome[u] = "panic" \/ results[u] = 1

\* probe:batch-complete is emitted once, and only after the result of every
\* unit: a webview that stops listening to the batch on that event misses
\* none.  usage:updated comes after it, once, in scheduled batches only.
CompleteIsLast ==
  /\ completes <= 1
  /\ completes = 1 => \A u \in Unit : Settled(u)
  /\ updates <= completes
  /\ updates = 1 => scheduled

\* The cache has an output before the webview hears of it, has all of the
\* batch before usage:updated makes the webview read it, and has no output
\* that failed or was rate limited.
CacheAgreesWithEvents ==
  \A u \in Unit :
    /\ u \in cached => outcome[u] = "ok"
    /\ outcome[u] = "ok" /\ (results[u] = 1 \/ updates = 1) => u \in cached

\* The batch completes and its threads end, whatever the outcomes and panics.
BatchCompletes == <>(completes = 1 /\ (updates = 1 <=> scheduled) /\ Done)
-----------------------------------------------------------------------------
Contract == INSTANCE BatchContract WITH
  awaited  <- {u \in Unit : results[u] = 0 /\ outcome[u] # "panic"},
  reported <- {u \in Unit : results[u] = 1},
  complete <- completes = 1

\* The pool implements the contract its listeners rely on, and fulfils it.
ImplementsContract == Contract!FairSpec
=============================================================================
