-------------------------- MODULE ProbeBatchProofs --------------------------
(***************************************************************************)
(* Proofs about one probe batch, for every number of units and every bound *)
(* on concurrent probes.                                                   *)
(***************************************************************************)
EXTENDS ProbeBatch, FiniteSetTheorems, TLAPS

\* The thread has a unit in hand that it has not counted.
Busy(w) == pc[w] \in {"probe", "cache", "emit", "count"}

\* A unit in hand was taken from the queue and belongs to one thread.
OwnerInv ==
  /\ \A w \in Worker : Busy(w) => unit[w] \in Unit \ counted /\ unit[w] < next
  /\ \A v, w \in Worker : Busy(v) /\ Busy(w) /\ v # w => unit[v] # unit[w]

\* A unit still in the queue is untouched.
Untouched(u) ==
  runs[u] = 0 /\ results[u] = 0 /\ outcome[u] = "none" /\ u \notin cached

QueueInv == \A u \in Unit : u >= next => Untouched(u) /\ u \notin counted

\* What has happened to the unit in hand, by control state.
HandInv ==
  \A w \in Worker :
    /\ pc[w] = "probe" => Untouched(unit[w])
    /\ pc[w] = "cache" => outcome[unit[w]] = "ok" /\ results[unit[w]] = 0
    /\ pc[w] = "emit"  => /\ outcome[unit[w]] \in {"ok", "error", "limited"}
                          /\ outcome[unit[w]] = "ok" => unit[w] \in cached
                          /\ results[unit[w]] = 0
    /\ pc[w] = "count" => Settled(unit[w])

\* What has happened to any unit.
HistoryInv ==
  \A u \in Unit :
    /\ runs[u] \in {0, 1}
    /\ results[u] \in {0, 1}
    /\ outcome[u] = "none" => runs[u] = 0
    /\ u \in cached => outcome[u] = "ok"
    /\ results[u] = 1 => /\ outcome[u] \in {"ok", "error", "limited"}
                         /\ outcome[u] = "ok" => u \in cached
    /\ u \in counted => Settled(u)

CountInv == remaining = N - Cardinality(counted)

\* The thread is announcing the end of the batch.
Announces(w) == pc[w] \in {"complete", "updated"}

\* The batch is announced by one thread, after the last unit is counted.
EndInv ==
  /\ \A w \in Worker :
       /\ Announces(w) => remaining = 0
       /\ pc[w] = "complete" => completes = 0 /\ updates = 0
       /\ pc[w] = "updated" => completes = 1 /\ updates = 0 /\ scheduled
  /\ \A v, w \in Worker : Announces(v) /\ Announces(w) => v = w
  /\ completes \in {0, 1}
  /\ updates \in {0, 1}
  /\ completes = 1 => remaining = 0
  /\ updates = 1 => completes = 1 /\ scheduled

IInv == TypeOK /\ OwnerInv /\ QueueInv /\ HandInv /\ HistoryInv /\ CountInv /\ EndInv
-----------------------------------------------------------------------------
LEMMA WorkerNat == Worker \subseteq Nat
  BY BatchAssumption DEF Worker, probe_worker_count

LEMMA UnitFinite == IsFiniteSet(Unit) /\ Cardinality(Unit) = N
  <1>1. 1 \in Int /\ N \in Int
    BY BatchAssumption
  <1>2. IsFiniteSet(1 .. N) /\ Cardinality(1 .. N) = IF 1 > N THEN 0 ELSE N - 1 + 1
    BY <1>1, FS_Interval
  <1> QED BY <1>2, BatchAssumption DEF Unit

\* Counting one more unit leaves as many fewer, and none is left only when
\* all are counted.
LEMMA CountOne ==
  ASSUME NEW C \in SUBSET Unit, NEW u \in Unit \ C
  PROVE  /\ Cardinality(C) \in 0 .. N - 1
         /\ Cardinality(C \cup {u}) = Cardinality(C) + 1
  <1>1. IsFiniteSet(C) /\ Cardinality(C) \in Nat
    BY UnitFinite, FS_Subset, FS_CardinalityType
  <1>2. Cardinality(C \cup {u}) = Cardinality(C) + 1
    BY <1>1, FS_AddElement
  <1>3. Cardinality(C \cup {u}) <= Cardinality(Unit)
    BY UnitFinite, FS_Subset
  <1> QED BY <1>1, <1>2, <1>3, UnitFinite, BatchAssumption

LEMMA AllCounted ==
  ASSUME NEW C \in SUBSET Unit, N - Cardinality(C) = 0
  PROVE  C = Unit
  <1>1. Cardinality(C) = Cardinality(Unit)
    BY UnitFinite, FS_Subset, FS_CardinalityType, BatchAssumption
  <1> QED BY <1>1, UnitFinite, FS_Subset

LEMMA InitIInv == Init => IInv
  <1> SUFFICES ASSUME Init PROVE IInv
      OBVIOUS
  <1>1. TypeOK
    BY BatchAssumption DEF Init, TypeOK, Unit, Outcome, Control
  <1>2. OwnerInv /\ QueueInv /\ HandInv /\ HistoryInv
    BY DEF Init, OwnerInv, QueueInv, HandInv, HistoryInv, Busy, Untouched
  <1>3. CountInv
    BY FS_EmptySet, BatchAssumption DEF Init, CountInv
  <1>4. EndInv
    BY DEF Init, EndInv, Announces
  <1> QED BY <1>1, <1>2, <1>3, <1>4 DEF IInv
-----------------------------------------------------------------------------
LEMMA TakeIInv ==
  ASSUME IInv, NEW w \in Worker, Take(w)
  PROVE  IInv'
  <1> USE BatchAssumption
  <1>1. CASE next > N
    <2>1. /\ pc' = [pc EXCEPT ![w] = "exit"] /\ pc[w] = "idle"
          /\ UNCHANGED <<scheduled, next, unit, remaining, outcome, runs, cached,
                         results, completes, updates, counted>>
      BY <1>1 DEF Take, Goto
    <2> QED
      BY <2>1 DEF IInv, TypeOK, Control, OwnerInv, Busy, QueueInv, Untouched, HandInv,
                  HistoryInv, Settled, CountInv, EndInv, Announces
  <1>2. CASE ~(next > N)
    <2>1. /\ pc' = [pc EXCEPT ![w] = "probe"] /\ pc[w] = "idle"
          /\ unit' = [unit EXCEPT ![w] = next] /\ next' = next + 1
          /\ UNCHANGED <<scheduled, remaining, outcome, runs, cached, results,
                         completes, updates, counted>>
          /\ next \in Unit
      BY <1>2 DEF Take, Goto, IInv, TypeOK, Unit
    <2>2. TypeOK'
      BY <2>1 DEF IInv, TypeOK, Control, Unit
    <2>3. OwnerInv'
      BY <2>1 DEF IInv, TypeOK, OwnerInv, Busy, QueueInv, Unit
    <2>4. QueueInv' /\ HistoryInv' /\ CountInv'
      BY <2>1 DEF IInv, TypeOK, QueueInv, Untouched, HistoryInv, Settled, CountInv, Unit
    <2>5. HandInv'
      BY <2>1 DEF IInv, TypeOK, HandInv, QueueInv, Untouched, Settled
    <2>6. EndInv'
      BY <2>1 DEF IInv, TypeOK, EndInv, Announces
    <2> QED BY <2>2, <2>3, <2>4, <2>5, <2>6 DEF IInv
  <1> QED BY <1>1, <1>2

LEMMA ProbeIInv ==
  ASSUME IInv, NEW w \in Worker, Probe(w)
  PROVE  IInv'
  <1>1. PICK o \in Outcome : /\ outcome' = [outcome EXCEPT ![unit[w]] = o]
                             /\ pc' = [pc EXCEPT ![w] = AfterProbe(o)]
    BY DEF Probe, Goto
  <1>2. /\ pc[w] = "probe" /\ runs' = [runs EXCEPT ![unit[w]] = @ + 1]
        /\ UNCHANGED <<scheduled, next, remaining, unit, cached, results, completes,
                       updates, counted>>
    BY DEF Probe
  <1>3. unit[w] \in Unit /\ Untouched(unit[w])
    BY <1>2 DEF IInv, OwnerInv, HandInv, Busy
  <1>4. /\ o = "ok" => AfterProbe(o) = "cache"
        /\ o = "panic" => AfterProbe(o) = "count"
        /\ o \in {"error", "limited"} => AfterProbe(o) = "emit"
    BY DEF AfterProbe, Outcome
  <1>5. TypeOK'
    BY <1>1, <1>2, <1>3, <1>4 DEF IInv, TypeOK, Control, Outcome
  <1>6. OwnerInv'
    BY <1>1, <1>2, <1>4 DEF IInv, TypeOK, OwnerInv, Busy, Outcome
  <1>7. QueueInv' /\ CountInv'
    BY <1>1, <1>2, <1>3 DEF IInv, TypeOK, OwnerInv, Busy, QueueInv, Untouched, CountInv,
                            Unit
  <1>8. HandInv'
    BY <1>1, <1>2, <1>3, <1>4
    DEF IInv, TypeOK, OwnerInv, Busy, HandInv, Untouched, Settled, Outcome
  <1>9. HistoryInv'
    BY <1>1, <1>2, <1>3 DEF IInv, TypeOK, HistoryInv, Untouched, Settled, Outcome
  <1>10. EndInv'
    BY <1>1, <1>2, <1>4 DEF IInv, TypeOK, EndInv, Announces, Outcome
  <1> QED BY <1>5, <1>6, <1>7, <1>8, <1>9, <1>10 DEF IInv

LEMMA CacheIInv ==
  ASSUME IInv, NEW w \in Worker, CacheOutput(w)
  PROVE  IInv'
  <1>1. /\ pc[w] = "cache" /\ cached' = cached \cup {unit[w]}
        /\ pc' = [pc EXCEPT ![w] = "emit"]
        /\ UNCHANGED <<scheduled, next, remaining, unit, outcome, runs, results,
                       completes, updates, counted>>
    BY DEF CacheOutput, Goto
  <1>2. unit[w] \in Unit /\ unit[w] < next /\ outcome[unit[w]] = "ok" /\ results[unit[w]] = 0
    BY <1>1 DEF IInv, OwnerInv, HandInv, Busy
  <1>3. TypeOK' /\ CountInv'
    BY <1>1, <1>2 DEF IInv, TypeOK, Control, CountInv
  <1>4. OwnerInv'
    BY <1>1 DEF IInv, TypeOK, OwnerInv, Busy
  <1>5. QueueInv' /\ HistoryInv'
    BY <1>1, <1>2, BatchAssumption
    DEF IInv, TypeOK, QueueInv, Untouched, HistoryInv, Settled, Unit
  <1>6. HandInv'
    BY <1>1, <1>2 DEF IInv, TypeOK, OwnerInv, Busy, HandInv, Untouched, Settled
  <1>7. EndInv'
    BY <1>1 DEF IInv, TypeOK, EndInv, Announces
  <1> QED BY <1>3, <1>4, <1>5, <1>6, <1>7 DEF IInv

LEMMA EmitIInv ==
  ASSUME IInv, NEW w \in Worker, EmitResult(w)
  PROVE  IInv'
  <1>1. /\ pc[w] = "emit" /\ results' = [results EXCEPT ![unit[w]] = @ + 1]
        /\ pc' = [pc EXCEPT ![w] = "count"]
        /\ UNCHANGED <<scheduled, next, remaining, unit, outcome, runs, cached,
                       completes, updates, counted>>
    BY DEF EmitResult, Goto
  <1>2. /\ unit[w] \in Unit /\ unit[w] < next /\ results[unit[w]] = 0
        /\ outcome[unit[w]] \in {"ok", "error", "limited"}
        /\ outcome[unit[w]] = "ok" => unit[w] \in cached
    BY <1>1 DEF IInv, OwnerInv, HandInv, Busy
  <1>3. TypeOK' /\ CountInv'
    BY <1>1, <1>2 DEF IInv, TypeOK, Control, CountInv
  <1>4. OwnerInv'
    BY <1>1 DEF IInv, TypeOK, OwnerInv, Busy
  <1>5. QueueInv' /\ HistoryInv'
    BY <1>1, <1>2, BatchAssumption
    DEF IInv, TypeOK, QueueInv, Untouched, HistoryInv, Settled, Unit
  <1>6. HandInv'
    BY <1>1, <1>2 DEF IInv, TypeOK, OwnerInv, Busy, HandInv, Untouched, Settled
  <1>7. EndInv'
    BY <1>1 DEF IInv, TypeOK, EndInv, Announces
  <1> QED BY <1>3, <1>4, <1>5, <1>6, <1>7 DEF IInv

LEMMA CountIInv ==
  ASSUME IInv, NEW w \in Worker, Count(w)
  PROVE  IInv'
  <1>1. /\ pc[w] = "count" /\ remaining' = remaining - 1
        /\ counted' = counted \cup {unit[w]}
        /\ pc' = [pc EXCEPT ![w] = IF remaining = 1 THEN "complete" ELSE "idle"]
        /\ UNCHANGED <<scheduled, next, unit, outcome, runs, cached, results,
                       completes, updates>>
    BY DEF Count, Goto
  <1>2. unit[w] \in Unit \ counted /\ unit[w] < next /\ Settled(unit[w])
    BY <1>1 DEF IInv, OwnerInv, HandInv, Busy
  <1>3. /\ Cardinality(counted) \in 0 .. N - 1
        /\ Cardinality(counted') = Cardinality(counted) + 1
    BY <1>1, <1>2, CountOne DEF IInv, TypeOK
  <1>4. remaining \in 1 .. N /\ CountInv'
    BY <1>1, <1>3, BatchAssumption DEF IInv, CountInv
  <1>5. TypeOK'
    BY <1>1, <1>2, <1>4, BatchAssumption DEF IInv, TypeOK, Control
  <1>6. OwnerInv'
    BY <1>1, <1>2 DEF IInv, TypeOK, OwnerInv, Busy
  <1>7. QueueInv' /\ HistoryInv'
    BY <1>1, <1>2, BatchAssumption
    DEF IInv, TypeOK, QueueInv, Untouched, HistoryInv, Settled, Unit
  <1>8. HandInv'
    BY <1>1 DEF IInv, TypeOK, HandInv, Untouched, Settled
  <1>9. EndInv'
    <2>1. completes = 0 /\ updates = 0 /\ \A v \in Worker : ~Announces(v)
      BY <1>4 DEF IInv, EndInv
    <2> QED BY <1>1, <1>4, <2>1 DEF IInv, TypeOK, EndInv, Announces
  <1> QED BY <1>4, <1>5, <1>6, <1>7, <1>8, <1>9 DEF IInv

LEMMA EndIInv ==
  ASSUME IInv, NEW w \in Worker, EmitComplete(w) \/ EmitUpdated(w)
  PROVE  IInv'
  <1>1. /\ UNCHANGED <<scheduled, next, remaining, unit, outcome, runs, cached,
                       results, counted>>
        /\ pc[w] \in {"complete", "updated"}
        /\ \E c \in {"updated", "idle"} : pc' = [pc EXCEPT ![w] = c]
    BY DEF EmitComplete, EmitUpdated, Goto
  <1>2. OwnerInv' /\ HandInv'
    BY <1>1 DEF IInv, TypeOK, OwnerInv, HandInv, Busy, Untouched, Settled
  <1>3. QueueInv' /\ HistoryInv' /\ CountInv'
    BY <1>1 DEF IInv, QueueInv, Untouched, HistoryInv, Settled, CountInv
  <1>4. TypeOK'
    BY <1>1 DEF IInv, TypeOK, Control, EmitComplete, EmitUpdated
  <1>5. EndInv'
    <2>1. CASE EmitComplete(w)
      BY <2>1 DEF EmitComplete, Goto, IInv, TypeOK, EndInv, Announces
    <2>2. CASE EmitUpdated(w)
      BY <2>2 DEF EmitUpdated, Goto, IInv, TypeOK, EndInv, Announces
    <2> QED BY <2>1, <2>2
  <1> QED BY <1>2, <1>3, <1>4, <1>5 DEF IInv

LEMMA NextIInv == IInv /\ [Next]_vars => IInv'
  <1> SUFFICES ASSUME IInv, [Next]_vars PROVE IInv'
      OBVIOUS
  <1>1. ASSUME NEW w \in Worker, Step(w)
        PROVE  IInv'
    BY <1>1, TakeIInv, ProbeIInv, CacheIInv, EmitIInv, CountIInv, EndIInv DEF Step
  <1>2. CASE UNCHANGED vars
    BY <1>2 DEF vars, IInv, TypeOK, OwnerInv, Busy, QueueInv, Untouched, HandInv,
                HistoryInv, Settled, CountInv, EndInv, Announces
  <1> QED BY <1>1, <1>2 DEF Next

LEMMA Invariance == Spec => []IInv
  <1>1. Init => IInv
    BY InitIInv
  <1>2. IInv /\ [Next]_vars => IInv'
    BY NextIInv
  <1> QED BY <1>1, <1>2, PTL DEF Spec
-----------------------------------------------------------------------------
\* Every variable of a batch keeps its type; in particular the counter of
\* remaining units never wraps around below zero.
THEOREM TypeCorrect == Spec => []TypeOK
  <1>1. IInv => TypeOK
    BY DEF IInv
  <1> QED BY <1>1, Invariance, PTL

\* No unit is probed or reported twice in a batch, for any number of units
\* and threads.
THEOREM UnitsProbedOnce == Spec => []ProbedOnce
  <1>1. IInv => ProbedOnce
    BY DEF IInv, HistoryInv, ProbedOnce
  <1> QED BY <1>1, Invariance, PTL

LEMMA EndedMeansSettled ==
  ASSUME IInv, remaining = 0
  PROVE  \A u \in Unit : Settled(u)
  <1>1. counted = Unit
    BY AllCounted DEF IInv, TypeOK, CountInv
  <1> QED BY <1>1 DEF IInv, HistoryInv

\* probe:batch-complete is announced once and last, for any number of units
\* and threads.
THEOREM CompletionIsLast == Spec => []CompleteIsLast
  <1>1. IInv => CompleteIsLast
    BY EndedMeansSettled DEF IInv, EndInv, CompleteIsLast
  <1> QED BY <1>1, Invariance, PTL

\* What the webview hears of is in the cache, and only successful outputs are.
THEOREM CacheMatchesEvents == Spec => []CacheAgreesWithEvents
  <1>1. ASSUME IInv, NEW u \in Unit
        PROVE  /\ u \in cached => outcome[u] = "ok"
               /\ outcome[u] = "ok" /\ (results[u] = 1 \/ updates = 1) => u \in cached
    <2>1. updates = 1 => Settled(u)
      BY <1>1, EndedMeansSettled DEF IInv, EndInv
    <2> QED BY <1>1, <2>1 DEF IInv, HistoryInv, Settled
  <1>2. IInv => CacheAgreesWithEvents
    BY <1>1 DEF CacheAgreesWithEvents
  <1> QED BY <1>2, Invariance, PTL
-----------------------------------------------------------------------------
\* The units that wait for a result, as the contract sees them.
Awaited == {u \in Unit : results[u] = 0 /\ outcome[u] # "panic"}
Reported == {u \in Unit : results[u] = 1}

LEMMA StepImplements ==
  ASSUME IInv, NEW w \in Worker, Step(w)
  PROVE  Contract!Next \/ UNCHANGED <<Awaited, Reported, completes = 1>>
  <1>1. CASE Take(w) \/ CacheOutput(w) \/ Count(w) \/ EmitUpdated(w)
    BY <1>1 DEF Take, CacheOutput, Count, EmitUpdated, Awaited, Reported
  <1>2. CASE Probe(w)
    <2>1. PICK o \in Outcome : outcome' = [outcome EXCEPT ![unit[w]] = o]
      BY <1>2 DEF Probe
    <2>2. /\ pc[w] = "probe" /\ UNCHANGED <<results, completes>>
          /\ unit[w] \in Unit /\ Untouched(unit[w])
      BY <1>2 DEF Probe, IInv, OwnerInv, HandInv, Busy
    <2>3. CASE o = "panic"
      <3>1. /\ unit[w] \in Awaited /\ Awaited' = Awaited \ {unit[w]}
            /\ UNCHANGED <<Reported, completes = 1>>
        BY <2>1, <2>2, <2>3 DEF IInv, TypeOK, Awaited, Reported, Untouched
      <3> QED
        BY <2>2, <3>1 DEF Contract!Next, Contract!Lose, Awaited, Reported
    <2>4. CASE o # "panic"
      BY <2>1, <2>2, <2>4 DEF IInv, TypeOK, Awaited, Reported, Untouched
    <2> QED BY <2>3, <2>4
  <1>3. CASE EmitResult(w)
    <2>1. /\ pc[w] = "emit" /\ results' = [results EXCEPT ![unit[w]] = @ + 1]
          /\ UNCHANGED <<outcome, completes>>
          /\ unit[w] \in Unit /\ results[unit[w]] = 0
          /\ outcome[unit[w]] \in {"ok", "error", "limited"}
      BY <1>3 DEF EmitResult, IInv, OwnerInv, HandInv, Busy
    <2>2. /\ unit[w] \in Awaited /\ Awaited' = Awaited \ {unit[w]}
          /\ Reported' = Reported \cup {unit[w]}
          /\ UNCHANGED (completes = 1)
      BY <2>1 DEF IInv, TypeOK, Awaited, Reported
    <2> QED BY <2>1, <2>2 DEF Contract!Next, Contract!Report, Awaited, Reported
  <1>4. CASE EmitComplete(w)
    <2>1. pc[w] = "complete" /\ completes' = completes + 1 /\ UNCHANGED <<results, outcome>>
      BY <1>4 DEF EmitComplete
    <2>2. completes = 0 /\ remaining = 0
      BY <2>1 DEF IInv, EndInv, Announces
    <2>3. Awaited = {}
      BY <2>2, EndedMeansSettled DEF Settled, Awaited
    <2>4. UNCHANGED <<Awaited, Reported>>
      BY <2>1 DEF Awaited, Reported
    <2> QED
      BY <2>1, <2>2, <2>3, <2>4 DEF Contract!Next, Contract!Complete, Awaited, Reported
  <1> QED BY <1>1, <1>2, <1>3, <1>4 DEF Step

\* The pool of threads implements what a batch promises to its listeners:
\* each unit is reported once or lost, and completion comes once, afterwards.
\* (That it comes is model-checked.)
THEOREM PoolImplementsContract == Spec => Contract!Spec
  <1>1. Init => Contract!Init
    BY DEF Init, Contract!Init
  <1>2. IInv /\ [Next]_vars => [Contract!Next]_(Contract!vars)
    <2> SUFFICES ASSUME IInv, [Next]_vars PROVE [Contract!Next]_(Contract!vars)
        OBVIOUS
    <2>1. ASSUME NEW w \in Worker, Step(w) PROVE [Contract!Next]_(Contract!vars)
      BY <2>1, StepImplements DEF Awaited, Reported, Contract!vars
    <2>2. CASE UNCHANGED vars
      BY <2>2 DEF vars, Contract!vars
    <2> QED BY <2>1, <2>2 DEF Next
  <1> QED BY <1>1, <1>2, Invariance, PTL DEF Spec, Contract!Spec
=============================================================================
