-------------------------- MODULE UsageCacheProofs --------------------------
(***************************************************************************)
(* Proofs about UsageCache, for every set of keys, any number of worker    *)
(* threads, insertions and failures.                                       *)
(***************************************************************************)
EXTENDS UsageCache, TLAPS

Below(m, n) == \A k \in Key : m[k] <= n[k]

Flushing == {"locked", "copied", "written", "renamed"}

\* The write lock is held by exactly the thread inside a flush.
LockInv ==
  \A t \in Thread : pc[t] \in Flushing <=> writeLock = t

\* What the file, the copy being written and the memory know is ordered,
\* and equal generations mean equal contents.
DataInv ==
  /\ flushed <= dirty
  /\ \A k \in Key : snapshots[k] <= stamp
  /\ Below(load_cache(disk), snapshots)
  /\ dirty = flushed => load_cache(disk) = snapshots
  /\ \A t \in Thread : pc[t] \in {"copied", "written", "renamed"} =>
       /\ flushed < pending[t].gen
       /\ pending[t].gen <= dirty
       /\ pending[t].gen = dirty => pending[t].map = snapshots
       /\ Below(pending[t].map, snapshots)
       /\ Below(load_cache(disk), pending[t].map)
  /\ \A t \in Thread : pc[t] = "written" => tmp = pending[t].map
  /\ \A t \in Thread : pc[t] = "renamed" => disk = pending[t].map

\* A scheduled flush has a worker, and so has an insertion not yet flushed.
WorkerInv ==
  process # "down" /\ (scheduled \/ dirty # flushed)
    => \E w \in Worker : pc[w] # "none"

\* No thread outlives the process, and Main flushes only while exiting.
ProcessInv ==
  /\ process = "down" => \A t \in Thread : pc[t] = "none"
  /\ process = "up" => pc[Main] = "none"

\* The first exit flush already makes the snapshots of atExit durable.
ExitInv ==
  process = "exiting" =>
    /\ Below(atExit, snapshots)
    /\ failures = 0 =>
         /\ pc[Main] \in {"copied", "written", "renamed"}
              => Below(atExit, pending[Main].map)
         /\ pc[Main] = "none" /\ exitEvents <= 1
              => Below(atExit, load_cache(disk))

IInv == TypeOK /\ LockInv /\ DataInv /\ WorkerInv /\ ProcessInv /\ ExitInv
-----------------------------------------------------------------------------
\* What the loader returns is a map, and the map itself for a readable file.
LEMMA LoadIsMap ==
  /\ \A f \in File : load_cache(f) \in Map
  /\ \A m \in Map : load_cache(m) = m
  /\ load_cache(Missing) = EmptyMap
  /\ load_cache(Garbled) = EmptyMap
  /\ EmptyMap \in Map
  /\ NoCopy \in Copy
<1>1. EmptyMap \in Map
  BY ConstantAssumption DEF EmptyMap, Map, Snapshot
<1>2. NoCopy \in Copy
  BY <1>1 DEF NoCopy, Copy
<1> QED  BY <1>1, <1>2, ConstantAssumption DEF load_cache, File

\* An insertion hands out a stamp within the bound.
LEMMA InsertIsMap ==
  ASSUME TypeOK, NEW k \in Key, stamp < MaxStamp
  PROVE  /\ stamp + 1 \in Snapshot
         /\ [snapshots EXCEPT ![k] = stamp + 1] \in Map
BY ConstantAssumption DEF TypeOK, Map, Snapshot

\* The steps that release the write lock keep the thread state well typed.
LEMMA ReleaseType ==
  ASSUME TypeOK, NEW t \in Thread, NEW idle \in BOOLEAN,
         ReleaseWriteLock(t, idle)
  PROVE  /\ writeLock' \in Thread \cup {"free"}
         /\ pc' \in [Thread -> {"none", "waiting", "locked", "copied",
                               "written", "renamed"}]
         /\ pending' \in [Thread -> Copy]
BY LoadIsMap DEF ReleaseWriteLock, AfterFlush, TypeOK

LEMMA ThreadsGoneType ==
  ASSUME TypeOK, ThreadsGone
  PROVE  /\ writeLock' \in Thread \cup {"free"}
         /\ pc' \in [Thread -> {"none", "waiting", "locked", "copied",
                               "written", "renamed"}]
         /\ pending' \in [Thread -> Copy]
         /\ tmp' \in File
BY LoadIsMap DEF ThreadsGone, TypeOK, File

LEMMA TypeStep == TypeOK /\ [Next]_vars => TypeOK'
<1> SUFFICES ASSUME TypeOK, [Next]_vars PROVE TypeOK'
  OBVIOUS
<1> USE DEF stateVars, threadVars, fileVars
<1>1. ASSUME NEW k \in Key, cache_successful_output(k) PROVE TypeOK'
  <2>1. /\ stamp' \in Snapshot
        /\ snapshots' \in Map
    BY <1>1, InsertIsMap DEF cache_successful_output
  <2>2. versions' \in Seq(Map)
    BY <1>1, <2>1 DEF cache_successful_output, TypeOK
  <2>3. dirty' \in Nat
    BY <1>1 DEF cache_successful_output, TypeOK
  <2>4. /\ scheduled' \in BOOLEAN
        /\ pc' \in [Thread -> {"none", "waiting", "locked", "copied",
                              "written", "renamed"}]
    BY <1>1 DEF cache_successful_output, schedule_cache_flush, TypeOK
  <2> QED  BY <1>1, <2>1, <2>2, <2>3, <2>4
           DEF cache_successful_output, TypeOK
<1>2. ASSUME NEW t \in Thread, AcquireWriteLock(t) PROVE TypeOK'
  BY <1>2 DEF AcquireWriteLock, TypeOK
<1>3. ASSUME NEW t \in Thread, pending_cache_write(t) PROVE TypeOK'
  <2>1. CASE dirty = flushed
    BY <1>3, <2>1, ReleaseType DEF pending_cache_write, TypeOK
  <2>2. CASE dirty # flushed
    <3>1. [gen |-> dirty, map |-> snapshots] \in Copy
      BY DEF TypeOK, Copy
    <3> QED  BY <1>3, <2>2, <3>1 DEF pending_cache_write, TypeOK
  <2> QED  BY <2>1, <2>2
<1>4. ASSUME NEW t \in Thread, WriteTemp(t) PROVE TypeOK'
  <2>1. pending[t].map \in File
    BY DEF TypeOK, Copy, File
  <2> QED  BY <1>4, <2>1 DEF WriteTemp, TypeOK
<1>5. ASSUME NEW t \in Thread, RenameTemp(t) PROVE TypeOK'
  BY <1>5 DEF RenameTemp, TypeOK, File
<1>6. ASSUME NEW t \in Thread, mark_cache_flushed(t) PROVE TypeOK'
  <2>1. pending[t].gen \in Nat
    BY DEF TypeOK, Copy
  <2> QED  BY <1>6, <2>1, ReleaseType DEF mark_cache_flushed, TypeOK
<1>7. ASSUME NEW t \in Thread, SaveFails(t) PROVE TypeOK'
  <2>1. /\ tmp' \in File
        /\ failures' \in 0 .. MaxFailure
    BY <1>7, ConstantAssumption DEF SaveFails, TypeOK, File
  <2> QED  BY <1>7, <2>1, ReleaseType DEF SaveFails, TypeOK
<1>8. CASE RequestExit
  BY <1>8 DEF RequestExit, TypeOK
<1>9. CASE flush_cache
  <2>1. Main \in Thread
    BY DEF Thread
  <2>2. exitEvents' \in 0 .. 2
    BY <1>9 DEF flush_cache, TypeOK
  <2>3. pc' \in [Thread -> {"none", "waiting", "locked", "copied",
                           "written", "renamed"}]
    BY <1>9, <2>1 DEF flush_cache, TypeOK
  <2> QED  BY <1>9, <2>2, <2>3 DEF flush_cache, TypeOK
<1>10. CASE ExitProcess
  BY <1>10, ThreadsGoneType DEF ExitProcess, TypeOK
<1>11. CASE Crash
  BY <1>11, ThreadsGoneType, LoadIsMap DEF Crash, TypeOK
<1>12. CASE init
  <2>1. load_cache(disk) \in Map
    BY LoadIsMap DEF TypeOK
  <2>2. <<load_cache(disk)>> \in Seq(Map)
    BY <2>1
  <2> QED  BY <1>12, <2>1, <2>2, LoadIsMap DEF init, StartedWith, TypeOK
<1>13. CASE UNCHANGED vars
  BY <1>13 DEF vars, TypeOK
<1> QED
  BY <1>1, <1>2, <1>3, <1>4, <1>5, <1>6, <1>7, <1>8, <1>9, <1>10, <1>11,
     <1>12, <1>13 DEF Next, Flush

LEMMA InitType == Init => TypeOK
<1> SUFFICES ASSUME Init PROVE TypeOK
  OBVIOUS
<1>1. snapshots \in Map
  BY LoadIsMap DEF Init
<1>2. versions \in Seq(Map)
  BY <1>1 DEF Init
<1>3. disk \in File /\ tmp \in File
  BY DEF Init, File
<1>4. stamp \in Snapshot /\ failures \in 0 .. MaxFailure
  BY ConstantAssumption DEF Init, Snapshot
<1>5. atExit \in Map /\ pending \in [Thread -> Copy]
  BY LoadIsMap DEF Init
<1>6. pc \in [Thread -> {"none", "waiting", "locked", "copied", "written",
                        "renamed"}]
  BY DEF Init
<1>7. /\ process \in {"up", "exiting", "down"}
      /\ dirty \in Nat /\ flushed \in Nat /\ exitEvents \in 0 .. 2
      /\ writeLock \in Thread \cup {"free"}
  BY DEF Init
<1>8. scheduled \in BOOLEAN
  BY DEF Init
<1> QED  BY <1>1, <1>2, <1>3, <1>4, <1>5, <1>6, <1>7, <1>8 DEF TypeOK

\* Every variable keeps its type: counters stay within their bounds, what is
\* on disk is a whole map, missing or unreadable, and no step is left
\* undefined.
THEOREM TypeCorrect == Spec => []TypeOK
BY InitType, TypeStep, PTL DEF Spec
-----------------------------------------------------------------------------
\* One thread at a time is between taking and dropping the write lock.
LEMMA LockStep == TypeOK /\ LockInv /\ [Next]_vars => LockInv'
<1> SUFFICES ASSUME TypeOK, LockInv, [Next]_vars PROVE LockInv'
  OBVIOUS
<1> USE DEF stateVars, threadVars, fileVars, LockInv, Flushing
<1>0. /\ pc \in [Thread -> {"none", "waiting", "locked", "copied", "written",
                            "renamed"}]
      /\ "free" \notin Thread
      /\ Main \in Thread
      /\ Worker \subseteq Thread
  BY ConstantAssumption DEF TypeOK, Thread
<1>1. ASSUME NEW k \in Key, cache_successful_output(k) PROVE LockInv'
  BY <1>0, <1>1 DEF cache_successful_output, schedule_cache_flush
<1>2. ASSUME NEW t \in Thread, AcquireWriteLock(t) PROVE LockInv'
  BY <1>0, <1>2 DEF AcquireWriteLock
<1>3. ASSUME NEW t \in Thread, pending_cache_write(t) PROVE LockInv'
  BY <1>0, <1>3 DEF pending_cache_write, ReleaseWriteLock, AfterFlush
<1>4. ASSUME NEW t \in Thread, WriteTemp(t) PROVE LockInv'
  BY <1>0, <1>4 DEF WriteTemp
<1>5. ASSUME NEW t \in Thread, RenameTemp(t) PROVE LockInv'
  BY <1>0, <1>5 DEF RenameTemp
<1>6. ASSUME NEW t \in Thread, mark_cache_flushed(t) PROVE LockInv'
  BY <1>0, <1>6 DEF mark_cache_flushed, ReleaseWriteLock, AfterFlush
<1>7. ASSUME NEW t \in Thread, SaveFails(t) PROVE LockInv'
  BY <1>0, <1>7 DEF SaveFails, ReleaseWriteLock, AfterFlush
<1>8. CASE RequestExit
  BY <1>0, <1>8 DEF RequestExit
<1>9. CASE flush_cache
  BY <1>0, <1>9 DEF flush_cache
<1>10. CASE ExitProcess
  BY <1>0, <1>10 DEF ExitProcess, ThreadsGone
<1>11. CASE Crash
  BY <1>0, <1>11 DEF Crash, ThreadsGone
<1>12. CASE init
  BY <1>0, <1>12 DEF init
<1>13. CASE UNCHANGED vars
  BY <1>0, <1>13 DEF vars
<1> QED
  BY <1>1, <1>2, <1>3, <1>4, <1>5, <1>6, <1>7, <1>8, <1>9, <1>10, <1>11,
     <1>12, <1>13 DEF Next, Flush

\* Threads run only inside a process, Main flushes only while it exits.
LEMMA ProcessStep == TypeOK /\ ProcessInv /\ [Next]_vars => ProcessInv'
<1> SUFFICES ASSUME TypeOK, ProcessInv, [Next]_vars PROVE ProcessInv'
  OBVIOUS
<1> USE DEF stateVars, threadVars, fileVars, ProcessInv
<1>0. /\ pc \in [Thread -> {"none", "waiting", "locked", "copied", "written",
                            "renamed"}]
      /\ Main \in Thread
      /\ Worker \subseteq Thread
      /\ Main \notin Worker
  BY ConstantAssumption DEF TypeOK, Thread
<1>1. ASSUME NEW k \in Key, cache_successful_output(k) PROVE ProcessInv'
  BY <1>0, <1>1 DEF cache_successful_output, schedule_cache_flush
<1>2. ASSUME NEW t \in Thread, AcquireWriteLock(t) PROVE ProcessInv'
  BY <1>0, <1>2 DEF AcquireWriteLock
<1>3. ASSUME NEW t \in Thread, pending_cache_write(t) PROVE ProcessInv'
  BY <1>0, <1>3 DEF pending_cache_write, ReleaseWriteLock, AfterFlush
<1>4. ASSUME NEW t \in Thread, WriteTemp(t) PROVE ProcessInv'
  BY <1>0, <1>4 DEF WriteTemp
<1>5. ASSUME NEW t \in Thread, RenameTemp(t) PROVE ProcessInv'
  BY <1>0, <1>5 DEF RenameTemp
<1>6. ASSUME NEW t \in Thread, mark_cache_flushed(t) PROVE ProcessInv'
  BY <1>0, <1>6 DEF mark_cache_flushed, ReleaseWriteLock, AfterFlush
<1>7. ASSUME NEW t \in Thread, SaveFails(t) PROVE ProcessInv'
  BY <1>0, <1>7 DEF SaveFails, ReleaseWriteLock, AfterFlush
<1>8. CASE RequestExit
  BY <1>0, <1>8 DEF RequestExit
<1>9. CASE flush_cache
  BY <1>0, <1>9 DEF flush_cache
<1>10. CASE ExitProcess
  BY <1>0, <1>10 DEF ExitProcess, ThreadsGone
<1>11. CASE Crash
  BY <1>0, <1>11 DEF Crash, ThreadsGone
<1>12. CASE init
  BY <1>0, <1>12 DEF init, StartedWith
<1>13. CASE UNCHANGED vars
  BY <1>0, <1>13 DEF vars
<1> QED
  BY <1>1, <1>2, <1>3, <1>4, <1>5, <1>6, <1>7, <1>8, <1>9, <1>10, <1>11,
     <1>12, <1>13 DEF Next, Flush

\* A worker returns only when nothing is left to flush, and says so.
LEMMA WorkerStep ==
  TypeOK /\ DataInv /\ WorkerInv /\ [Next]_vars => WorkerInv'
<1> SUFFICES ASSUME TypeOK, DataInv, WorkerInv, [Next]_vars PROVE WorkerInv'
  OBVIOUS
<1> USE DEF stateVars, threadVars, fileVars, WorkerInv
<1>0. /\ pc \in [Thread -> {"none", "waiting", "locked", "copied", "written",
                            "renamed"}]
      /\ Main \in Thread
      /\ Worker \subseteq Thread
      /\ Main \notin Worker
  BY ConstantAssumption DEF TypeOK, Thread
<1>1. ASSUME NEW k \in Key, cache_successful_output(k) PROVE WorkerInv'
  BY <1>0, <1>1 DEF cache_successful_output, schedule_cache_flush
<1>2. ASSUME NEW t \in Thread, AcquireWriteLock(t) PROVE WorkerInv'
  BY <1>0, <1>2 DEF AcquireWriteLock
<1>3. ASSUME NEW t \in Thread, pending_cache_write(t) PROVE WorkerInv'
  BY <1>0, <1>3 DEF pending_cache_write, ReleaseWriteLock, AfterFlush
<1>4. ASSUME NEW t \in Thread, WriteTemp(t) PROVE WorkerInv'
  BY <1>0, <1>4 DEF WriteTemp
<1>5. ASSUME NEW t \in Thread, RenameTemp(t) PROVE WorkerInv'
  BY <1>0, <1>5 DEF RenameTemp
<1>6. ASSUME NEW t \in Thread, mark_cache_flushed(t) PROVE WorkerInv'
  <2>1. dirty # flushed
    BY <1>6 DEF mark_cache_flushed, DataInv, TypeOK, Copy
  <2> QED  BY <1>0, <1>6, <2>1 DEF mark_cache_flushed, ReleaseWriteLock, AfterFlush
<1>7. ASSUME NEW t \in Thread, SaveFails(t) PROVE WorkerInv'
  BY <1>0, <1>7 DEF SaveFails, ReleaseWriteLock, AfterFlush
<1>8. CASE RequestExit
  BY <1>0, <1>8 DEF RequestExit
<1>9. CASE flush_cache
  BY <1>0, <1>9 DEF flush_cache
<1>10. CASE ExitProcess
  BY <1>0, <1>10 DEF ExitProcess, ThreadsGone
<1>11. CASE Crash
  BY <1>0, <1>11 DEF Crash, ThreadsGone
<1>12. CASE init
  BY <1>0, <1>12 DEF init, StartedWith
<1>13. CASE UNCHANGED vars
  BY <1>0, <1>13 DEF vars
<1> QED
  BY <1>1, <1>2, <1>3, <1>4, <1>5, <1>6, <1>7, <1>8, <1>9, <1>10, <1>11,
     <1>12, <1>13 DEF Next, Flush
-----------------------------------------------------------------------------
\* What the steps that leave a map alone, replace the file or reload know of
\* the types involved.
LEMMA DataTypes ==
  ASSUME TypeOK
  PROVE  /\ pc \in [Thread -> {"none", "waiting", "locked", "copied",
                              "written", "renamed"}]
         /\ pending \in [Thread -> [gen : Nat, map : Map]]
         /\ snapshots \in [Key -> Nat]
         /\ atExit \in [Key -> Nat]
         /\ load_cache(disk) \in [Key -> Nat]
         /\ \A t \in Thread : /\ pending[t].gen \in Nat
                             /\ pending[t].map \in [Key -> Nat]
         /\ dirty \in Nat /\ flushed \in Nat /\ stamp \in Nat
         /\ Main \in Thread /\ Worker \subseteq Thread /\ Main \notin Worker
<1>1. \A m \in Map : m \in [Key -> Nat]
  BY ConstantAssumption DEF Map, Snapshot
<1>2. load_cache(disk) \in Map
  BY LoadIsMap DEF TypeOK
<1>3. stamp \in Nat
  BY ConstantAssumption DEF TypeOK, Snapshot
<1> QED  BY <1>1, <1>2, <1>3, ConstantAssumption DEF TypeOK, Copy, Thread

\* Generations and contents stay in step.
LEMMA DataStep ==
  TypeOK /\ LockInv /\ ProcessInv /\ DataInv /\ [Next]_vars => DataInv'
<1> SUFFICES ASSUME TypeOK, LockInv, ProcessInv, DataInv, [Next]_vars
             PROVE  DataInv'
  OBVIOUS
<1> USE DataTypes DEF stateVars, threadVars, fileVars, DataInv, Below
<1>1. ASSUME NEW k \in Key, cache_successful_output(k) PROVE DataInv'
  <2>1. /\ snapshots' = [snapshots EXCEPT ![k] = stamp + 1]
        /\ stamp' = stamp + 1
        /\ dirty' = dirty + 1
        /\ UNCHANGED <<flushed, pending, disk, tmp>>
    BY <1>1 DEF cache_successful_output
  <2>2. \A j \in Key : snapshots[j] <= snapshots'[j] /\ snapshots'[j] <= stamp'
    <3> TAKE j \in Key
    <3>1. snapshots[j] \in Nat /\ stamp \in Nat /\ snapshots[j] <= stamp
      OBVIOUS
    <3>2. snapshots'[j] = IF j = k THEN stamp + 1 ELSE snapshots[j]
      BY <2>1
    <3> QED  BY <2>1, <3>1, <3>2
  <2>3. \A t \in Thread : /\ pc'[t] = pc[t] \/ pc'[t] = "waiting"
    BY <1>1 DEF cache_successful_output, schedule_cache_flush
  <2>4. \A t \in Thread : pc'[t] \in {"copied", "written", "renamed"} => pc[t] = pc'[t]
    BY <2>3
  <2>5. dirty' # flushed'
    BY <2>1
  <2>6. ASSUME NEW m \in [Key -> Nat], Below(m, snapshots)
        PROVE  Below(m, snapshots')
    <3> SUFFICES ASSUME NEW j \in Key PROVE m[j] <= snapshots'[j]
      OBVIOUS
    <3>1. m[j] <= snapshots[j] /\ snapshots[j] <= snapshots'[j]
      BY <2>2, <2>6
    <3>2. m[j] \in Nat /\ snapshots[j] \in Nat /\ snapshots'[j] \in Nat
      BY <2>1
    <3> QED  BY <3>1, <3>2
  <2>7. ASSUME NEW t \in Thread, pc'[t] \in {"copied", "written", "renamed"}
        PROVE  /\ flushed < pending[t].gen
               /\ pending[t].gen < dirty'
               /\ Below(pending[t].map, snapshots')
               /\ Below(load_cache(disk), pending[t].map)
    <3>1. pc[t] \in {"copied", "written", "renamed"}
      BY <2>4, <2>7
    <3>2. pending[t].gen < dirty'
      BY <2>1, <3>1
    <3> QED  BY <2>6, <3>1, <3>2
  <2>8. Below(load_cache(disk), snapshots')
    BY <2>6
  <2>9. load_cache(disk)' = load_cache(disk)
    BY <2>1 DEF load_cache
  <2> QED
    BY <2>1, <2>2, <2>4, <2>5, <2>7, <2>8, <2>9
<1>2. ASSUME NEW t \in Thread, AcquireWriteLock(t) PROVE DataInv'
  BY <1>2 DEF AcquireWriteLock
<1>3. ASSUME NEW t \in Thread, pending_cache_write(t) PROVE DataInv'
  <2>1. CASE dirty = flushed
    BY <1>3, <2>1 DEF pending_cache_write, ReleaseWriteLock, AfterFlush
  <2>2. CASE dirty # flushed
    <3>1. /\ pc' = [pc EXCEPT ![t] = "copied"]
          /\ pending' = [pending EXCEPT ![t] = [gen |-> dirty, map |-> snapshots]]
          /\ UNCHANGED <<snapshots, dirty, flushed, stamp, disk, tmp>>
      BY <1>3, <2>2 DEF pending_cache_write
    <3>2. load_cache(disk)' = load_cache(disk)
      BY <3>1 DEF load_cache
    <3>3. pc[t] = "locked"
      BY <1>3 DEF pending_cache_write
    <3>4. \A u \in Thread : pc'[u] \in {"copied", "written", "renamed"}
                              => u = t /\ pc'[u] = "copied"
      BY <3>1, <3>3 DEF LockInv, Flushing
    <3>5. pending'[t].gen = dirty /\ pending'[t].map = snapshots
      BY <3>1
    <3>6. flushed < dirty
      <4>1. flushed \in Nat /\ dirty \in Nat /\ flushed <= dirty
        BY DEF TypeOK
      <4> HIDE DEF DataInv
      <4> QED  BY <2>2, <4>1
    <3>7. Below(snapshots, snapshots)
      <4> SUFFICES ASSUME NEW j \in Key PROVE snapshots[j] <= snapshots[j]
        OBVIOUS
      <4>1. snapshots[j] \in Nat
        OBVIOUS
      <4> QED  BY <4>1
    <3> QED  BY <2>2, <3>1, <3>2, <3>4, <3>5, <3>6, <3>7
  <2> QED  BY <2>1, <2>2
<1>4. ASSUME NEW t \in Thread, WriteTemp(t) PROVE DataInv'
  BY <1>4 DEF WriteTemp, LockInv, Flushing
<1>5. ASSUME NEW t \in Thread, RenameTemp(t) PROVE DataInv'
  <2>1. /\ pc[t] = "written"
        /\ disk' = pending[t].map
        /\ pc' = [pc EXCEPT ![t] = "renamed"]
        /\ UNCHANGED <<snapshots, dirty, flushed, stamp, pending>>
    BY <1>5 DEF RenameTemp
  <2>2. load_cache(disk') = pending[t].map
    BY <2>1, LoadIsMap DEF TypeOK, Copy
  <2>3. \A u \in Thread : pc'[u] \in {"copied", "written", "renamed"} => u = t
    BY <2>1 DEF LockInv, Flushing
  <2>4. load_cache(disk)' = load_cache(disk')
    BY DEF load_cache
  <2>5. dirty' # flushed'
    BY <2>1
  <2>6. \A u \in Thread : pc'[u] = "renamed" => disk' = pending'[u].map
    BY <2>1, <2>3
  <2>7. \A u \in Thread : pc'[u] # "written"
    BY <2>1, <2>3
  <2> QED  BY <2>1, <2>2, <2>3, <2>4, <2>5, <2>6, <2>7
<1>6. ASSUME NEW t \in Thread, mark_cache_flushed(t) PROVE DataInv'
  <2>1. /\ pc[t] = "renamed"
        /\ flushed' = pending[t].gen
        /\ pc'[t] \in {"none", "waiting"}
        /\ \A u \in Thread \ {t} : pc'[u] = pc[u]
        /\ UNCHANGED <<snapshots, dirty, stamp, disk>>
    BY <1>6 DEF mark_cache_flushed, ReleaseWriteLock, AfterFlush
  <2>2. \A u \in Thread : pc'[u] \notin {"copied", "written", "renamed"}
    BY <2>1 DEF LockInv, Flushing
  <2>3. load_cache(disk) = pending[t].map
    BY <2>1, LoadIsMap DEF TypeOK, Copy
  <2>4. load_cache(disk)' = load_cache(disk)
    BY <2>1 DEF load_cache
  <2> QED  BY <2>1, <2>2, <2>3, <2>4
<1>7. ASSUME NEW t \in Thread, SaveFails(t) PROVE DataInv'
  <2>1. /\ pc[t] \in {"copied", "written"}
        /\ pc'[t] \in {"none", "waiting"}
        /\ \A u \in Thread \ {t} : pc'[u] = pc[u]
        /\ UNCHANGED <<snapshots, dirty, flushed, stamp, disk>>
    BY <1>7 DEF SaveFails, ReleaseWriteLock, AfterFlush
  <2>2. \A u \in Thread : pc'[u] \notin {"copied", "written", "renamed"}
    BY <2>1 DEF LockInv, Flushing
  <2>3. load_cache(disk)' = load_cache(disk)
    BY <2>1 DEF load_cache
  <2> QED  BY <2>1, <2>2, <2>3
<1>8. CASE RequestExit
  BY <1>8 DEF RequestExit
<1>9. CASE flush_cache
  BY <1>9 DEF flush_cache
<1>10. CASE ExitProcess
  <2>1. UNCHANGED <<snapshots, dirty, flushed, stamp, disk>>
    BY <1>10 DEF ExitProcess
  <2>2. \A u \in Thread : pc'[u] = "none"
    BY <1>10 DEF ExitProcess, ThreadsGone
  <2>3. load_cache(disk)' = load_cache(disk)
    BY <2>1 DEF load_cache
  <2> QED  BY <2>1, <2>2, <2>3
<1>11. CASE Crash
  <2>1. UNCHANGED <<snapshots, dirty, flushed, stamp, disk>>
    BY <1>11 DEF Crash
  <2>2. \A u \in Thread : pc'[u] = "none"
    BY <1>11 DEF Crash, ThreadsGone
  <2>3. load_cache(disk)' = load_cache(disk)
    BY <2>1 DEF load_cache
  <2> QED  BY <2>1, <2>2, <2>3
<1>12. CASE init
  <2>1. /\ process = "down"
        /\ snapshots' = load_cache(disk)
        /\ dirty' = 0 /\ flushed' = 0
        /\ UNCHANGED <<pc, disk, stamp>>
    BY <1>12 DEF init, StartedWith
  <2>2. \A u \in Thread : pc'[u] = "none"
    BY <2>1 DEF ProcessInv
  <2>3. load_cache(disk)' = load_cache(disk)
    BY <2>1 DEF load_cache
  <2> QED  BY <2>1, <2>2, <2>3
<1>13. CASE UNCHANGED vars
  BY <1>13 DEF vars
<1> QED
  BY <1>1, <1>2, <1>3, <1>4, <1>5, <1>6, <1>7, <1>8, <1>9, <1>10, <1>11,
     <1>12, <1>13 DEF Next, Flush

\* The three maps of the exit argument are ordered transitively.
LEMMA BelowTransitive ==
  ASSUME NEW a \in [Key -> Nat], NEW b \in [Key -> Nat], NEW c \in [Key -> Nat],
         Below(a, b), Below(b, c)
  PROVE  Below(a, c)
<1> SUFFICES ASSUME NEW k \in Key PROVE a[k] <= c[k]
  BY DEF Below
<1>1. a[k] \in Nat /\ b[k] \in Nat /\ c[k] \in Nat
  OBVIOUS
<1>2. a[k] <= b[k] /\ b[k] <= c[k]
  BY DEF Below
<1> QED  BY <1>1, <1>2

\* No step of a running process makes the file older, and none at all does.
LEMMA DiskStep ==
  ASSUME TypeOK, LockInv, DataInv, [Next]_vars
  PROVE  Below(load_cache(disk), load_cache(disk'))
<1>1. CASE disk' = disk
  <2> SUFFICES ASSUME NEW k \in Key
               PROVE  load_cache(disk)[k] <= load_cache(disk')[k]
    BY DEF Below
  <2>1. load_cache(disk)[k] \in Nat
    BY DataTypes
  <2> QED  BY <1>1, <2>1
<1>2. CASE disk' # disk
  <2>1. PICK t \in Thread : RenameTemp(t)
    BY <1>2 DEF Next, Flush, vars, fileVars, cache_successful_output,
       AcquireWriteLock, pending_cache_write, WriteTemp, mark_cache_flushed,
       SaveFails, RequestExit, flush_cache, ExitProcess, Crash, init
  <2>2. pc[t] = "written" /\ disk' = pending[t].map
    BY <2>1 DEF RenameTemp, DataInv
  <2>3. load_cache(disk') = pending[t].map
    BY <2>2, LoadIsMap DEF TypeOK, Copy
  <2> QED  BY <2>2, <2>3 DEF DataInv
<1> QED  BY <1>1, <1>2

\* The first exit flush writes, or finds written, what atExit holds.
LEMMA ExitStep ==
  TypeOK /\ LockInv /\ ProcessInv /\ DataInv /\ ExitInv /\ [Next]_vars
    => ExitInv'
<1> SUFFICES ASSUME TypeOK, LockInv, ProcessInv, DataInv, ExitInv, [Next]_vars,
                    process' = "exiting"
             PROVE  ExitInv'
  BY DEF ExitInv
<1> USE DEF stateVars, threadVars, fileVars
<1>types. /\ pc \in [Thread -> {"none", "waiting", "locked", "copied",
                                "written", "renamed"}]
          /\ pending \in [Thread -> [gen : Nat, map : Map]]
          /\ pending[Main].map \in [Key -> Nat]
          /\ snapshots \in [Key -> Nat] /\ atExit \in [Key -> Nat]
          /\ load_cache(disk) \in [Key -> Nat]
          /\ Main \in Thread /\ Main \notin Worker /\ Worker \subseteq Thread
          /\ failures \in Nat /\ exitEvents \in 0 .. 2
  BY DataTypes, ConstantAssumption DEF TypeOK
<1>1. ASSUME NEW k \in Key, cache_successful_output(k) PROVE ExitInv'
  <2>1. /\ process = "exiting"
        /\ snapshots' = [snapshots EXCEPT ![k] = stamp + 1]
        /\ UNCHANGED <<atExit, failures, pending, exitEvents, disk>>
        /\ pc'[Main] = pc[Main]
    BY <1>1, <1>types DEF cache_successful_output, schedule_cache_flush
  <2>2. Below(atExit, snapshots')
    <3> SUFFICES ASSUME NEW j \in Key PROVE atExit[j] <= snapshots'[j]
      BY DEF Below
    <3>1. stamp \in Nat /\ atExit[j] \in Nat /\ snapshots[j] \in Nat
      BY DataTypes
    <3>2. atExit[j] <= snapshots[j] /\ snapshots[j] <= stamp
      BY <2>1 DEF ExitInv, Below, DataInv
    <3>3. snapshots'[j] = IF j = k THEN stamp + 1 ELSE snapshots[j]
      BY <2>1, <1>types
    <3> QED  BY <3>1, <3>2, <3>3
  <2>3. load_cache(disk)' = load_cache(disk)
    BY <2>1 DEF load_cache
  <2> QED  BY <2>1, <2>2, <2>3 DEF ExitInv, Below
<1>2. ASSUME NEW t \in Thread, AcquireWriteLock(t) PROVE ExitInv'
  BY <1>2, <1>types DEF AcquireWriteLock, ExitInv, Below, load_cache
<1>3. ASSUME NEW t \in Thread, pending_cache_write(t) PROVE ExitInv'
  <2>1. /\ process = "exiting" /\ pc[t] = "locked"
        /\ UNCHANGED <<snapshots, atExit, failures, exitEvents, disk>>
        /\ Below(atExit, snapshots)
    BY <1>3 DEF pending_cache_write, ExitInv
  <2>2. load_cache(disk)' = load_cache(disk)
    BY <2>1 DEF load_cache
  <2>3. CASE dirty = flushed
    <3>1. load_cache(disk) = snapshots
      BY <2>3 DEF DataInv
    <3>2. pc'[Main] \notin {"copied", "written", "renamed"} \/ t # Main
      BY <1>3, <2>3, <1>types
         DEF pending_cache_write, ReleaseWriteLock, AfterFlush
    <3>3. t # Main => pc'[Main] = pc[Main] /\ pending'[Main] = pending[Main]
      BY <1>3, <2>3, <1>types DEF pending_cache_write, ReleaseWriteLock
    <3> QED  BY <2>1, <2>2, <3>1, <3>2, <3>3 DEF ExitInv, Below
  <2>4. CASE dirty # flushed
    <3>1. /\ pc' = [pc EXCEPT ![t] = "copied"]
          /\ pending' = [pending EXCEPT ![t] = [gen |-> dirty, map |-> snapshots]]
      BY <1>3, <2>4 DEF pending_cache_write
    <3>2. t = Main => pc'[Main] = "copied" /\ pending'[Main].map = snapshots
      BY <3>1, <1>types
    <3>3. t # Main => pc'[Main] = pc[Main] /\ pending'[Main] = pending[Main]
      BY <3>1, <1>types
    <3> QED  BY <2>1, <2>2, <3>2, <3>3 DEF ExitInv, Below
  <2> QED  BY <2>3, <2>4
<1>4. ASSUME NEW t \in Thread, WriteTemp(t) PROVE ExitInv'
  BY <1>4, <1>types DEF WriteTemp, ExitInv, Below, load_cache
<1>5. ASSUME NEW t \in Thread, RenameTemp(t) PROVE ExitInv'
  <2>1. /\ process = "exiting" /\ pc[t] = "written"
        /\ disk' = pending[t].map
        /\ pc' = [pc EXCEPT ![t] = "renamed"]
        /\ UNCHANGED <<snapshots, atExit, failures, exitEvents, pending>>
    BY <1>5 DEF RenameTemp, DataInv
  <2>2. load_cache(disk)' = pending[t].map
    <3>1. load_cache(disk)' = load_cache(disk')
      BY DEF load_cache
    <3> QED  BY <2>1, <3>1, LoadIsMap DEF TypeOK, Copy
  <2>3. pending[t].map \in [Key -> Nat]
    BY DataTypes
  <2>4. Below(load_cache(disk), pending[t].map)
    BY <2>1 DEF DataInv
  <2>5. Below(atExit, load_cache(disk)) => Below(atExit, pending[t].map)
    BY <1>types, <2>3, <2>4, BelowTransitive
  <2>6. t # Main => pc'[Main] = pc[Main]
    BY <2>1, <1>types
  <2>7. t = Main => pc'[Main] = "renamed" /\ pc[Main] = "written"
    BY <2>1, <1>types
  <2> QED  BY <2>1, <2>2, <2>5, <2>6, <2>7 DEF ExitInv, Below
<1>6. ASSUME NEW t \in Thread, mark_cache_flushed(t) PROVE ExitInv'
  <2>1. /\ process = "exiting" /\ pc[t] = "renamed"
        /\ UNCHANGED <<snapshots, atExit, failures, exitEvents, disk>>
    BY <1>6 DEF mark_cache_flushed
  <2>2. load_cache(disk)' = load_cache(disk)
    BY <2>1 DEF load_cache
  <2>3. load_cache(disk) = pending[t].map
    BY <2>1, LoadIsMap DEF DataInv, TypeOK, Copy
  <2>4. t # Main => pc'[Main] = pc[Main] /\ pending'[Main] = pending[Main]
    BY <1>6, <1>types DEF mark_cache_flushed, ReleaseWriteLock
  <2>5. t = Main => pc'[Main] = "none"
    BY <1>6, <1>types DEF mark_cache_flushed, ReleaseWriteLock, AfterFlush
  <2> QED  BY <2>1, <2>2, <2>3, <2>4, <2>5 DEF ExitInv, Below
<1>7. ASSUME NEW t \in Thread, SaveFails(t) PROVE ExitInv'
  <2>1. /\ process = "exiting"
        /\ failures' # 0
        /\ UNCHANGED <<snapshots, atExit>>
    BY <1>7, <1>types DEF SaveFails
  <2> QED  BY <2>1 DEF ExitInv, Below
<1>8. CASE RequestExit
  <2>1. /\ atExit' = snapshots /\ exitEvents' = 2
        /\ UNCHANGED <<snapshots, pc>>
        /\ pc[Main] = "none"
    BY <1>8 DEF RequestExit, ProcessInv
  <2>2. Below(snapshots, snapshots)
    <3> SUFFICES ASSUME NEW j \in Key PROVE snapshots[j] <= snapshots[j]
      BY DEF Below
    <3>1. snapshots[j] \in Nat
      BY <1>types
    <3> QED  BY <3>1
  <2> QED  BY <2>1, <2>2 DEF ExitInv, Below
<1>9. CASE flush_cache
  <2>1. pc'[Main] = "waiting" /\ UNCHANGED <<process, snapshots, atExit>>
    BY <1>9, <1>types DEF flush_cache
  <2> QED  BY <1>9, <2>1 DEF ExitInv, Below, flush_cache
<1>10. CASE ExitProcess
  BY <1>10 DEF ExitProcess
<1>11. CASE Crash
  BY <1>11 DEF Crash
<1>12. CASE init
  BY <1>12 DEF init, StartedWith
<1>13. CASE UNCHANGED vars
  BY <1>13 DEF vars, ExitInv, Below, load_cache
<1> QED
  BY <1>1, <1>2, <1>3, <1>4, <1>5, <1>6, <1>7, <1>8, <1>9, <1>10, <1>11,
     <1>12, <1>13 DEF Next, Flush
-----------------------------------------------------------------------------
LEMMA InitIInv == Init => IInv
<1> SUFFICES ASSUME Init PROVE IInv
  OBVIOUS
<1>1. load_cache(disk) = EmptyMap /\ snapshots = EmptyMap
  BY LoadIsMap DEF Init
<1>2. TypeOK
  BY InitType
<1>3. LockInv
  BY ConstantAssumption DEF Init, LockInv, Flushing
<1>4. DataInv
  BY <1>1 DEF Init, DataInv, Below, EmptyMap
<1>5. WorkerInv /\ ProcessInv /\ ExitInv
  BY DEF Init, WorkerInv, ProcessInv, ExitInv, Thread
<1> QED  BY <1>2, <1>3, <1>4, <1>5 DEF IInv

LEMMA NextIInv == IInv /\ [Next]_vars => IInv'
BY TypeStep, LockStep, DataStep, WorkerStep, ProcessStep, ExitStep DEF IInv

LEMMA Invariance == Spec => []IInv
BY InitIInv, NextIInv, PTL DEF Spec

\* The write may be skipped, and the process killed without loss, when the
\* generations agree: mark_cache_flushed never records more than the rename
\* of save_cache has made durable.
THEOREM CleanIsDurable == Spec => []CleanMeansDurable
<1>1. IInv => CleanMeansDurable
  BY DEF IInv, DataInv, CleanMeansDurable
<1> QED  BY <1>1, Invariance, PTL

\* No insertion is stranded without a worker: the flag that suppresses the
\* spawn is cleared in the same critical section that finds nothing to flush.
THEOREM NoLostWakeup == Spec => []DirtyHasWorker
<1>1. IInv => DirtyHasWorker
  BY DEF IInv, WorkerInv, DirtyHasWorker
<1> QED  BY <1>1, Invariance, PTL

\* A quit without file errors persists everything cached before it.
THEOREM ExitIsDurable == Spec => []ExitPersists
<1>1. IInv => ExitPersists
  <2> SUFFICES ASSUME IInv, process = "exiting", exitEvents = 0,
                      pc[Main] = "none", failures = 0
               PROVE  \A k \in Key : load_cache(disk)[k] >= atExit[k]
    BY DEF ExitPersists
  <2>1. Below(atExit, load_cache(disk))
    BY DEF IInv, ExitInv
  <2> QED  BY <2>1 DEF Below
<1> QED  BY <1>1, Invariance, PTL

\* The rename never replaces the file by an older copy.
THEOREM DiskIsMonotone == Spec => DiskNeverGoesBack
<1>1. IInv /\ [Next]_vars
        => [\A k \in Key : load_cache(disk')[k] >= load_cache(disk)[k]]_vars
  <2> SUFFICES ASSUME IInv, [Next]_vars
               PROVE  \A k \in Key : load_cache(disk')[k] >= load_cache(disk)[k]
    OBVIOUS
  <2>1. Below(load_cache(disk), load_cache(disk'))
    BY DiskStep DEF IInv
  <2> QED  BY <2>1 DEF Below
<1> QED  BY <1>1, Invariance, PTL DEF Spec, DiskNeverGoesBack

-----------------------------------------------------------------------------
\* The generations count the versions of the map: the newest is what memory
\* holds, a copy is the version of its generation, and the file is the version
\* of the generation recorded, or of the copy that was just renamed.
VersionInv ==
  process # "down" =>
    /\ Len(versions) = dirty + 1
    /\ versions[dirty + 1] = snapshots
    /\ \A t \in Thread : pc[t] \in {"copied", "written", "renamed"} =>
         versions[pending[t].gen + 1] = pending[t].map
    /\ (\A t \in Thread : pc[t] # "renamed") =>
         load_cache(disk) = versions[flushed + 1]

\* A version the map has had is not changed by a later insertion.
LEMMA AppendKeeps ==
  ASSUME NEW s \in Seq(Map), NEW m \in Map
  PROVE  /\ Append(s, m) \in Seq(Map)
         /\ Len(Append(s, m)) = Len(s) + 1
         /\ Append(s, m)[Len(s) + 1] = m
         /\ \A n \in 1 .. Len(s) : Append(s, m)[n] = s[n]
OBVIOUS

LEMMA VersionStep == IInv /\ VersionInv /\ [Next]_vars => VersionInv'
<1> SUFFICES ASSUME IInv, VersionInv, [Next]_vars PROVE VersionInv'
  OBVIOUS
<1> USE DEF stateVars, threadVars, fileVars
<1>types. /\ TypeOK /\ LockInv /\ DataInv /\ ProcessInv
          /\ pc \in [Thread -> {"none", "waiting", "locked", "copied",
                                "written", "renamed"}]
          /\ pending \in [Thread -> [gen : Nat, map : Map]]
          /\ \A t \in Thread : pending[t].gen \in Nat /\ pending[t].map \in Map
          /\ versions \in Seq(Map)
          /\ dirty \in Nat /\ flushed \in Nat /\ flushed <= dirty
  BY DEF IInv, TypeOK, Copy, DataInv
<1>1. ASSUME NEW k \in Key, cache_successful_output(k) PROVE VersionInv'
  <2>1. snapshots' \in Map
    BY <1>1, <1>types, InsertIsMap DEF cache_successful_output
  <2>2. /\ process # "down" /\ versions' = Append(versions, snapshots')
        /\ dirty' = dirty + 1
        /\ UNCHANGED <<process, flushed, pending, disk>>
        /\ \A t \in Thread : pc'[t] # pc[t] => pc[t] = "none" /\ pc'[t] = "waiting"
    BY <1>1, <1>types DEF cache_successful_output, schedule_cache_flush
  <2>3. /\ Len(versions') = dirty' + 1
        /\ versions'[dirty' + 1] = snapshots'
        /\ \A n \in 1 .. Len(versions) : versions'[n] = versions[n]
    BY <2>1, <2>2, <1>types, AppendKeeps DEF VersionInv
  <2>4. ASSUME NEW t \in Thread, pc'[t] \in {"copied", "written", "renamed"}
        PROVE  versions'[pending'[t].gen + 1] = pending'[t].map
    <3>1. pc[t] \in {"copied", "written", "renamed"} /\ pending[t].gen <= dirty
      BY <2>2, <2>4, <1>types DEF DataInv
    <3> QED  BY <2>2, <2>3, <3>1, <1>types DEF VersionInv
  <2>5. ASSUME \A t \in Thread : pc'[t] # "renamed"
        PROVE  load_cache(disk') = versions'[flushed' + 1]
    <3>1. \A t \in Thread : pc[t] # "renamed"
      BY <2>2, <2>5
    <3> QED  BY <2>2, <2>3, <3>1, <1>types DEF VersionInv
  <2> QED  BY <2>3, <2>4, <2>5 DEF VersionInv
<1>2. ASSUME NEW t \in Thread, AcquireWriteLock(t) PROVE VersionInv'
  <2>1. /\ UNCHANGED <<process, snapshots, dirty, flushed, versions, pending, disk>>
        /\ pc[t] = "waiting" /\ pc'[t] = "locked"
        /\ \A u \in Thread \ {t} : pc'[u] = pc[u]
    BY <1>2, <1>types DEF AcquireWriteLock
  <2> QED  BY <2>1 DEF VersionInv
<1>3. ASSUME NEW t \in Thread, pending_cache_write(t) PROVE VersionInv'
  <2>1. /\ UNCHANGED <<process, snapshots, dirty, flushed, versions, disk>>
        /\ pc[t] = "locked" /\ pc'[t] # "renamed"
        /\ \A u \in Thread \ {t} : pc'[u] = pc[u] /\ pending'[u] = pending[u]
        /\ pc'[t] \in {"copied", "written", "renamed"} =>
             pending'[t] = [gen |-> dirty, map |-> snapshots]
    <3>1. CASE dirty = flushed
      BY <1>3, <3>1, <1>types DEF pending_cache_write, ReleaseWriteLock, AfterFlush
    <3>2. CASE dirty # flushed
      BY <1>3, <3>2, <1>types DEF pending_cache_write
    <3> QED  BY <3>1, <3>2
  <2> QED  BY <2>1 DEF VersionInv
<1>4. ASSUME NEW t \in Thread, WriteTemp(t) PROVE VersionInv'
  <2>1. /\ UNCHANGED <<process, snapshots, dirty, flushed, versions, pending, disk>>
        /\ pc[t] = "copied" /\ pc'[t] = "written"
        /\ \A u \in Thread \ {t} : pc'[u] = pc[u]
    BY <1>4, <1>types DEF WriteTemp
  <2> QED  BY <2>1 DEF VersionInv
<1>5. ASSUME NEW t \in Thread, RenameTemp(t) PROVE VersionInv'
  <2>1. /\ UNCHANGED <<process, snapshots, dirty, flushed, versions, pending>>
        /\ pc[t] = "written" /\ pc'[t] = "renamed"
        /\ \A u \in Thread \ {t} : pc'[u] = pc[u]
    BY <1>5, <1>types DEF RenameTemp
  <2> QED  BY <2>1 DEF VersionInv
<1>6. ASSUME NEW t \in Thread, mark_cache_flushed(t) PROVE VersionInv'
  <2>1. /\ UNCHANGED <<process, snapshots, dirty, versions, disk>>
        /\ pc[t] = "renamed" /\ flushed' = pending[t].gen
        /\ pc'[t] \in {"none", "waiting"}
        /\ \A u \in Thread \ {t} : pc'[u] = pc[u] /\ pending'[u] = pending[u]
    BY <1>6, <1>types DEF mark_cache_flushed, ReleaseWriteLock, AfterFlush
  <2>2. load_cache(disk) = pending[t].map
    BY <2>1, <1>types, LoadIsMap DEF DataInv
  <2> QED  BY <2>1, <2>2 DEF VersionInv
<1>7. ASSUME NEW t \in Thread, SaveFails(t) PROVE VersionInv'
  <2>1. /\ UNCHANGED <<process, snapshots, dirty, flushed, versions, disk>>
        /\ pc[t] \in {"copied", "written"}
        /\ pc'[t] \in {"none", "waiting"}
        /\ \A u \in Thread \ {t} : pc'[u] = pc[u] /\ pending'[u] = pending[u]
    BY <1>7, <1>types DEF SaveFails, ReleaseWriteLock, AfterFlush
  <2> QED  BY <2>1 DEF VersionInv
<1>8. CASE RequestExit
  <2>1. process # "down"
        /\ UNCHANGED <<snapshots, dirty, flushed, versions, pending, pc, disk>>
    BY <1>8 DEF RequestExit
  <2> QED  BY <2>1 DEF VersionInv
<1>9. CASE flush_cache
  <2>1. /\ UNCHANGED <<process, snapshots, dirty, flushed, versions, pending, disk>>
        /\ Main \in Thread /\ pc[Main] = "none" /\ pc'[Main] = "waiting"
        /\ \A u \in Thread \ {Main} : pc'[u] = pc[u]
    BY <1>9, <1>types DEF flush_cache, Thread
  <2> QED  BY <2>1 DEF VersionInv
<1>10. CASE ExitProcess
  BY <1>10 DEF ExitProcess, VersionInv
<1>11. CASE Crash
  BY <1>11 DEF Crash, VersionInv
<1>12. CASE init
  <2>1. /\ process = "down" /\ UNCHANGED <<pc, disk>>
        /\ dirty' = 0 /\ flushed' = 0
        /\ snapshots' = load_cache(disk) /\ versions' = <<load_cache(disk)>>
    BY <1>12 DEF init, StartedWith
  <2>2. \A t \in Thread : pc'[t] = "none"
    BY <2>1, <1>types DEF ProcessInv
  <2> QED  BY <2>1, <2>2 DEF VersionInv
<1>13. CASE UNCHANGED vars
  BY <1>13 DEF vars, VersionInv
<1> QED
  BY <1>1, <1>2, <1>3, <1>4, <1>5, <1>6, <1>7, <1>8, <1>9, <1>10, <1>11,
     <1>12, <1>13 DEF Next, Flush

-----------------------------------------------------------------------------
\* The version that the one thread which has just renamed is about to record.
LEMMA SavedByRename ==
  ASSUME NEW c, NEW p, NEW t \in Thread,
         c[t] = "renamed", \A u \in Thread : c[u] = "renamed" => u = t
  PROVE  p[CHOOSE u \in Thread : c[u] = "renamed"].gen + 1 = p[t].gen + 1
<1>1. (CHOOSE u \in Thread : c[u] = "renamed") = t
  OBVIOUS
<1> QED  BY <1>1

\* Insertions, locks, copies and failures leave the durable copy alone.
LEMMA SavedStays ==
  ASSUME IInv, UNCHANGED <<process, flushed, disk>>,
         \A t \in Thread : pc'[t] = "renamed" <=> pc[t] = "renamed",
         \A t \in Thread : pc[t] = "renamed" => pending'[t] = pending[t]
  PROVE  SavedVersion' = SavedVersion /\ load_cache(disk)' = load_cache(disk)
<1>1. load_cache(disk)' = load_cache(disk)
  BY DEF load_cache
<1>2. CASE \E t \in Thread : pc[t] = "renamed"
  <2>1. PICK t \in Thread : pc[t] = "renamed"
    BY <1>2
  <2>2. \A u \in Thread : pc[u] = "renamed" => u = t
    BY <2>1 DEF IInv, LockInv, Flushing
  <2>3. pending[CHOOSE u \in Thread : pc[u] = "renamed"].gen + 1 = pending[t].gen + 1
    BY <2>1, <2>2, SavedByRename
  <2>4. pending'[CHOOSE u \in Thread : pc'[u] = "renamed"].gen + 1 = pending'[t].gen + 1
    BY <2>1, <2>2, SavedByRename
  <2>5. pending'[t].gen + 1 = pending[t].gen + 1
    BY <2>1
  <2>6. \E u \in Thread : pc'[u] = "renamed"
    BY <2>1
  <2>7. process # "down"
    BY <2>1 DEF IInv, ProcessInv
  <2>8. SavedVersion = pending[t].gen + 1
    BY <1>2, <2>3, <2>7 DEF SavedVersion
  <2>9. SavedVersion' = pending'[t].gen + 1
    BY <2>4, <2>6, <2>7 DEF SavedVersion
  <2> QED  BY <1>1, <2>5, <2>8, <2>9
<1>3. CASE ~ \E t \in Thread : pc[t] = "renamed"
  <2>1. ~ \E t \in Thread : pc'[t] = "renamed"
    BY <1>3
  <2> QED  BY <1>1, <1>3, <2>1 DEF SavedVersion
<1> QED  BY <1>2, <1>3

LEMMA StepImplements ==
  IInv /\ VersionInv /\ VersionInv' /\ [Next]_vars
    => [Abstract!Next]_(Abstract!vars)
<1> SUFFICES ASSUME IInv, VersionInv, VersionInv', [Next]_vars
             PROVE  [Abstract!Next]_(Abstract!vars)
  OBVIOUS
<1> USE DEF stateVars, threadVars, fileVars
<1>types. /\ TypeOK /\ LockInv /\ DataInv /\ ProcessInv
          /\ pc \in [Thread -> {"none", "waiting", "locked", "copied",
                                "written", "renamed"}]
          /\ pending \in [Thread -> [gen : Nat, map : Map]]
          /\ \A t \in Thread : pending[t].gen \in Nat /\ pending[t].map \in Map
          /\ versions \in Seq(Map)
          /\ dirty \in Nat /\ flushed \in Nat /\ flushed <= dirty
  BY DEF IInv, TypeOK, Copy, DataInv
<1>stutter. ASSUME UNCHANGED <<process, versions, flushed, disk>>,
                   \A t \in Thread : pc'[t] = "renamed" <=> pc[t] = "renamed",
                   \A t \in Thread : pc[t] = "renamed" => pending'[t] = pending[t]
            PROVE  [Abstract!Next]_(Abstract!vars)
  <2>1. SavedVersion' = SavedVersion /\ load_cache(disk)' = load_cache(disk)
    BY <1>stutter, SavedStays
  <2> QED  BY <1>stutter, <2>1 DEF Abstract!vars
<1>1. ASSUME NEW k \in Key, cache_successful_output(k)
      PROVE  [Abstract!Next]_(Abstract!vars)
  <2>1. /\ process # "down" /\ versions' = Append(versions, snapshots')
        /\ snapshots' = [snapshots EXCEPT ![k] = stamp + 1]
        /\ UNCHANGED <<process, flushed, pending, disk>>
        /\ \A t \in Thread : pc'[t] = "renamed" <=> pc[t] = "renamed"
    BY <1>1, <1>types DEF cache_successful_output, schedule_cache_flush
  <2>2. SavedVersion' = SavedVersion /\ load_cache(disk)' = load_cache(disk)
    BY <2>1, SavedStays DEF IInv
  <2>3. versions[Len(versions)] = snapshots
    BY <2>1 DEF VersionInv
  <2>4. stamp + 1 \in Snapshot
    BY <1>1, <1>types, InsertIsMap DEF cache_successful_output
  <2>5. Abstract!Put(k, stamp + 1)
    BY <2>1, <2>2, <2>3 DEF Abstract!Put, Abstract!Current
  <2> QED  BY <2>4, <2>5 DEF Abstract!Next
<1>2. ASSUME NEW t \in Thread, AcquireWriteLock(t)
      PROVE  [Abstract!Next]_(Abstract!vars)
  BY <1>2, <1>types, <1>stutter DEF AcquireWriteLock
<1>3. ASSUME NEW t \in Thread, pending_cache_write(t)
      PROVE  [Abstract!Next]_(Abstract!vars)
  BY <1>3, <1>types, <1>stutter
     DEF pending_cache_write, ReleaseWriteLock, AfterFlush
<1>4. ASSUME NEW t \in Thread, WriteTemp(t) PROVE [Abstract!Next]_(Abstract!vars)
  BY <1>4, <1>types, <1>stutter DEF WriteTemp
<1>5. ASSUME NEW t \in Thread, RenameTemp(t) PROVE [Abstract!Next]_(Abstract!vars)
  <2>1. /\ UNCHANGED <<process, flushed, versions, pending>>
        /\ pc[t] = "written" /\ pc'[t] = "renamed"
        /\ \A u \in Thread \ {t} : pc'[u] = pc[u]
        /\ disk' = pending[t].map
    BY <1>5, <1>types DEF RenameTemp, DataInv
  <2>2. \A u \in Thread : pc[u] = "renamed" => u = t
    BY <2>1 DEF IInv, LockInv, Flushing
  <2>3. ~ \E u \in Thread : pc[u] = "renamed"
    BY <2>1, <2>2
  <2>4. process # "down"
    BY <2>1, <1>types DEF ProcessInv
  <2>5. SavedVersion = flushed + 1
    BY <2>3, <2>4 DEF SavedVersion
  <2>6. pending'[CHOOSE u \in Thread : pc'[u] = "renamed"].gen + 1 = pending'[t].gen + 1
    BY <2>1, <2>2, SavedByRename
  <2>7. SavedVersion' = pending[t].gen + 1
    BY <2>1, <2>4, <2>6 DEF SavedVersion
  <2>8. load_cache(disk)' = versions[pending[t].gen + 1]
    BY <2>1, <2>4, <1>types, LoadIsMap DEF VersionInv
  <2>9. pending[t].gen + 1 \in SavedVersion + 1 .. Len(versions)
    BY <2>1, <2>4, <2>5, <1>types DEF DataInv, VersionInv
  <2>10. Abstract!Persist
    BY <2>1, <2>4, <2>7, <2>8, <2>9 DEF Abstract!Persist
  <2> QED  BY <2>10 DEF Abstract!Next
<1>6. ASSUME NEW t \in Thread, mark_cache_flushed(t)
      PROVE  [Abstract!Next]_(Abstract!vars)
  <2>1. /\ UNCHANGED <<process, versions, disk>>
        /\ pc[t] = "renamed" /\ flushed' = pending[t].gen
        /\ pc'[t] \in {"none", "waiting"}
        /\ \A u \in Thread \ {t} : pc'[u] = pc[u]
    BY <1>6, <1>types DEF mark_cache_flushed, ReleaseWriteLock, AfterFlush
  <2>2. \A u \in Thread : pc[u] = "renamed" => u = t
    BY <2>1 DEF IInv, LockInv, Flushing
  <2>3. ~ \E u \in Thread : pc'[u] = "renamed"
    BY <2>1, <2>2
  <2>4. process # "down"
    BY <2>1, <1>types DEF ProcessInv
  <2>5. pending[CHOOSE u \in Thread : pc[u] = "renamed"].gen + 1 = pending[t].gen + 1
    BY <2>1, <2>2, SavedByRename
  <2>6. SavedVersion = pending[t].gen + 1
    BY <2>1, <2>4, <2>5 DEF SavedVersion
  <2>7. SavedVersion' = pending[t].gen + 1
    BY <2>1, <2>3, <2>4 DEF SavedVersion
  <2>8. load_cache(disk)' = load_cache(disk)
    BY <2>1 DEF load_cache
  <2> QED  BY <2>1, <2>6, <2>7, <2>8 DEF Abstract!vars
<1>7. ASSUME NEW t \in Thread, SaveFails(t) PROVE [Abstract!Next]_(Abstract!vars)
  BY <1>7, <1>types, <1>stutter DEF SaveFails, ReleaseWriteLock, AfterFlush
<1>8. CASE RequestExit
  <2>1. /\ process # "down" /\ process' # "down"
        /\ UNCHANGED <<flushed, versions, pending, pc, disk>>
    BY <1>8 DEF RequestExit
  <2>2. SavedVersion' = SavedVersion /\ load_cache(disk)' = load_cache(disk)
    BY <2>1 DEF SavedVersion, load_cache
  <2> QED  BY <2>1, <2>2 DEF Abstract!vars
<1>9. CASE flush_cache
  BY <1>9, <1>types, <1>stutter DEF flush_cache, Thread
<1>10. ASSUME process # "down", process' = "down", UNCHANGED <<versions, disk>>,
              \A t \in Thread : pc'[t] = "none"
       PROVE  [Abstract!Next]_(Abstract!vars)
  <2>1. SavedVersion' = 0 /\ load_cache(disk)' = load_cache(disk)
    BY <1>10 DEF SavedVersion, load_cache
  <2>2. Abstract!End
    BY <1>10, <2>1 DEF Abstract!End
  <2> QED  BY <2>2 DEF Abstract!Next
<1>11. CASE ExitProcess
  BY <1>10, <1>11 DEF ExitProcess, ThreadsGone
<1>12. CASE Crash
  BY <1>10, <1>12 DEF Crash, ThreadsGone
<1>13. CASE init
  <2>1. /\ process = "down" /\ process' = "up" /\ UNCHANGED <<pc, disk>>
        /\ flushed' = 0 /\ versions' = <<load_cache(disk)>>
    BY <1>13 DEF init, StartedWith
  <2>2. ~ \E t \in Thread : pc'[t] = "renamed"
    BY <2>1, <1>types DEF ProcessInv
  <2>3. SavedVersion' = 1 /\ load_cache(disk)' = load_cache(disk)
    BY <2>1, <2>2 DEF SavedVersion, load_cache
  <2>4. Abstract!Begin
    BY <2>1, <2>3 DEF Abstract!Begin
  <2> QED  BY <2>4 DEF Abstract!Next
<1>14. CASE UNCHANGED vars
  BY <1>14, <1>types, <1>stutter DEF vars
<1> QED
  BY <1>1, <1>2, <1>3, <1>4, <1>5, <1>6, <1>7, <1>8, <1>9, <1>11, <1>12,
     <1>13, <1>14 DEF Next, Flush

\* Whatever threads, failures and deaths interleave, the file is a version
\* the map has had since the start of the process, moves only forward among
\* them, and is what the next process starts from: the cache implements the
\* durable map (the safety part of ImplementsFairDurableMap).
THEOREM CacheImplementsMap == Spec => Abstract!Spec
<1>1. Init => Abstract!Init /\ VersionInv
  <2> SUFFICES ASSUME Init PROVE Abstract!Init /\ VersionInv
    OBVIOUS
  <2>1. load_cache(disk) = EmptyMap /\ snapshots = EmptyMap
    BY LoadIsMap DEF Init
  <2>2. SavedVersion = 1
    BY DEF Init, SavedVersion
  <2>3. VersionInv
    BY <2>1 DEF Init, VersionInv
  <2> QED  BY <2>1, <2>2, <2>3 DEF Init, Abstract!Init, EmptyMap
<1>2. VersionInv /\ IInv /\ [Next]_vars => VersionInv'
  BY VersionStep
<1>3. IInv /\ VersionInv /\ VersionInv' /\ [Next]_vars
        => [Abstract!Next]_(Abstract!vars)
  BY StepImplements
<1> QED  BY <1>1, <1>2, <1>3, Invariance, PTL DEF Spec, Abstract!Spec
=============================================================================
