----------------------------- MODULE UsageCache -----------------------------
(***************************************************************************)
(* The write-behind cache of successful probe outputs                      *)
(* (src-tauri/src/local_http_api/cache.rs).                                *)
(*                                                                         *)
(* Probe threads insert snapshots into one in-memory map and bump a dirty  *)
(* generation.  A debounced worker thread, spawned on demand, copies the   *)
(* map under the state lock, writes it to a temporary file, renames it     *)
(* over usage-api-cache.json and records the generation it copied.  The    *)
(* main thread runs the same flush when the application exits.  A second   *)
(* lock serialises the flushes.                                            *)
(*                                                                         *)
(* A snapshot is represented by its stamp: the position of its insertion   *)
(* in the sequence of insertions the running process has knowledge of.     *)
(* Sleeps and the exponential retry delay are not timed: a sleeping worker *)
(* may wake at any moment.                                                 *)
(***************************************************************************)
EXTENDS Naturals, Sequences

CONSTANTS
  Key,        \* cache keys: "provider" or "provider::account"
  Worker,     \* identities available for debounced worker threads
  Main,       \* the main thread, which flushes on exit
  Missing,    \* a file that does not exist
  Garbled,    \* a file that cannot be parsed, or of another version
  MaxStamp,   \* bound: insertions along a behaviour
  MaxFailure  \* bound: failing file operations along a behaviour

VARIABLES
  process,     \* "up", "exiting" (ExitRequested or Exit is handled), "down"
  snapshots,   \* CacheState.snapshots
  dirty,       \* CacheState.dirty_generation
  flushed,     \* CacheState.flushed_generation
  scheduled,   \* CacheState.flush_scheduled
  writeLock,   \* the holder of cache_write_lock, or "free"
  pc,          \* the control state of each flushing thread
  pending,     \* the (generation, snapshots) copy each flushing thread made
  disk,        \* contents of usage-api-cache.json
  tmp,         \* contents of .usage-api-cache.json.tmp
  exitEvents,  \* run events of the exit still to be handled by Main
  stamp,       \* history: the last stamp handed out
  versions,    \* history: the values of snapshots since cache::init, in order
  atExit,      \* history: the snapshots when the exit was requested
  failures     \* history: file operations that failed so far

stateVars  == <<snapshots, dirty, flushed, scheduled>>
threadVars == <<writeLock, pc, pending>>
fileVars   == <<disk, tmp>>
vars == <<process, stateVars, threadVars, fileVars, exitEvents, stamp, versions,
          atExit, failures>>

Thread   == Worker \cup {Main}
Snapshot == 0 .. MaxStamp                 \* 0: the map has no such key
Map      == [Key -> Snapshot]
EmptyMap == [k \in Key |-> 0]
File     == Map \cup {Missing, Garbled}
Copy     == [gen : Nat, map : Map]
NoCopy   == [gen |-> 0, map |-> EmptyMap]

ASSUME ConstantAssumption ==
  /\ Main \notin Worker
  /\ "free" \notin Thread
  /\ Missing \notin Map
  /\ Garbled \notin Map
  /\ MaxStamp \in Nat
  /\ MaxFailure \in Nat

\* Readers and the loader see an absent or unreadable file as an empty map.
load_cache(file) == IF file \in {Missing, Garbled} THEN EmptyMap ELSE file

\* cache::init, and the thread-free process it runs in.
StartedWith(file) ==
  /\ process' = "up"
  /\ snapshots' = load_cache(file)
  /\ versions' = <<load_cache(file)>>
  /\ dirty' = 0
  /\ flushed' = 0
  /\ scheduled' = FALSE

Init ==
  /\ process = "up"
  /\ disk \in {Missing, Garbled}
  /\ tmp = Missing
  /\ snapshots = load_cache(disk)
  /\ dirty = 0
  /\ flushed = 0
  /\ scheduled = FALSE
  /\ writeLock = "free"
  /\ pc = [t \in Thread |-> "none"]
  /\ pending = [t \in Thread |-> NoCopy]
  /\ exitEvents = 0
  /\ stamp = 0
  /\ versions = <<snapshots>>
  /\ atExit = EmptyMap
  /\ failures = 0
-----------------------------------------------------------------------------
\* schedule_cache_flush_locked: spawn a worker unless one is scheduled.
schedule_cache_flush ==
  IF scheduled
  THEN UNCHANGED <<scheduled, pc>>
  ELSE /\ scheduled' = TRUE
       /\ \E w \in Worker : /\ pc[w] = "none"
                            /\ pc' = [pc EXCEPT ![w] = "waiting"]

cache_successful_output(k) ==
  /\ process # "down"
  /\ stamp < MaxStamp
  /\ stamp' = stamp + 1
  /\ snapshots' = [snapshots EXCEPT ![k] = stamp + 1]
  /\ versions' = Append(versions, snapshots')
  /\ dirty' = dirty + 1
  /\ schedule_cache_flush
  /\ UNCHANGED <<process, flushed, writeLock, pending, fileVars, exitEvents,
                 atExit, failures>>
-----------------------------------------------------------------------------
\* Mutant: the worker returns after one flush, scheduled or not.
AfterFlush_NoLoop(t, idle) == "none"

\* Where a thread continues after flush_pending_cache_once: the worker loops
\* unless the flush was idle, the main thread returns to the event loop.
AfterFlush(t, idle) ==
  IF t # Main /\ ~idle THEN "waiting" ELSE "none"

\* Mutant: flushes are not serialised.
AcquireWriteLock_NoLock(t) ==
  /\ pc[t] = "waiting"
  /\ writeLock' = t
  /\ pc' = [pc EXCEPT ![t] = "locked"]
  /\ UNCHANGED <<process, stateVars, pending, fileVars, exitEvents, stamp,
                 versions, atExit, failures>>

\* The guard of cache_write_lock.
AcquireWriteLock(t) ==
  /\ pc[t] = "waiting"
  /\ writeLock = "free"
  /\ writeLock' = t
  /\ pc' = [pc EXCEPT ![t] = "locked"]
  /\ UNCHANGED <<process, stateVars, pending, fileVars, exitEvents, stamp, versions,
                 atExit, failures>>

\* The guard is dropped when flush_pending_cache_once returns.
ReleaseWriteLock(t, idle) ==
  /\ writeLock' = "free"
  /\ pc' = [pc EXCEPT ![t] = AfterFlush(t, idle)]
  /\ pending' = [pending EXCEPT ![t] = NoCopy]

\* Mutant: an idle worker returns without clearing flush_scheduled.
pending_cache_write_KeepsFlag(t) ==
  /\ pc[t] = "locked"
  /\ IF dirty = flushed
     THEN ReleaseWriteLock(t, TRUE)
     ELSE /\ pc' = [pc EXCEPT ![t] = "copied"]
          /\ pending' = [pending EXCEPT ![t] = [gen |-> dirty, map |-> snapshots]]
          /\ UNCHANGED writeLock
  /\ UNCHANGED <<process, stateVars, fileVars, exitEvents, stamp, versions,
                 atExit, failures>>

pending_cache_write(t) ==
  /\ pc[t] = "locked"
  /\ IF dirty = flushed
     THEN /\ scheduled' = FALSE
          /\ ReleaseWriteLock(t, TRUE)
     ELSE /\ pc' = [pc EXCEPT ![t] = "copied"]
          /\ pending' = [pending EXCEPT ![t] = [gen |-> dirty, map |-> snapshots]]
          /\ UNCHANGED <<scheduled, writeLock>>
  /\ UNCHANGED <<process, snapshots, dirty, flushed, fileVars, exitEvents,
                 stamp, versions, atExit, failures>>

\* save_cache, the write of the temporary file.
WriteTemp(t) ==
  /\ pc[t] = "copied"
  /\ tmp' = pending[t].map
  /\ pc' = [pc EXCEPT ![t] = "written"]
  /\ UNCHANGED <<process, stateVars, writeLock, pending, disk, exitEvents,
                 stamp, versions, atExit, failures>>

\* save_cache, the rename over the cache file.
RenameTemp(t) ==
  /\ pc[t] = "written"
  /\ tmp # Missing
  /\ disk' = tmp
  /\ tmp' = Missing
  /\ pc' = [pc EXCEPT ![t] = "renamed"]
  /\ UNCHANGED <<process, stateVars, writeLock, pending, exitEvents, stamp, versions,
                 atExit, failures>>

\* Mutant: the generation of now is recorded, not the one that was copied.
mark_cache_flushed_Current(t) ==
  /\ pc[t] = "renamed"
  /\ flushed' = dirty
  /\ ReleaseWriteLock(t, FALSE)
  /\ UNCHANGED <<process, snapshots, dirty, scheduled, fileVars, exitEvents,
                 stamp, versions, atExit, failures>>

mark_cache_flushed(t) ==
  /\ pc[t] = "renamed"
  /\ flushed' = pending[t].gen
  /\ ReleaseWriteLock(t, FALSE)
  /\ UNCHANGED <<process, snapshots, dirty, scheduled, fileVars, exitEvents,
                 stamp, versions, atExit, failures>>

\* Mutant: the worker gives up after a failure.
SaveFails_GivesUp(t) ==
  /\ failures < MaxFailure
  /\ failures' = failures + 1
  /\ pc[t] \in {"copied", "written"}
  /\ ReleaseWriteLock(t, TRUE)
  /\ UNCHANGED <<process, stateVars, fileVars, exitEvents, stamp, versions,
                 atExit>>

\* save_cache fails: the write (which may leave half a file) or the rename.
SaveFails(t) ==
  /\ failures < MaxFailure
  /\ failures' = failures + 1
  /\ \/ pc[t] = "copied"  /\ tmp' \in {tmp, Garbled}
     \/ pc[t] = "written" /\ tmp' = tmp
  /\ ReleaseWriteLock(t, FALSE)
  /\ UNCHANGED <<process, stateVars, disk, exitEvents, stamp, versions, atExit>>
-----------------------------------------------------------------------------
\* The user quits: RunEvent::ExitRequested and then RunEvent::Exit reach Main.
RequestExit ==
  /\ process = "up"
  /\ process' = "exiting"
  /\ exitEvents' = 2
  /\ atExit' = snapshots
  /\ UNCHANGED <<stateVars, threadVars, fileVars, stamp, versions, failures>>

\* Mutant: the exit flush is left to a worker when one is scheduled.
flush_cache_Delegates ==
  /\ process = "exiting"
  /\ pc[Main] = "none"
  /\ exitEvents > 0
  /\ exitEvents' = exitEvents - 1
  /\ pc' = [pc EXCEPT ![Main] = IF scheduled THEN "none" ELSE "waiting"]
  /\ UNCHANGED <<process, stateVars, writeLock, pending, fileVars, stamp,
                 versions, atExit, failures>>

\* Each of the two events calls flush_cache.
flush_cache ==
  /\ process = "exiting"
  /\ pc[Main] = "none"
  /\ exitEvents > 0
  /\ exitEvents' = exitEvents - 1
  /\ pc' = [pc EXCEPT ![Main] = "waiting"]
  /\ UNCHANGED <<process, stateVars, writeLock, pending, fileVars, stamp, versions,
                 atExit, failures>>

\* What the end of the process leaves: no thread, no lock, and whatever a
\* write that was under way had put in the temporary file.
ThreadsGone ==
  /\ writeLock' = "free"
  /\ pc' = [t \in Thread |-> "none"]
  /\ pending' = [t \in Thread |-> NoCopy]
  /\ IF \E t \in Thread : pc[t] = "copied" THEN tmp' \in {tmp, Garbled}
                                           ELSE tmp' = tmp

\* The process ends after both events are handled; workers die with it.
ExitProcess ==
  /\ process = "exiting"
  /\ exitEvents = 0
  /\ pc[Main] = "none"
  /\ process' = "down"
  /\ ThreadsGone
  /\ UNCHANGED <<stateVars, disk, exitEvents, stamp, versions, atExit, failures>>

\* The process is killed at any point.
Crash ==
  /\ process # "down"
  /\ process' = "down"
  /\ exitEvents' = 0
  /\ atExit' = EmptyMap
  /\ ThreadsGone
  /\ UNCHANGED <<stateVars, disk, stamp, versions, failures>>

\* The application is launched again: run() calls cache::init.
init ==
  /\ process = "down"
  /\ StartedWith(disk)
  /\ atExit' = EmptyMap
  /\ UNCHANGED <<threadVars, fileVars, exitEvents, stamp, failures>>
-----------------------------------------------------------------------------
Flush(t) ==
  \/ AcquireWriteLock(t)
  \/ pending_cache_write(t)
  \/ WriteTemp(t)
  \/ RenameTemp(t)
  \/ mark_cache_flushed(t)

Next ==
  \/ \E k \in Key : cache_successful_output(k)
  \/ \E t \in Thread : Flush(t) \/ SaveFails(t)
  \/ RequestExit
  \/ flush_cache
  \/ ExitProcess
  \/ Crash
  \/ init

Spec == Init /\ [][Next]_vars

\* A thread that can take a step eventually takes it, and a thread waiting
\* for the write lock eventually gets it although others take it in between.
Fairness ==
  \A t \in Thread :
    /\ WF_vars(pending_cache_write(t) \/ WriteTemp(t) \/ RenameTemp(t)
               \/ mark_cache_flushed(t))
    /\ SF_vars(AcquireWriteLock(t))

FairSpec == Spec /\ Fairness
-----------------------------------------------------------------------------
TypeOK ==
  /\ process \in {"up", "exiting", "down"}
  /\ snapshots \in Map
  /\ dirty \in Nat
  /\ flushed \in Nat
  /\ scheduled \in BOOLEAN
  /\ writeLock \in Thread \cup {"free"}
  /\ pc \in [Thread -> {"none", "waiting", "locked", "copied", "written",
                        "renamed"}]
  /\ pending \in [Thread -> Copy]
  /\ disk \in File
  /\ tmp \in File
  /\ exitEvents \in 0 .. 2
  /\ stamp \in Snapshot
  /\ versions \in Seq(Map)
  /\ atExit \in Map
  /\ failures \in 0 .. MaxFailure

\* When the two generations agree, nothing is lost if the process is killed:
\* the file holds exactly the snapshots in memory.  It is what lets
\* pending_cache_write skip the write.
CleanMeansDurable ==
  process # "down" /\ dirty = flushed => load_cache(disk) = snapshots

\* An insertion is never stranded: while some insertion is not flushed, a
\* worker thread is alive that has not yet decided to return.
DirtyHasWorker ==
  process # "down" /\ dirty # flushed => \E w \in Worker : pc[w] # "none"

\* Quitting loses nothing that was cached before the quit: when the process
\* has handled both exit events and no file operation ever failed, the file
\* holds every snapshot that was cached when the exit was requested, or a
\* newer one for the same key.
ExitPersists ==
  process = "exiting" /\ exitEvents = 0 /\ pc[Main] = "none" /\ failures = 0
    => \A k \in Key : load_cache(disk)[k] >= atExit[k]

\* The cache file never goes back: once it holds a snapshot of a key it
\* never holds an older one or none, whatever threads flush, fail or are
\* killed, in this process or a later one.
DiskNeverGoesBack ==
  [][\A k \in Key : load_cache(disk')[k] >= load_cache(disk)[k]]_vars

\* Failed writes are retried until the snapshot, or a newer one for the same
\* key, is in the file, unless the process ends first.
InsertedIsPersisted ==
  \A k \in Key, s \in 1 .. MaxStamp :
    snapshots[k] = s /\ process # "down"
      ~> load_cache(disk)[k] >= s \/ process = "down"
-----------------------------------------------------------------------------
\* How far the file is in the versions of this process: the generation the
\* thread that has just renamed is about to record, else the recorded one.
SavedVersion ==
  CASE process = "down" -> 0
    [] \E t \in Thread : pc[t] = "renamed" ->
         pending[CHOOSE t \in Thread : pc[t] = "renamed"].gen + 1
    [] OTHER -> flushed + 1

\* The cache implements a map whose durable copy is always one of the
\* versions the map has had, moves only forward, and is what a restart
\* continues from, and which, failures being finite, keeps being made durable.
Abstract == INSTANCE DurableMap WITH
  Value   <- Snapshot,
  Absent  <- 0,
  alive   <- process # "down",
  durable <- load_cache(disk),
  saved   <- SavedVersion

\* The whole contract, its fairness included.
ImplementsFairDurableMap == Abstract!FairSpec
=============================================================================
