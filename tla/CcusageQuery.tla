---------------------------- MODULE CcusageQuery ----------------------------
(***************************************************************************)
(* The query of the local usage logs, run_ccusage_query of host_api.rs.    *)
(* It may take longer than a probe has, and a thread cannot be killed: the *)
(* query waits for a worker thread until its timeout, and then asks the    *)
(* worker to stop by a flag that all queries of a provider share.  A guard *)
(* that the worker holds admits one load of a provider at a time.          *)
(***************************************************************************)
EXTENDS FiniteSets, Naturals

CONSTANT Query   \* queries of one provider; each has its worker

VARIABLES
    reader,  \* the provider: claude's loader keeps what it has read when it
             \*   stops within a file, codex's returns an error
    guard,   \* CCUSAGE_ACTIVE_PROVIDERS holds the provider
    cancel,  \* CLAUDE_CANCEL, CODEX_CANCEL
    caller,  \* query -> idle, begins, waits, late (timed out), done
    worker,  \* query -> none, loads, sends, clears, drops, ended, panicked
    result,  \* query -> what the worker sends: none, all, part, failed, cancelled
    answer,  \* query -> what the script gets
    overrun  \* history: a query set the flag under the load of another

queryVars == <<reader, guard, cancel, caller, worker, result, answer, overrun>>

QueryInit ==
    /\ reader \in {"claude", "codex"}
    /\ guard = FALSE /\ cancel = FALSE /\ overrun = FALSE
    /\ caller = [q \in Query |-> "idle"]
    /\ worker = [q \in Query |-> "none"]
    /\ result = [q \in Query |-> "none"]
    /\ answer = [q \in Query |-> "none"]

Over(q) == worker[q] \in {"none", "ended", "panicked"}

Answers(q, what) ==
    caller' = [caller EXCEPT ![q] = "done"] /\ answer' = [answer EXCEPT ![q] = what]

\* A second query of the provider fails instead of waiting, and so does one
\* whose probe has no time left.
run_ccusage_query(q) ==
    /\ caller[q] \in {"idle", "done"} /\ Over(q)
    /\ \/ Answers(q, "failed") /\ UNCHANGED guard
       \/ /\ ~guard /\ guard' = TRUE
          /\ caller' = [caller EXCEPT ![q] = "begins"]
          /\ answer' = [answer EXCEPT ![q] = "none"]
    /\ UNCHANGED <<reader, cancel, worker, result, overrun>>

Spawn(q) ==
    /\ caller[q] = "begins"
    /\ caller' = [caller EXCEPT ![q] = "waits"]
    /\ worker' = [worker EXCEPT ![q] = "loads"]
    /\ result' = [result EXCEPT ![q] = "none"]
    /\ UNCHANGED <<reader, guard, answer, overrun>>

\* The flag is left as it was found.
StartLoad_Inherits(q) == Spawn(q) /\ UNCHANGED cancel

\* A stale flag is cleared; it may be left by a worker that panicked.
StartLoad(q) == Spawn(q) /\ cancel' = FALSE

Received(q) ==
    /\ caller[q] = "waits"
    /\ \/ result[q] # "none" /\ worker[q] \in {"clears", "drops", "ended"} /\ Answers(q, result[q])
       \/ worker[q] = "panicked" /\ Answers(q, "failed")
    /\ UNCHANGED <<reader, guard, cancel, worker, result, overrun>>

TimedOut(q) ==
    /\ caller[q] = "waits" /\ worker[q] \in {"loads", "sends"}
    /\ caller' = [caller EXCEPT ![q] = "late"]
    /\ UNCHANGED <<reader, guard, cancel, worker, result, answer, overrun>>

set_provider_cancel(q) ==
    /\ caller[q] = "late"
    /\ cancel' = TRUE /\ Answers(q, "failed")
    /\ overrun' = (overrun \/ \E r \in Query \ {q} : ~Over(r))
    /\ UNCHANGED <<reader, guard, worker, result>>

(***************************************************************************)
(* The worker                                                              *)
(***************************************************************************)
Step(q, from, to) == worker[q] = from /\ worker' = [worker EXCEPT ![q] = to]

\* The loader looks at the flag before it reads the files and within them.
Loaded(q) ==
    /\ Step(q, "loads", "sends")
    /\ \E what \in {"all", "failed"} \cup
                   (IF ~cancel THEN {}
                    ELSE {"cancelled"} \cup (IF reader = "claude" THEN {"part"} ELSE {})) :
          result' = [result EXCEPT ![q] = what]
    /\ UNCHANGED <<reader, guard, cancel, caller, answer, overrun>>

Send(q) ==
    /\ Step(q, "sends", "clears")
    /\ UNCHANGED <<reader, guard, cancel, caller, result, answer, overrun>>

ClearFlag(q) ==
    /\ Step(q, "clears", "drops") /\ cancel' = FALSE
    /\ UNCHANGED <<reader, guard, caller, result, answer, overrun>>

DropGuard(q) ==
    /\ Step(q, "drops", "ended") /\ guard' = FALSE
    /\ UNCHANGED <<reader, cancel, caller, result, answer, overrun>>

\* Unwinding drops the guard and the channel, and leaves the flag.
WorkerPanics(q) ==
    /\ Step(q, "loads", "panicked") /\ guard' = FALSE
    /\ UNCHANGED <<reader, cancel, caller, result, answer, overrun>>

QueryNext ==
    \E q \in Query :
        \/ run_ccusage_query(q) \/ StartLoad(q) \/ Received(q) \/ TimedOut(q)
        \/ set_provider_cancel(q)
        \/ Loaded(q) \/ Send(q) \/ ClearFlag(q) \/ DropGuard(q) \/ WorkerPanics(q)

QuerySpec == QueryInit /\ [][QueryNext]_queryVars

(***************************************************************************)
(* A provider has one load at a time, although loads outlive their         *)
(* queries, and a script is never given what a load had read when it was   *)
(* stopped, nor the failure of a load that was stopped for another query:  *)
(* no query inherits the flag of an earlier one.  Excepted is a query that *)
(* times out just as its load ends, and sets the flag for the next one.    *)
(***************************************************************************)
LoadsAreTheirOwn ==
    /\ Cardinality({q \in Query : ~Over(q)}) <= 1
    /\ ~overrun => \A q \in Query : answer[q] \notin {"part", "cancelled"}
=============================================================================
