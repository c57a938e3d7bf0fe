----------------------------- MODULE DurableMap -----------------------------
(***************************************************************************)
(* What the usage cache promises to the parts that insert into it and to   *)
(* the next launch of the application: a map with a durable copy.  The     *)
(* copy may lag, but it is always a version the whole map has had (never a *)
(* mixture of two), it never goes back, and a restart continues from it.   *)
(***************************************************************************)
EXTENDS Naturals, Sequences

CONSTANTS
  Key,     \* the keys of the map
  Value,   \* the values a key can have
  Absent   \* the value of a key the map does not hold

VARIABLES
  alive,     \* a process is running
  versions,  \* the versions the map has had in this process, newest last
  saved,     \* the position in versions of the durable copy, 0 if not alive
  durable    \* the durable copy

vars == <<alive, versions, saved, durable>>

Current == versions[Len(versions)]

Init ==
  /\ alive = TRUE
  /\ versions = <<[k \in Key |-> Absent]>>
  /\ saved = 1
  /\ durable = [k \in Key |-> Absent]

Put(k, v) ==
  /\ alive
  /\ versions' = Append(versions, [Current EXCEPT ![k] = v])
  /\ UNCHANGED <<alive, saved, durable>>

Persist ==
  /\ alive
  /\ \E n \in saved + 1 .. Len(versions) : /\ saved' = n
                                           /\ durable' = versions[n]
  /\ UNCHANGED <<alive, versions>>

End ==
  /\ alive
  /\ alive' = FALSE
  /\ saved' = 0
  /\ UNCHANGED <<versions, durable>>

Begin ==
  /\ ~alive
  /\ alive' = TRUE
  /\ versions' = <<durable>>
  /\ saved' = 1
  /\ UNCHANGED durable

Next ==
  \/ \E k \in Key, v \in Value : Put(k, v)
  \/ Persist
  \/ End
  \/ Begin

Spec == Init /\ [][Next]_vars

FairSpec == Spec /\ WF_vars(Persist)
=============================================================================
