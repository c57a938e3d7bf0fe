--------------------------- MODULE BatchContract ---------------------------
(***************************************************************************)
(* What a probe batch promises to the webview: every unit yields at most   *)
(* one probe:result, or is lost (its probe panicked), in any order;        *)
(* probe:batch-complete comes once and after all of them.                  *)
(***************************************************************************)
CONSTANT Unit

VARIABLES
  awaited,   \* the units that have neither a result nor been lost
  reported,  \* the units whose probe:result was emitted
  complete   \* probe:batch-complete was emitted

vars == <<awaited, reported, complete>>

Init ==
  /\ awaited = Unit
  /\ reported = {}
  /\ complete = FALSE

Report(u) ==
  /\ u \in awaited
  /\ awaited' = awaited \ {u}
  /\ reported' = reported \cup {u}
  /\ UNCHANGED complete

Lose(u) ==
  /\ u \in awaited
  /\ awaited' = awaited \ {u}
  /\ UNCHANGED <<reported, complete>>

Complete ==
  /\ awaited = {}
  /\ ~complete
  /\ complete' = TRUE
  /\ UNCHANGED <<awaited, reported>>

Next == Complete \/ \E u \in Unit : Report(u) \/ Lose(u)

Spec == Init /\ [][Next]_vars

FairSpec == Spec /\ WF_vars(Next)
=============================================================================
