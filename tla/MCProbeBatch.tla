---------------------------- MODULE MCProbeBatch ----------------------------
(***************************************************************************)
(* ProbeBatch for TLC: more units than threads, so that the queue is       *)
(* shared, and every mix of outcomes.                                      *)
(***************************************************************************)
EXTENDS ProbeBatch
=============================================================================
