---------------------------- MODULE MCUsageCache ----------------------------
(***************************************************************************)
(* UsageCache for TLC.  Two worker identities, which are used again once   *)
(* a worker has ended, let two flushes of different age meet the exit      *)
(* flush; the theorems of UsageCacheProofs hold for any number.            *)
(***************************************************************************)
EXTENDS UsageCache
=============================================================================
