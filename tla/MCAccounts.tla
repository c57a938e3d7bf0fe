----------------------------- MODULE MCAccounts -----------------------------
(***************************************************************************)
(* Accounts on two small instances, chosen by the first state: in          *)
(* "logins" two Codex sign-ins that yield the same account, which races    *)
(* them for its profile; in "keys" one sign-in beside an account with a    *)
(* key.  Both have two hooks, one user and one death of the application.   *)
(***************************************************************************)
EXTENDS Accounts

CONSTANT SecondLogin

VARIABLE scene

MCInit == Init /\ scene \in {"logins", "keys"}

InScene ==
    /\ scene = "logins" => secret' \cap KeyId = {}
    /\ scene = "keys" => watch'[SecondLogin] = "none"
    /\ UNCHANGED scene

MCSpec == MCInit /\ [][Next /\ InScene]_<<vars, scene>> /\ Fairness
=============================================================================
