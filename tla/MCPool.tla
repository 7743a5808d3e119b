------------------------------- MODULE MCPool -------------------------------
(***************************************************************************)
(* Instances of Pool for TLC: workers whose servers are healthy and        *)
(* workers whose servers are not.                                          *)
(***************************************************************************)
EXTENDS Pool, TLC

CONSTANTS healthy, twin, flaky

\* The twin is configured with the account_id of the healthy mailbox.
MCAccountOf == (healthy :> "a") @@ (twin :> "a") @@ (flaky :> "b")
=============================================================================
