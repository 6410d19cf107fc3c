------------------------------ MODULE MCMonitor ------------------------------
(***************************************************************************)
(* Model checking of Monitor: a monitor alone, and a daily monitor next to *)
(* one that takes its schedule from the policy file.                       *)
(***************************************************************************)
EXTENDS Monitor, TLC

CONSTANTS p1, p2

MCDailyOnly == p1 :> "daily"
MCDailyAndPolicy == p1 :> "daily" @@ p2 :> None
=============================================================================
