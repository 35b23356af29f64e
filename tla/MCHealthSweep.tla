---------------------------- MODULE MCHealthSweep ----------------------------
(***************************************************************************)
(* An instance of HealthSweep for TLC: two URLs of one host, of which one  *)
(* always answers, and a relay behind Tor.                                 *)
(***************************************************************************)
EXTENDS HealthSweep, TLC

CONSTANTS steady, failing, hidden, hostA, hostT

MCHost == steady :> hostA @@ failing :> hostA @@ hidden :> hostT

MCOutcomes == steady :> {"ok"}
           @@ failing :> {"timeout", "refused", "other"}
           @@ hidden :> {"ok", "no such host"}
==============================================================================
