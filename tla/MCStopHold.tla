----------------------------- MODULE MCStopHold -----------------------------
(***************************************************************************)
(* StopHold with one hold of the session's own, whose id every set shares, *)
(* and the hold of a bundle's stop rule.                                   *)
(***************************************************************************)
EXTENDS StopHold
=============================================================================
