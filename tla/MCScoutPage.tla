---------------------------- MODULE MCScoutPage ----------------------------
(* Instances of ScoutPage for TLC.                                         *)
EXTENDS ScoutPage

CONSTANTS pending, qualified
=============================================================================
