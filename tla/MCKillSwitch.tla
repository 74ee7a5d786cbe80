--------------------------- MODULE MCKillSwitch ---------------------------
(* KillSwitch for TLC: two or three switches, as interchangeable model     *)
(* values, and up to three consecutive KillStates.                         *)
EXTENDS KillSwitch, TLC

SwitchSymmetry == Permutations(Switches)
=============================================================================
