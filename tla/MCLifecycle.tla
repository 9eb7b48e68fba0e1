---------------------------- MODULE MCLifecycle ----------------------------
(***************************************************************************)
(* VMLifecycle for TLC: the calls clients make, and interchangeable calls. *)
(***************************************************************************)
EXTENDS VMLifecycleInv, TLC

AllOps == {"Create", "Start", "Stop", "Reboot", "Delete", "Guest"}
LifecycleOps == {"Create", "Start", "Stop", "Delete"}
CreateDelete == {"Create", "Delete"}
NoVM == {}
CallSymmetry == Permutations(Call)
=============================================================================
