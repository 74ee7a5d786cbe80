---------------------------- MODULE MCMmapRegion ----------------------------
(* Modules to instantiate: one whose heap is as large as its guard allows,  *)
(* and one that can grow as far as the limit.                               *)
EXTENDS MmapRegion, TLC

MCModules ==
    {[initial |-> 1, reserved |-> 1, guard |-> 2, max |-> 3, data |-> {0}],
     [initial |-> 1, reserved |-> 1, guard |-> 0, max |-> 3, data |-> {0}]}

ThreadSymmetry == Permutations(Threads)
=============================================================================
