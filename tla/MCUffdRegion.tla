---------------------------- MODULE MCUffdRegion ----------------------------
(* A small instance of UffdRegion: every disposition with one slot that two  *)
(* modules share in turn, two slots whose faults compete for the worker, and *)
(* a module whose initial heap is empty.                                     *)
EXTENDS UffdRegion, TLC

MCInitialSize == ("a" :> 1) @@ ("b" :> 2) @@ ("c" :> 0)
MCDataPages == ("a" :> {1}) @@ ("b" :> {0, 2}) @@ ("c" :> {})

OneSlot ==
    [heapPage : {"Host", "Wasm"}, heapInit : Dispositions, stackInit : Dispositions,
     abort : {FALSE}, capacity : {1}, modules : {{"a", "b"}}, limit : {2}]
TwoSlots ==
    [heapPage : {"Wasm"}, heapInit : {"Lazy"}, stackInit : {"Lazy"}, abort : {TRUE, FALSE},
     capacity : {2}, modules : {{"a"}}, limit : {1}]
EmptyHeap ==
    [heapPage : {"Host"}, heapInit : Dispositions, stackInit : {"Lazy"}, abort : {FALSE},
     capacity : {1}, modules : {{"a", "c"}}, limit : {1}]
MCConfigs == OneSlot \cup TwoSlots \cup EmptyHeap
=============================================================================
