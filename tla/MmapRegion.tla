----------------------------- MODULE MmapRegion -----------------------------
(***************************************************************************)
(* The life of instance memory in an MmapRegion.                           *)
(*                                                                         *)
(* Threads share a region of slots.  Each creates an instance on a free    *)
(* slot, uses and grows and resets its heap, and drops it again, while     *)
(* others do the same; each may give up its own reference to the region at *)
(* any time.  A slot is a row of pages: the heap, the stack guard, the     *)
(* stack, the globals, the signal stack guard and the signal stack, the    *)
(* last three of one page each.  The Instance itself, with the Alloc in    *)
(* it, is stored in front of the heap, in the slot's own memory.           *)
(*                                                                         *)
(* The model follows the Linux build.  It stops when one slot holds the    *)
(* Instances of two threads, which SlotBacksOneAllocation describes, and a *)
(* failing mprotect whose result the code expects to be Ok is left out.    *)
(*                                                                         *)
(* A definition that directly precedes one of nearly the same name and is  *)
(* used nowhere is that definition with a slip in it.                      *)
(*                                                                         *)
(* Sources: lucet-runtime-internals/src/region/mmap.rs, alloc/mod.rs,      *)
(* module.rs and instance.rs.                                              *)
(***************************************************************************)
EXTENDS Naturals, Sequences, FiniteSets

CONSTANTS
    Threads,       \* the threads that use the region
    Capacity,      \* the region's instance capacity
    SpacePages,    \* Limits.heap_address_space_size
    MemoryPages,   \* Limits.heap_memory_size
    HeapLimits,    \* what embedders pass to with_heap_size_limit
    Modules,       \* heap specs of the modules that are instantiated
    AllocStrategy, \* "Linear" or "Random"
    CallsFail      \* may mprotect and madvise return an error?

Slots == 1 .. Capacity

\* Sizes are in host pages; `data` are the pages with sparse page data.  A module
\* without maximum has a large one, a module without linear memory has all zero.
HeapSpec == [initial : Nat, reserved : Nat, guard : Nat, max : Nat, data : SUBSET Nat]

ASSUME RegionAssumption ==
    /\ Capacity \in Nat /\ SpacePages \in Nat /\ MemoryPages \in Nat
    /\ HeapLimits \subseteq Nat
    /\ AllocStrategy \in {"Linear", "Random"}
    /\ CallsFail \in BOOLEAN

\* MmapRegion::create returns the first reference to somebody.
ASSUME ThreadsAssumption == Threads # {}

\* What the compiler sees to: data fits into the initial heap.
ASSUME ModulesAssumption ==
    /\ Modules \subseteq HeapSpec
    /\ \A m \in Modules : m.data \subseteq 0 .. m.initial - 1

\* Limits::validate
ASSUME LimitsAssumption == MemoryPages <= SpacePages

VARIABLES
    freelist,      \* the slots nobody uses
    pc,            \* what a thread does with its instance handle
    slot,          \* the slot it works on
    arc,           \* does the thread itself hold an Arc<MmapRegion>?
    magic,         \* is the magic number of a live Instance in the slot?
    alloc,         \* the Alloc in the slot
    open,          \* the pages that are PROT_READ | PROT_WRITE
    data,          \* what the pages of the slot hold
    written,       \* history: the pages written by the present instance since
                   \* it was created or reset
    halfReset,     \* history: the slots whose last reset_heap gave up half way
    mapped         \* the slots whose memory is mapped

memoryVars == <<open, data, written, halfReset>>
vars == <<freelist, pc, slot, arc, magic, alloc, memoryVars, mapped>>

-----------------------------------------------------------------------------
(* The layout of a slot: MmapRegion::create_slot.                          *)

HeapPages == 0 .. SpacePages - 1
StackGuard == SpacePages
Stack == SpacePages + 1
Globals == SpacePages + 2
SigStackGuard == SpacePages + 3
SigStack == SpacePages + 4
SidePages == {Stack, Globals, SigStack}
Pages == 0 .. SpacePages + 4

\* Alloc::addr_location, for an Alloc whose accessible heap has n pages.
AddrLocation(n, p) ==
    CASE p < n -> "Heap"
      [] n <= p /\ p < SpacePages -> "InaccessibleHeap"
      [] p = StackGuard -> "StackGuard"
      [] p = Stack -> "Stack"
      [] p = Globals -> "Globals"
      [] p = SigStackGuard -> "SigStackGuard"
      [] p = SigStack -> "SigStack"
      [] OTHER -> "Unknown"

NoSlot == 0
NoModule == [initial |-> 0, reserved |-> 0, guard |-> 0, max |-> 0, data |-> {}]
NoAlloc == [module |-> NoModule, limit |-> 0, accessible |-> 0, inaccessible |-> 0]

Init ==
    /\ freelist = [i \in Slots |-> i]
    /\ pc = [t \in Threads |-> "idle"]
    /\ slot = [t \in Threads |-> NoSlot]
    /\ arc = [t \in Threads |-> TRUE]
    /\ magic = [s \in Slots |-> FALSE]
    /\ alloc = [s \in Slots |-> NoAlloc]
    /\ open = [s \in Slots |-> {}]
    /\ data = [s \in Slots |-> [p \in Pages |-> "zero"]]
    /\ written = [s \in Slots |-> {}]
    /\ halfReset = {}
    /\ mapped = Slots

Listed == {freelist[i] : i \in DOMAIN freelist}

\* A thread that works on its slot's memory, and one whose handle keeps the
\* region alive: from `upgrade` on, and until InstanceHandle::drop has let go of
\* the clone it took for the purpose.
Working == {"taken", "built", "live", "drop", "fields"}
KeepingWithoutClone == {"built", "live", "drop"}
Keeping == {"built", "live", "drop", "fields", "release"}

Alive == \E t \in Threads : arc[t] \/ pc[t] \in Keeping

\* Drop for MmapRegion: the last reference unmaps the listed slots.
Reclaim == mapped' = IF Alive' THEN mapped ELSE mapped \ Listed'

-----------------------------------------------------------------------------
(* Creating an instance.                                                   *)

\* ModuleInternal::validate_runtime_spec
ValidSpec(m, limit) ==
    /\ limit <= MemoryPages
    /\ m.reserved + m.guard <= SpacePages
    /\ m.initial <= limit
    /\ m.initial <= m.reserved

\* AllocStrategy::next
NextIndex(n) == IF AllocStrategy = "Linear" THEN {n} ELSE 1 .. n

\* Vec::swap_remove
PopInstead(q, i) == [j \in 1 .. Len(q) - 1 |-> q[j]]
SwapRemove(q, i) ==
    [j \in 1 .. Len(q) - 1 |-> IF j = i THEN q[Len(q)] ELSE q[j]]

\* new_instance_with, the locked part: take a slot off the freelist.
TakeSlot(t) ==
    /\ pc[t] = "idle"
    /\ arc[t]
    /\ freelist # <<>>
    /\ \E m \in Modules, limit \in HeapLimits, i \in NextIndex(Len(freelist)) :
        /\ ValidSpec(m, limit)
        /\ slot' = [slot EXCEPT ![t] = freelist[i]]
        /\ freelist' = SwapRemove(freelist, i)
        /\ alloc' = [alloc EXCEPT ![freelist[i]] =
                        [module |-> m, limit |-> limit, accessible |-> 0,
                         inaccessible |-> SpacePages]]
    /\ pc' = [pc EXCEPT ![t] = "taken"]
    /\ UNCHANGED <<arc, magic, memoryVars, mapped>>

\* The rest of new_instance_with up to the first reset: open the stack, the
\* globals and the signal stack, upgrade the region, and write the Instance into
\* the slot, unless there seems to be one already.
WriteInstance(t) ==
    LET s == slot[t] IN
    /\ pc[t] = "taken"
    /\ open' = [open EXCEPT ![s] = @ \cup SidePages]
    /\ magic' = [magic EXCEPT ![s] = TRUE]
    /\ pc' = [pc EXCEPT ![t] = IF magic[s] THEN "drop" ELSE "built"]
    /\ UNCHANGED <<freelist, slot, arc, alloc, data, written, halfReset, mapped>>

\* The pages that madvise(MADV_DONTNEED) clears.
Cleared(s, ps) == [p \in Pages |-> IF p \in ps THEN "zero" ELSE data[s][p]]

\* MmapRegion::reset_heap clears the heap if any of it is accessible.
ResetPages(s) == IF alloc[s].accessible > 0 THEN HeapPages ELSE {}

\* Instance::reset: MmapRegion::reset_heap and the globals.  (What reset does to
\* the state and the KillState is in KillSwitch.)
ResetHeap(s) ==
    LET m == alloc[s].module IN
    /\ open' = [open EXCEPT ![s] = (@ \ ResetPages(s)) \cup 0 .. m.initial - 1]
    /\ data' = [data EXCEPT ![s] =
                  [p \in Pages |->
                     IF p \in m.data \cup {Globals} THEN "init"
                     ELSE Cleared(s, ResetPages(s))[p]]]
    /\ written' = [written EXCEPT ![s] = @ \ (HeapPages \cup {Globals})]
    /\ alloc' = [alloc EXCEPT ![s].accessible = m.initial,
                              ![s].inaccessible = SpacePages - m.initial]
    /\ halfReset' = halfReset \ {s}

\* reset_heap gives up: the heap is not closed, or closed and not cleared, or
\* cleared and not opened again.  The Alloc keeps its sizes.
ResetHeapFails(s) ==
    /\ CallsFail
    /\ \/ ResetPages(s) # {} /\ UNCHANGED <<open, data>>
       \/ /\ ResetPages(s) # {}
          /\ open' = [open EXCEPT ![s] = @ \ HeapPages]
          /\ UNCHANGED data
       \/ /\ alloc[s].module.initial > 0
          /\ open' = [open EXCEPT ![s] = @ \ ResetPages(s)]
          /\ data' = [data EXCEPT ![s] = Cleared(s, ResetPages(s))]
    /\ halfReset' = halfReset \cup {s}
    /\ UNCHANGED <<written, alloc>>

\* The reset at the end of new_instance_handle; if it fails, the handle is
\* dropped.
FirstReset(t) ==
    /\ pc[t] = "built"
    /\ \/ ResetHeap(slot[t]) /\ pc' = [pc EXCEPT ![t] = "live"] /\ UNCHANGED magic
       \/ /\ ResetHeapFails(slot[t])
          /\ pc' = [pc EXCEPT ![t] = "drop"]
          /\ magic' = [magic EXCEPT ![slot[t]] = FALSE]
    /\ UNCHANGED <<freelist, slot, arc, mapped>>

-----------------------------------------------------------------------------
(* Using an instance.                                                      *)

\* The guest, a hostcall or the embedder stores to a page it can write.
Store(t) ==
    /\ pc[t] = "live"
    /\ \E p \in open[slot[t]] :
        /\ data' = [data EXCEPT ![slot[t]][p] = "dirty"]
        /\ written' = [written EXCEPT ![slot[t]] = @ \cup {p}]
    /\ UNCHANGED <<freelist, pc, slot, arc, magic, alloc, open, halfReset, mapped>>

\* Alloc::expand_heap: may the heap of `a` grow by n pages?
GrowableUnguarded(a, n) ==
    /\ n > 0
    /\ n <= a.inaccessible
    /\ a.accessible + n <= a.module.max
    /\ a.accessible + n <= a.limit
Growable(a, n) ==
    /\ n > 0
    /\ n <= a.inaccessible
    /\ a.inaccessible - n >= a.module.guard
    /\ a.accessible + n <= a.module.max
    /\ a.accessible + n <= a.limit

\* The sizes after the growth.
Grown(a, n) ==
    [a EXCEPT !.accessible = @ + n, !.inaccessible = @ - n]

\* Instance::grow_memory, Alloc::expand_heap and MmapRegion::expand_heap.  A
\* failing mprotect leaves everything as it was.
GrowMemory(t) ==
    LET s == slot[t] IN
    /\ pc[t] = "live"
    /\ \E n \in 1 .. SpacePages :
        /\ Growable(alloc[s], n)
        /\ open' = [open EXCEPT ![s] =
                      @ \cup alloc[s].accessible .. alloc[s].accessible + n - 1]
        /\ alloc' = [alloc EXCEPT ![s] = Grown(@, n)]
    /\ UNCHANGED <<freelist, pc, slot, arc, magic, data, written, halfReset, mapped>>

\* Instance::reset
Reset(t) ==
    /\ pc[t] = "live"
    /\ ResetHeap(slot[t]) \/ ResetHeapFails(slot[t])
    /\ UNCHANGED <<freelist, pc, slot, arc, magic, mapped>>

\* The thread gives up its own reference to the region.
DropArc(t) ==
    /\ pc[t] \in {"idle", "live"}
    /\ arc[t]
    /\ arc' = [arc EXCEPT ![t] = FALSE]
    /\ UNCHANGED <<freelist, pc, slot, magic, alloc, memoryVars>>
    /\ Reclaim

-----------------------------------------------------------------------------
(* Dropping an instance.                                                   *)

\* InstanceHandle::drop: take a clone of the region; Drop for Instance clears
\* the magic number, and the fields before `alloc` are dropped.
DropHandle(t) ==
    /\ pc[t] = "live"
    /\ pc' = [pc EXCEPT ![t] = "drop"]
    /\ magic' = [magic EXCEPT ![slot[t]] = FALSE]
    /\ UNCHANGED <<freelist, slot, arc, alloc, memoryVars, mapped>>

\* The heap pages that drop_alloc closes and clears.
DropPagesInitial(a) == 0 .. a.module.initial - 1
DropPages(a) == 0 .. a.accessible - 1

\* Drop for Alloc and MmapRegion::drop_alloc: close and clear the slot, then put
\* it back on the freelist.
DropAlloc(t) ==
    LET s == slot[t]
        ps == DropPages(alloc[s]) \cup SidePages
    IN
    /\ pc[t] = "drop"
    /\ open' = [open EXCEPT ![s] = @ \ ps]
    /\ data' = [data EXCEPT ![s] = Cleared(s, ps)]
    /\ alloc' = [alloc EXCEPT ![s] = NoAlloc]
    /\ written' = [written EXCEPT ![s] = {}]
    /\ halfReset' = halfReset \ {s}
    /\ freelist' = Append(freelist, s)
    /\ pc' = [pc EXCEPT ![t] = "fields"]
    /\ UNCHANGED <<slot, arc, magic>>
    /\ Reclaim

\* The rest of drop_in_place: the fields of the Alloc, and those of the Instance
\* that follow it, are still in the slot's memory.
DropFields(t) ==
    /\ pc[t] = "fields"
    /\ pc' = [pc EXCEPT ![t] = "release"]
    /\ UNCHANGED <<freelist, slot, arc, magic, alloc, memoryVars>>
    /\ Reclaim

\* The end of InstanceHandle::drop: the clone of the region goes.
ReleaseRegion(t) ==
    /\ pc[t] = "release"
    /\ pc' = [pc EXCEPT ![t] = "idle"]
    /\ slot' = [slot EXCEPT ![t] = NoSlot]
    /\ UNCHANGED <<freelist, arc, magic, alloc, memoryVars>>
    /\ Reclaim

-----------------------------------------------------------------------------

\* Threads whose Instance is stored in the slot.
Stored == {"built", "live", "drop", "fields"}

\* No slot holds the Instances of two threads: the description of Slot promises
\* that it "can only be backed by one allocation at a time".
SlotBacksOneAllocation ==
    \A t, u \in Threads :
        t # u /\ pc[t] \in Stored /\ pc[u] \in Stored => slot[t] # slot[u]

Step(t) ==
    \/ TakeSlot(t) \/ WriteInstance(t) \/ FirstReset(t)
    \/ Store(t) \/ GrowMemory(t) \/ Reset(t) \/ DropArc(t)
    \/ DropHandle(t) \/ DropAlloc(t) \/ DropFields(t) \/ ReleaseRegion(t)

Next == SlotBacksOneAllocation /\ \E t \in Threads : Step(t)

Spec == Init /\ [][Next]_vars

-----------------------------------------------------------------------------

\* Threads that have a slot the freelist does not have.
Owning == {"taken", "built", "live", "drop"}

\* As long as the region lives, every slot is listed once or owned by one thread:
\* none is handed out twice and none is lost, not even by a new_instance_with
\* that fails half way.
SlotsAccounted ==
    /\ \A i, j \in DOMAIN freelist : freelist[i] = freelist[j] => i = j
    /\ \A t, u \in Threads :
          pc[t] \in Owning /\ pc[u] \in Owning /\ t # u => slot[t] # slot[u]
    /\ \A s \in Slots :
          s \in Listed <=> ~ \E t \in Threads : pc[t] \in Owning /\ slot[t] = s

\* No instance finds what another has left.  A slot goes back to the freelist closed,
\* cleared and without magic number, whatever its last instance did with grow_memory and
\* reset and wherever these gave up; and an instance finds nothing in its memory that it
\* did not write itself since it was created or last reset, except what its module put
\* there.
NoLeftovers ==
    /\ \A s \in Listed :
          open[s] = {} /\ ~magic[s] /\ \A p \in Pages : data[s][p] = "zero"
    /\ \A t \in Threads : pc[t] = "live" =>
          \A p \in Pages : data[slot[t]][p] = "dirty" => p \in written[slot[t]]

\* What Alloc records of a live instance's heap is how its pages are: only the accessible
\* heap, the stack, the globals and the signal stack can be used, and all of it unless
\* the last reset gave up; and however the heap has grown, the guard that the compiler
\* relies on stays behind it and the heap keeps within the instance's own limit.
HeapLayout ==
    \A t \in Threads : pc[t] = "live" =>
        LET s == slot[t]
            a == alloc[s]
            usable == {p \in Pages : AddrLocation(a.accessible, p) \in
                                        {"Heap", "Stack", "Globals", "SigStack"}}
        IN  /\ a.accessible + a.inaccessible = SpacePages
            /\ open[s] \subseteq usable
            /\ s \notin halfReset => open[s] = usable
            /\ \A p \in open[s] : p < SpacePages => p + a.module.guard < SpacePages
            /\ a.accessible <= a.limit

\* A thread that works on a slot finds it mapped, even when every other reference to the
\* region is gone; and a region whose last reference is gone has unmapped every slot.
MappedWhileUsed ==
    /\ \A t \in Threads : pc[t] \in Working => slot[t] \in mapped
    /\ ~Alive => mapped = {}
=============================================================================
