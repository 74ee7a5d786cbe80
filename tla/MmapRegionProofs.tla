-------------------------- MODULE MmapRegionProofs --------------------------
(***************************************************************************)
(* Theorems about MmapRegion, for any number of threads, slots and pages,  *)
(* any modules and limits, both allocation strategies, and whether or not  *)
(* mprotect and madvise fail.                                              *)
(***************************************************************************)
EXTENDS MmapRegion, SequenceTheorems, TLAPS

-----------------------------------------------------------------------------
(* The inductive invariant.                                                *)

Places == {"idle", "taken", "built", "live", "drop", "fields", "release"}
Contents == {"zero", "init", "dirty"}
Alloc ==
    [module : Modules \cup {NoModule}, limit : Nat, accessible : Nat, inaccessible : Nat]

ThreadTypeOK ==
    /\ freelist \in Seq(Slots)
    /\ pc \in [Threads -> Places]
    /\ slot \in [Threads -> Slots \cup {NoSlot}]
    /\ arc \in [Threads -> BOOLEAN]
    /\ mapped \in SUBSET Slots

MemoryTypeOK ==
    /\ magic \in [Slots -> BOOLEAN]
    /\ alloc \in [Slots -> Alloc]
    /\ open \in [Slots -> SUBSET Pages]
    /\ data \in [Slots -> [Pages -> Contents]]
    /\ written \in [Slots -> SUBSET Pages]
    /\ halfReset \in SUBSET Slots

TypeOK == ThreadTypeOK /\ MemoryTypeOK

\* A thread that has begun to create an instance has a slot, and holds the region until
\* the instance does.
ThreadInv ==
    \A t \in Threads : /\ pc[t] \in Working => slot[t] \in Slots
                       /\ pc[t] = "taken" => arc[t]

\* The pages that an instance with n pages of heap can use.
Usable(n) == {p \in Pages : p < n \/ p \in SidePages}

Zeroed(s) == \A p \in Pages : data[s][p] = "zero"

\* A slot on the freelist is closed and cleared.
Clean(s) == open[s] = {} /\ magic[s] = FALSE /\ Zeroed(s)

\* The sizes in an Alloc agree with each other, with the module and with the limits.
Sized(a) ==
    /\ a.module \in Modules
    /\ ValidSpec(a.module, a.limit)
    /\ a.accessible + a.inaccessible = SpacePages
    /\ a.accessible + a.module.guard <= SpacePages
    /\ a.accessible <= a.limit

\* Nothing outside the pages that the Alloc records can be used or holds anything: only
\* so does drop_alloc find everything that it has to clear.
Confined(s) ==
    /\ open[s] \subseteq Usable(alloc[s].accessible)
    /\ \A p \in Pages : data[s][p] # "zero" => p \in Usable(alloc[s].accessible)

\* What holds of a slot whose owner is at the given place.
Sound(s, at) ==
    /\ Sized(alloc[s])
    /\ Confined(s)
    /\ at = "taken" => Clean(s) /\ alloc[s].accessible = 0
    /\ at = "built" => Zeroed(s) /\ alloc[s].accessible = 0 /\ SidePages \subseteq open[s]
    /\ at = "live" => /\ SidePages \subseteq open[s]
                      /\ s \notin halfReset => open[s] = Usable(alloc[s].accessible)
                      /\ \A p \in Pages : data[s][p] = "dirty" => p \in written[s]
    /\ at = "drop" => magic[s] = FALSE

SlotInv ==
    /\ \A s \in Slots : s \in Listed => Clean(s)
    /\ \A t \in Threads, s \in Slots, at \in Owning :
          slot[t] = s /\ pc[t] = at => Sound(s, at)

\* The region is mapped as a whole for as long as it is referred to.
MapInv == mapped = IF Alive THEN Slots ELSE {}

IndInv == TypeOK /\ ThreadInv /\ SlotsAccounted /\ SlotInv /\ MapInv

-----------------------------------------------------------------------------
(* The freelist.                                                           *)

USE RegionAssumption, ModulesAssumption, LimitsAssumption
USE DEF Slots, NoSlot, Owning, Working

\* What a freelist lists, and that it lists nothing twice.
Elements(q) == {q[i] : i \in DOMAIN q}
Once(q) == \A i, j \in DOMAIN q : q[i] = q[j] => i = j

\* Vec::swap_remove takes out the chosen slot and no other.
LEMMA SwapRemoveTakes ==
    ASSUME NEW q \in Seq(Slots), NEW i \in 1 .. Len(q), Once(q)
    PROVE  /\ SwapRemove(q, i) \in Seq(Slots)
           /\ Once(SwapRemove(q, i))
           /\ Elements(SwapRemove(q, i)) = Elements(q) \ {q[i]}
           /\ q[i] \in Elements(q) /\ q[i] \in Slots
  <1> DEFINE n == Len(q) - 1
             r == SwapRemove(q, i)
  <1>1. n \in Nat /\ i \in 1 .. n + 1 /\ DOMAIN q = 1 .. n + 1 /\ \A j \in 1 .. n + 1 : q[j] \in Slots
    BY LenProperties
  <1>2. DOMAIN r = 1 .. n /\ \A j \in 1 .. n : r[j] = IF j = i THEN q[n + 1] ELSE q[j]
    BY <1>1 DEF SwapRemove
  <1>3. r \in Seq(Slots)
    <2>1. r \in [1 .. n -> Slots]
      BY <1>1, <1>2 DEF SwapRemove
    <2> QED
      BY <1>1, <2>1
  <1> HIDE DEF n, r
  <1>4. Once(r)
    <2> SUFFICES ASSUME NEW j \in 1 .. n, NEW k \in 1 .. n, r[j] = r[k] PROVE j = k
      BY <1>2 DEF Once
    <2>1. \A x, y \in 1 .. n + 1 : q[x] = q[y] => x = y
      BY <1>1 DEF Once
    <2>2. n + 1 \in 1 .. n + 1 /\ j \in 1 .. n + 1 /\ k \in 1 .. n + 1 /\ j # n + 1 /\ k # n + 1
      BY <1>1
    <2> QED
      BY <1>2, <2>1, <2>2
  <1>5. ASSUME NEW j \in 1 .. n PROVE r[j] \in Elements(q) /\ r[j] # q[i]
    <2>1. i \in 1 .. n + 1 /\ j \in 1 .. n + 1 /\ n + 1 \in 1 .. n + 1 /\ j # n + 1
      BY <1>1
    <2>2. \A x, y \in 1 .. n + 1 : q[x] = q[y] => x = y
      BY <1>1 DEF Once
    <2> QED
      BY <1>1, <1>2, <2>1, <2>2 DEF Elements
  <1>6. Elements(r) \subseteq Elements(q) \ {q[i]}
    BY <1>2, <1>5 DEF Elements
  <1>7. ASSUME NEW s \in Elements(q), s # q[i] PROVE s \in Elements(r)
    <2>1. PICK j \in 1 .. n + 1 : s = q[j]
      BY <1>1 DEF Elements
    <2>2. CASE j = n + 1
      <3>1. i \in 1 .. n /\ r[i] = s
        BY <1>1, <1>2, <1>7, <2>1, <2>2, SMTT(30)
      <3> QED
        BY <1>2, <3>1 DEF Elements
    <2>3. CASE j # n + 1
      <3>1. j \in 1 .. n
        BY <1>1, <2>3
      <3>2. j # i /\ r[j] = s
        BY <1>2, <1>7, <2>1, <3>1
      <3> QED
        BY <1>2, <3>1, <3>2 DEF Elements
    <2> QED
      BY <2>2, <2>3
  <1>8. q[i] \in Elements(q) /\ q[i] \in Slots
    BY <1>1 DEF Elements
  <1> QED
    BY <1>3, <1>4, <1>6, <1>7, <1>8 DEF r

\* A slot that is pushed onto the freelist is listed, once if it was not there.
LEMMA AppendLists ==
    ASSUME NEW q \in Seq(Slots), NEW s \in Slots, s \notin Elements(q), Once(q)
    PROVE  /\ Append(q, s) \in Seq(Slots)
           /\ Once(Append(q, s))
           /\ Elements(Append(q, s)) = Elements(q) \cup {s}
  <1> DEFINE n == Len(q)
             r == Append(q, s)
  <1>1. n \in Nat /\ DOMAIN q = 1 .. n
    BY LenProperties
  <1>2. r \in Seq(Slots) /\ DOMAIN r = 1 .. n + 1 /\ r[n + 1] = s
        /\ \A j \in 1 .. n : r[j] = q[j]
    BY <1>1
  <1> HIDE DEF n, r
  <1>3. \A j \in 1 .. n : q[j] # s
    BY <1>1 DEF Elements
  <1>4. Once(r)
    <2> SUFFICES ASSUME NEW j \in 1 .. n + 1, NEW k \in 1 .. n + 1, r[j] = r[k] PROVE j = k
      BY <1>2 DEF Once
    <2>1. \A x, y \in 1 .. n : q[x] = q[y] => x = y
      BY <1>1 DEF Once
    <2>2. (j = n + 1 \/ j \in 1 .. n) /\ (k = n + 1 \/ k \in 1 .. n)
      BY <1>1
    <2> QED
      BY <1>2, <1>3, <2>1, <2>2
  <1>5. Elements(r) = Elements(q) \cup {s}
    <2>1. Elements(r) \subseteq Elements(q) \cup {s}
      BY <1>1, <1>2 DEF Elements
    <2>2. s \in Elements(r)
      BY <1>1, <1>2 DEF Elements
    <2>3. Elements(q) \subseteq Elements(r)
      BY <1>1, <1>2 DEF Elements
    <2> QED
      BY <2>1, <2>2, <2>3
  <1> QED
    BY <1>2, <1>4, <1>5 DEF r

-----------------------------------------------------------------------------
(* The pages of a slot.                                                    *)

\* The pages in use are those that addr_location knows as such.
LEMMA UsableIsLocated ==
    ASSUME NEW n \in Nat, n <= SpacePages
    PROVE  Usable(n) = {p \in Pages : AddrLocation(n, p) \in
                                         {"Heap", "Stack", "Globals", "SigStack"}}
  <1> USE DEF Pages, SidePages, StackGuard, Stack, Globals, SigStackGuard, SigStack
  <1> SUFFICES ASSUME NEW p \in Pages
               PROVE  p < n \/ p \in SidePages <=>
                         AddrLocation(n, p) \in {"Heap", "Stack", "Globals", "SigStack"}
    BY DEF Usable
  <1>1. CASE p < n
    BY <1>1 DEF AddrLocation
  <1>2. CASE n <= p /\ p < SpacePages
    BY <1>2 DEF AddrLocation
  <1>3. CASE p \in {StackGuard, SigStackGuard}
    BY <1>3 DEF AddrLocation
  <1>4. CASE p = Stack
    BY <1>4 DEF AddrLocation
  <1>5. CASE p = Globals
    BY <1>5 DEF AddrLocation
  <1>6. CASE p = SigStack
    BY <1>6 DEF AddrLocation
  <1> QED
    BY <1>1, <1>2, <1>3, <1>4, <1>5, <1>6

\* No change to slot s but what it says.
Same(s) ==
    /\ open'[s] = open[s]
    /\ data'[s] = data[s]
    /\ written'[s] = written[s]
    /\ magic'[s] = magic[s]
    /\ alloc'[s] = alloc[s]
    /\ s \in halfReset' <=> s \in halfReset

\* A slot that does not change stays as sound and as clean as it was.
LEMMA SameIsSound ==
    ASSUME NEW s, NEW at, Same(s)
    PROVE  /\ Clean(s) => Clean(s)'
           /\ Sound(s, at) => Sound(s, at)'
  BY DEF Same, Clean, Sound, Sized, Confined, Zeroed, ValidSpec

\* The sizes of a module's heap.
LEMMA ModuleSizes ==
    ASSUME NEW m \in Modules
    PROVE  /\ m.initial \in Nat /\ m.reserved \in Nat /\ m.guard \in Nat /\ m.max \in Nat
           /\ m.data \subseteq 0 .. m.initial - 1
  BY DEF HeapSpec

\* How the pages lie: the heap in front of the others.
LEMMA Layout ==
    /\ \A n \in Nat : n <= SpacePages => 0 .. n - 1 \subseteq HeapPages
    /\ \A n \in Nat : n <= SpacePages => Usable(n) = (0 .. n - 1) \cup SidePages
    /\ HeapPages \subseteq Pages /\ SidePages \subseteq Pages /\ HeapPages \cap SidePages = {}
    /\ Globals \in SidePages /\ Globals \notin HeapPages
  BY DEF HeapPages, SidePages, Stack, Globals, SigStack, Pages, Usable

\* What the fields of an Alloc are after a reset and after a growth.
LEMMA ResetFields ==
    ASSUME MemoryTypeOK, NEW s \in Slots, NEW n \in Nat, NEW k \in Nat,
           alloc' = [alloc EXCEPT ![s].accessible = n, ![s].inaccessible = k]
    PROVE  /\ alloc' \in [Slots -> Alloc]
           /\ alloc'[s].module = alloc[s].module
           /\ alloc'[s].limit = alloc[s].limit
           /\ alloc'[s].accessible = n
           /\ alloc'[s].inaccessible = k
           /\ \A x \in Slots : x # s => alloc'[x] = alloc[x]
  <1> DEFINE a == [[alloc[s] EXCEPT !.accessible = n] EXCEPT !.inaccessible = k]
  <1>1. alloc[s] \in Alloc
    BY DEF MemoryTypeOK
  <1>2. /\ a \in Alloc
        /\ a.module = alloc[s].module /\ a.limit = alloc[s].limit
        /\ a.accessible = n /\ a.inaccessible = k
    BY <1>1 DEF Alloc
  <1>3. alloc' = [alloc EXCEPT ![s] = a]
    BY DEF MemoryTypeOK
  <1> QED
    BY <1>2, <1>3 DEF MemoryTypeOK

\* What Sound says of the slot of an instance that can be reset.
Resettable(s) ==
    /\ Sized(alloc[s])
    /\ Confined(s)
    /\ SidePages \subseteq open[s]
    /\ \A p \in Pages : data[s][p] = "dirty" => p \in written[s]

\* A reset that succeeds leaves exactly the module's heap, and nothing else in it.
LEMMA ResetIsSound ==
    ASSUME MemoryTypeOK, NEW s \in Slots, Resettable(s), ResetHeap(s), UNCHANGED magic
    PROVE  /\ MemoryTypeOK'
           /\ Sound(s, "live")'
           /\ \A x \in Slots : x # s => Same(x)
  <1> DEFINE m == alloc[s].module
  <1>1. /\ m \in Modules /\ m.initial \in Nat /\ m.guard \in Nat /\ m.reserved \in Nat
        /\ m.data \subseteq 0 .. m.initial - 1
        /\ m.reserved + m.guard <= SpacePages /\ m.initial <= m.reserved
        /\ m.initial <= alloc[s].limit /\ alloc[s].limit \in Nat /\ alloc[s].accessible \in Nat
        /\ alloc[s].accessible <= SpacePages
    <2>1. m \in Modules
      BY DEF Resettable, Sized
    <2>2. alloc[s].limit \in Nat /\ alloc[s].accessible \in Nat
      BY DEF MemoryTypeOK, Alloc
    <2> QED
      BY <2>1, <2>2, ModuleSizes DEF Resettable, Sized, ValidSpec
  <1>2. /\ m.initial <= SpacePages /\ SpacePages - m.initial \in Nat
        /\ m.initial + m.guard <= SpacePages
        /\ m.initial + (SpacePages - m.initial) = SpacePages
    BY <1>1
  <1> HIDE DEF m
  <1>3. /\ alloc' \in [Slots -> Alloc]
        /\ alloc'[s].module = m
        /\ alloc'[s].limit = alloc[s].limit
        /\ alloc'[s].accessible = m.initial
        /\ alloc'[s].inaccessible = SpacePages - m.initial
        /\ \A x \in Slots : x # s => alloc'[x] = alloc[x]
    BY <1>1, <1>2, ResetFields DEF ResetHeap, m
  <1>4. /\ open'[s] = (open[s] \ ResetPages(s)) \cup (0 .. m.initial - 1)
        /\ \A x \in Slots : x # s => open'[x] = open[x]
        /\ open' \in [Slots -> SUBSET Pages]
    <2>1. 0 .. m.initial - 1 \subseteq Pages
      BY <1>1, <1>2, Layout
    <2>2. open' = [open EXCEPT ![s] = (@ \ ResetPages(s)) \cup (0 .. m.initial - 1)]
      BY DEF ResetHeap, m
    <2> QED
      BY <2>1, <2>2 DEF MemoryTypeOK
  <1>5. /\ \A p \in Pages : data'[s][p] =
              IF p \in m.data \cup {Globals} THEN "init"
              ELSE IF p \in ResetPages(s) THEN "zero" ELSE data[s][p]
        /\ \A x \in Slots : x # s => data'[x] = data[x]
        /\ data' \in [Slots -> [Pages -> Contents]]
    BY DEF ResetHeap, MemoryTypeOK, m, Cleared, Contents
  <1>6. /\ written'[s] = written[s] \ (HeapPages \cup {Globals})
        /\ \A x \in Slots : x # s => written'[x] = written[x]
        /\ written' \in [Slots -> SUBSET Pages]
    BY DEF ResetHeap, MemoryTypeOK
  <1>7. halfReset' = halfReset \ {s} /\ magic' = magic
    BY DEF ResetHeap
  <1>8. Usable(m.initial) = (0 .. m.initial - 1) \cup SidePages /\ Usable(m.initial) \subseteq Pages
    BY <1>1, <1>2, Layout DEF Usable
  <1>9. \A p \in Usable(alloc[s].accessible) : p \in ResetPages(s) \/ p \in SidePages
    <2> SUFFICES ASSUME NEW p \in Usable(alloc[s].accessible), p \notin SidePages
                 PROVE  p \in ResetPages(s)
      OBVIOUS
    <2>1. p \in 0 .. alloc[s].accessible - 1
      BY <1>1, Layout
    <2>2. alloc[s].accessible > 0 /\ p \in HeapPages
      BY <1>1, <2>1 DEF HeapPages
    <2> QED
      BY <2>2 DEF ResetPages
  <1>10. open'[s] = Usable(m.initial)
    BY <1>4, <1>8, <1>9, Layout DEF Resettable, Confined, ResetPages
  <1>11. \A p \in Pages : data'[s][p] # "zero" => p \in Usable(m.initial)
    BY <1>1, <1>5, <1>8, <1>9, Layout DEF Resettable, Confined
  <1>12. \A p \in Pages : data'[s][p] = "dirty" => p \in written'[s]
    BY <1>5, <1>6, <1>9, Layout DEF Resettable, Confined, ResetPages
  <1>13. MemoryTypeOK'
    BY <1>3, <1>4, <1>5, <1>6, <1>7 DEF MemoryTypeOK
  <1>14. Sound(s, "live")'
    BY <1>1, <1>2, <1>3, <1>7, <1>8, <1>10, <1>11, <1>12
       DEF Sound, Sized, Confined, ValidSpec, Resettable
  <1>15. \A x \in Slots : x # s => Same(x)
    BY <1>3, <1>4, <1>5, <1>6, <1>7 DEF Same
  <1> QED
    BY <1>13, <1>14, <1>15

\* A reset that gives up leaves a slot that can be reset again, or dropped.
LEMMA FailedResetIsSound ==
    ASSUME MemoryTypeOK, NEW s \in Slots, Resettable(s), ResetHeapFails(s),
           magic' \in [Slots -> BOOLEAN], \A x \in Slots : x # s => magic'[x] = magic[x]
    PROVE  /\ MemoryTypeOK'
           /\ Resettable(s)' /\ s \in halfReset'
           /\ \A x \in Slots : x # s => Same(x)
  <1>1. halfReset' = halfReset \cup {s} /\ written' = written /\ alloc' = alloc
    BY DEF ResetHeapFails
  <1>2. /\ open' \in [Slots -> SUBSET Pages]
        /\ open'[s] \subseteq open[s] /\ open[s] \ open'[s] \subseteq HeapPages
        /\ \A x \in Slots : x # s => open'[x] = open[x]
    <2>1. PICK ps : ps \subseteq HeapPages /\ open' = [open EXCEPT ![s] = @ \ ps]
      <3>1. CASE open' = open
        <4>1. open' = [open EXCEPT ![s] = @ \ {}]
          BY <3>1 DEF MemoryTypeOK
        <4> QED
          BY <4>1
      <3>2. CASE open' = [open EXCEPT ![s] = @ \ HeapPages]
        BY <3>2
      <3>3. CASE open' = [open EXCEPT ![s] = @ \ ResetPages(s)]
        <4>1. ResetPages(s) \subseteq HeapPages
          BY DEF ResetPages
        <4> QED
          BY <3>3, <4>1
      <3> QED
        BY <3>1, <3>2, <3>3 DEF ResetHeapFails
    <2> QED
      BY <2>1 DEF MemoryTypeOK
  <1>3. /\ data' \in [Slots -> [Pages -> Contents]]
        /\ \A p \in Pages : data'[s][p] = "zero" \/ data'[s][p] = data[s][p]
        /\ \A x \in Slots : x # s => data'[x] = data[x]
    <2>1. CASE data' = data
      BY <2>1 DEF MemoryTypeOK
    <2>2. CASE data' = [data EXCEPT ![s] = Cleared(s, ResetPages(s))]
      BY <2>2 DEF MemoryTypeOK, Cleared, Contents
    <2> QED
      BY <2>1, <2>2 DEF ResetHeapFails
  <1>4. MemoryTypeOK'
    BY <1>1, <1>2, <1>3 DEF MemoryTypeOK
  <1>5. SidePages \subseteq open'[s]
    BY <1>2, Layout DEF Resettable
  <1>6. Confined(s)'
    BY <1>1, <1>2, <1>3 DEF Resettable, Confined
  <1>7. Resettable(s)'
    BY <1>1, <1>3, <1>5, <1>6 DEF Resettable, Sized, ValidSpec
  <1>8. \A x \in Slots : x # s => Same(x)
    BY <1>1, <1>2, <1>3 DEF Same
  <1> QED
    BY <1>1, <1>4, <1>7, <1>8

-----------------------------------------------------------------------------
(* The step from one state to the next.                                    *)

\* An instance on its way, alive or being dropped, keeps the region alive.
LEMMA OwnerKeepsRegion ==
    ASSUME IndInv, NEW t \in Threads, pc[t] \in Owning
    PROVE  Alive /\ mapped = Slots
  BY DEF IndInv, ThreadInv, MapInv, Alive, Keeping

\* A step in which the owner of a slot works on this slot alone, and goes on owning it:
\* it is enough that the slot is sound afterwards.
LEMMA OwnerStep ==
    ASSUME IndInv, NEW t \in Threads, pc[t] \in Owning,
           NEW at \in {"built", "live", "drop"}, NEW s, s = slot[t],
           pc' = [pc EXCEPT ![t] = at], UNCHANGED <<freelist, slot, arc, mapped>>,
           MemoryTypeOK', Sound(s, at)', \A x \in Slots : x # s => Same(x)
    PROVE  IndInv'
  <1> USE DEF IndInv
  <1>1. TypeOK'
    BY DEF TypeOK, ThreadTypeOK, Places
  <1>2. pc'[t] = at /\ \A u \in Threads : u # t => pc'[u] = pc[u]
    BY DEF TypeOK, ThreadTypeOK
  <1>3. ThreadInv'
    BY <1>2 DEF ThreadInv
  <1>4. Listed' = Listed
    BY DEF Listed
  <1>5. SlotsAccounted'
    BY <1>2, <1>4 DEF SlotsAccounted
  <1>6. s \in Slots /\ s \notin Listed
    BY DEF ThreadInv, SlotsAccounted
  <1>7. SlotInv'
    <2>1. ASSUME NEW x \in Slots, x \in Listed' PROVE Clean(x)'
      BY <1>4, <1>6, <2>1, SameIsSound DEF SlotInv
    <2>2. ASSUME NEW u \in Threads, NEW x \in Slots, NEW q \in Owning,
                 slot'[u] = x, pc'[u] = q
          PROVE  Sound(x, q)'
      <3>1. CASE u = t
        BY <1>2, <2>2, <3>1
      <3>2. CASE u # t
        <4>1. x # s /\ Sound(x, q)
          BY <1>2, <2>2, <3>2 DEF SlotsAccounted, SlotInv
        <4> QED
          BY <4>1, SameIsSound
      <3> QED
        BY <3>1, <3>2
    <2> QED
      BY <2>1, <2>2 DEF SlotInv
  <1>8. MapInv'
    BY <1>2, OwnerKeepsRegion DEF MapInv, Alive, Keeping
  <1> QED
    BY <1>1, <1>3, <1>5, <1>7, <1>8

\* What the invariant says of the slot of an owner.
LEMMA OwnedSlot ==
    ASSUME IndInv, NEW t \in Threads, pc[t] \in Owning
    PROVE  slot[t] \in Slots /\ Sound(slot[t], pc[t])
  BY DEF IndInv, ThreadInv, SlotInv

\* The Instance is written into a slot that no magic number claims.
LEMMA WriteInstanceStep ==
    ASSUME IndInv, NEW t \in Threads, WriteInstance(t)
    PROVE  IndInv'
  <1>1. PICK s \in Slots : s = slot[t]
    BY OwnedSlot DEF WriteInstance
  <1>2. Sound(s, "taken")
    BY <1>1, OwnedSlot DEF WriteInstance
  <1>3. MemoryTypeOK /\ magic[s] = FALSE /\ open[s] = {}
    BY <1>2 DEF IndInv, TypeOK, Sound, Clean
  <1>4. /\ open' = [open EXCEPT ![s] = @ \cup SidePages]
        /\ magic' = [magic EXCEPT ![s] = TRUE]
        /\ pc[t] = "taken" /\ pc' = [pc EXCEPT ![t] = "built"]
        /\ UNCHANGED <<freelist, slot, arc, alloc, data, written, halfReset, mapped>>
    BY <1>1, <1>3 DEF WriteInstance
  <1>5. open'[s] = SidePages /\ open' \in [Slots -> SUBSET Pages]
    BY <1>3, <1>4, Layout DEF MemoryTypeOK
  <1>6. MemoryTypeOK'
    BY <1>3, <1>4, <1>5 DEF MemoryTypeOK
  <1>7. Sound(s, "built")'
    <2>1. Sized(alloc[s])' /\ Zeroed(s)' /\ alloc'[s].accessible = 0
      BY <1>2, <1>4 DEF Sound, Sized, Clean, Zeroed, ValidSpec
    <2>2. SidePages \subseteq Usable(0)
      BY Layout
    <2>3. Confined(s)'
      BY <1>5, <2>1, <2>2 DEF Confined, Zeroed
    <2> QED
      BY <1>5, <2>1, <2>3 DEF Sound
  <1>8. \A x \in Slots : x # s => Same(x)
    BY <1>3, <1>4 DEF Same, MemoryTypeOK
  <1> QED
    BY <1>1, <1>4, <1>6, <1>7, <1>8, OwnerStep

\* A slot that is built or alive can be reset.
LEMMA LiveIsResettable ==
    ASSUME NEW s, NEW at \in {"built", "live"}, Sound(s, at)
    PROVE  Resettable(s)
  BY DEF Sound, Resettable, Zeroed

\* The reset that new_instance makes, and its failure.
LEMMA FirstResetStep ==
    ASSUME IndInv, NEW t \in Threads, FirstReset(t)
    PROVE  IndInv'
  <1>1. PICK s \in Slots : s = slot[t]
    BY OwnedSlot DEF FirstReset
  <1>2. MemoryTypeOK /\ Resettable(s)
    BY <1>1, OwnedSlot, LiveIsResettable DEF FirstReset, IndInv, TypeOK
  <1>3. CASE ResetHeap(s) /\ pc' = [pc EXCEPT ![t] = "live"] /\ UNCHANGED magic
    <2>1. MemoryTypeOK' /\ Sound(s, "live")' /\ \A x \in Slots : x # s => Same(x)
      BY <1>2, <1>3, ResetIsSound
    <2> QED
      BY <1>1, <1>3, <2>1, OwnerStep DEF FirstReset
  <1>4. CASE /\ ResetHeapFails(s) /\ pc' = [pc EXCEPT ![t] = "drop"]
             /\ magic' = [magic EXCEPT ![s] = FALSE]
    <2>1. /\ magic' \in [Slots -> BOOLEAN] /\ magic'[s] = FALSE
          /\ \A x \in Slots : x # s => magic'[x] = magic[x]
      BY <1>2, <1>4 DEF MemoryTypeOK
    <2>2. MemoryTypeOK' /\ Resettable(s)' /\ \A x \in Slots : x # s => Same(x)
      BY <1>2, <1>4, <2>1, FailedResetIsSound
    <2>3. Sound(s, "drop")'
      BY <2>1, <2>2 DEF Sound, Resettable
    <2> QED
      BY <1>1, <1>4, <2>2, <2>3, OwnerStep DEF FirstReset
  <1> QED
    BY <1>1, <1>3, <1>4 DEF FirstReset

\* A reset of an instance that is in use.
LEMMA ResetStep ==
    ASSUME IndInv, NEW t \in Threads, Reset(t)
    PROVE  IndInv'
  <1>1. PICK s \in Slots : s = slot[t]
    BY OwnedSlot DEF Reset
  <1>2. MemoryTypeOK /\ Resettable(s)
    BY <1>1, OwnedSlot, LiveIsResettable DEF Reset, IndInv, TypeOK
  <1>3. pc[t] = "live" /\ pc' = [pc EXCEPT ![t] = "live"]
    BY DEF Reset, IndInv, TypeOK, ThreadTypeOK
  <1>4. CASE ResetHeap(s)
    <2>1. MemoryTypeOK' /\ Sound(s, "live")' /\ \A x \in Slots : x # s => Same(x)
      BY <1>2, <1>4, ResetIsSound DEF Reset
    <2> QED
      BY <1>1, <1>3, <2>1, OwnerStep DEF Reset
  <1>5. CASE ResetHeapFails(s)
    <2>1. magic' \in [Slots -> BOOLEAN] /\ \A x \in Slots : x # s => magic'[x] = magic[x]
      BY <1>2 DEF MemoryTypeOK, Reset
    <2>2. /\ MemoryTypeOK' /\ Resettable(s)' /\ s \in halfReset'
          /\ \A x \in Slots : x # s => Same(x)
      BY <1>2, <1>5, <2>1, FailedResetIsSound
    <2>3. Sound(s, "live")'
      BY <2>2 DEF Sound, Resettable
    <2> QED
      BY <1>1, <1>3, <2>2, <2>3, OwnerStep DEF Reset
  <1> QED
    BY <1>1, <1>4, <1>5 DEF Reset

\* A store reaches a page in use, and is recorded.
LEMMA StoreStep ==
    ASSUME IndInv, NEW t \in Threads, Store(t)
    PROVE  IndInv'
  <1>1. PICK s \in Slots : s = slot[t]
    BY OwnedSlot DEF Store
  <1>2. MemoryTypeOK /\ Sound(s, "live")
    BY <1>1, OwnedSlot DEF Store, IndInv, TypeOK
  <1>3. PICK p \in open[s] : /\ data' = [data EXCEPT ![s][p] = "dirty"]
                             /\ written' = [written EXCEPT ![s] = @ \cup {p}]
    BY <1>1 DEF Store
  <1>4. pc[t] = "live" /\ pc' = [pc EXCEPT ![t] = "live"]
        /\ UNCHANGED <<freelist, slot, arc, magic, alloc, open, halfReset, mapped>>
    BY DEF Store, IndInv, TypeOK, ThreadTypeOK
  <1>5. p \in Pages /\ p \in Usable(alloc[s].accessible)
    BY <1>2 DEF MemoryTypeOK, Sound, Confined
  <1>6. /\ data' \in [Slots -> [Pages -> Contents]]
        /\ \A x \in Slots : x # s => data'[x] = data[x]
        /\ \A q \in Pages : data'[s][q] = IF q = p THEN "dirty" ELSE data[s][q]
    BY <1>2, <1>3, <1>5 DEF MemoryTypeOK, Contents
  <1>7. /\ written' \in [Slots -> SUBSET Pages]
        /\ \A x \in Slots : x # s => written'[x] = written[x]
        /\ written'[s] = written[s] \cup {p}
    BY <1>2, <1>3, <1>5 DEF MemoryTypeOK
  <1>8. MemoryTypeOK'
    BY <1>2, <1>4, <1>6, <1>7 DEF MemoryTypeOK
  <1>9. Sound(s, "live")'
    BY <1>2, <1>4, <1>5, <1>6, <1>7 DEF Sound, Sized, Confined, ValidSpec
  <1>10. \A x \in Slots : x # s => Same(x)
    BY <1>4, <1>6, <1>7 DEF Same
  <1> QED
    BY <1>1, <1>4, <1>8, <1>9, <1>10, OwnerStep

\* The heap grows by the pages that follow it, and leaves the guard.
LEMMA GrowMemoryStep ==
    ASSUME IndInv, NEW t \in Threads, GrowMemory(t)
    PROVE  IndInv'
  <1>1. PICK s \in Slots : s = slot[t]
    BY OwnedSlot DEF GrowMemory
  <1>2. MemoryTypeOK /\ Sound(s, "live")
    BY <1>1, OwnedSlot DEF GrowMemory, IndInv, TypeOK
  <1> DEFINE a == alloc[s]
             k == alloc[s].accessible
  <1>3. PICK n \in 1 .. SpacePages :
           /\ Growable(alloc[s], n)
           /\ open' = [open EXCEPT ![s] = @ \cup (k .. k + n - 1)]
           /\ alloc' = [alloc EXCEPT ![s] = Grown(@, n)]
    BY <1>1 DEF GrowMemory
  <1>4. pc[t] = "live" /\ pc' = [pc EXCEPT ![t] = "live"]
        /\ UNCHANGED <<freelist, slot, arc, magic, data, written, halfReset, mapped>>
    BY DEF GrowMemory, IndInv, TypeOK, ThreadTypeOK
  <1>5. /\ a \in Alloc /\ a.module \in Modules /\ a.module.guard \in Nat
        /\ k \in Nat /\ a.inaccessible \in Nat /\ a.limit \in Nat
    <2>1. a \in Alloc /\ a.module \in Modules
      BY <1>2 DEF MemoryTypeOK, Sound, Sized
    <2> QED
      BY <2>1, ModuleSizes DEF Alloc
  <1>6. /\ k + a.inaccessible = SpacePages /\ n <= a.inaccessible
        /\ a.inaccessible - n >= a.module.guard /\ k + n <= a.limit
    BY <1>2, <1>3 DEF Sound, Sized, Growable
  <1>7. /\ k + n \in Nat /\ a.inaccessible - n \in Nat
        /\ k + n + (a.inaccessible - n) = SpacePages
        /\ k + n + a.module.guard <= SpacePages /\ k + n <= SpacePages
    BY <1>5, <1>6
  <1>8. /\ alloc' \in [Slots -> Alloc]
        /\ alloc'[s].module = a.module /\ alloc'[s].limit = a.limit
        /\ alloc'[s].accessible = k + n /\ alloc'[s].inaccessible = a.inaccessible - n
        /\ \A x \in Slots : x # s => alloc'[x] = alloc[x]
    <2> DEFINE b == [a EXCEPT !.accessible = @ + n, !.inaccessible = @ - n]
    <2>1. /\ b \in Alloc /\ b.module = a.module /\ b.limit = a.limit
          /\ b.accessible = k + n /\ b.inaccessible = a.inaccessible - n
      BY <1>5, <1>7 DEF Alloc
    <2>2. alloc' = [alloc EXCEPT ![s] = b]
      BY <1>3 DEF Grown
    <2> HIDE DEF b
    <2> QED
      BY <1>2, <2>1, <2>2 DEF MemoryTypeOK
  <1>9. /\ Usable(k + n) = Usable(k) \cup (k .. k + n - 1)
        /\ k .. k + n - 1 \subseteq Pages
    BY <1>5, <1>7, Layout DEF Pages
  <1>10. /\ open' \in [Slots -> SUBSET Pages]
         /\ open'[s] = open[s] \cup (k .. k + n - 1)
         /\ \A x \in Slots : x # s => open'[x] = open[x]
    BY <1>2, <1>3, <1>9 DEF MemoryTypeOK
  <1>11. MemoryTypeOK'
    BY <1>2, <1>4, <1>8, <1>10 DEF MemoryTypeOK
  <1> HIDE DEF a, k
  <1>12. Sized(alloc[s])'
    BY <1>2, <1>6, <1>7, <1>8 DEF Sound, Sized, ValidSpec, a, k
  <1>13. Sound(s, "live")'
    BY <1>2, <1>4, <1>8, <1>9, <1>10, <1>12 DEF Sound, Confined, k
  <1>14. \A x \in Slots : x # s => Same(x)
    BY <1>4, <1>8, <1>10 DEF Same
  <1> QED
    BY <1>1, <1>4, <1>11, <1>13, <1>14, OwnerStep

\* InstanceHandle::drop marks the instance as gone and goes on to its Alloc.
LEMMA DropHandleStep ==
    ASSUME IndInv, NEW t \in Threads, DropHandle(t)
    PROVE  IndInv'
  <1>1. PICK s \in Slots : s = slot[t]
    BY OwnedSlot DEF DropHandle
  <1>2. MemoryTypeOK /\ Sound(s, "live")
    BY <1>1, OwnedSlot DEF DropHandle, IndInv, TypeOK
  <1>3. /\ magic' = [magic EXCEPT ![s] = FALSE]
        /\ pc[t] = "live" /\ pc' = [pc EXCEPT ![t] = "drop"]
        /\ UNCHANGED <<freelist, slot, arc, alloc, open, data, written, halfReset, mapped>>
    BY <1>1 DEF DropHandle, memoryVars
  <1>4. MemoryTypeOK' /\ magic'[s] = FALSE
    BY <1>2, <1>3 DEF MemoryTypeOK
  <1>5. Sound(s, "drop")'
    BY <1>2, <1>3, <1>4 DEF Sound, Sized, Confined, ValidSpec
  <1>6. \A x \in Slots : x # s => Same(x)
    BY <1>2, <1>3 DEF Same, MemoryTypeOK
  <1> QED
    BY <1>1, <1>3, <1>4, <1>5, <1>6, OwnerStep

\* Taking a slot off the freelist: it was clean, and nobody owns it.
LEMMA TakeSlotStep ==
    ASSUME IndInv, NEW t \in Threads, TakeSlot(t)
    PROVE  IndInv'
  <1> USE DEF IndInv
  <1>1. freelist \in Seq(Slots) /\ Once(freelist) /\ Listed = Elements(freelist)
    BY DEF TypeOK, ThreadTypeOK, SlotsAccounted, Once, Listed, Elements
  <1>2. PICK m \in Modules, limit \in HeapLimits, i \in NextIndex(Len(freelist)) :
           /\ ValidSpec(m, limit)
           /\ slot' = [slot EXCEPT ![t] = freelist[i]]
           /\ freelist' = SwapRemove(freelist, i)
           /\ alloc' = [alloc EXCEPT ![freelist[i]] =
                           [module |-> m, limit |-> limit, accessible |-> 0,
                            inaccessible |-> SpacePages]]
    BY DEF TakeSlot
  <1>3. i \in 1 .. Len(freelist)
    <2>1. Len(freelist) \in Nat \ {0}
      BY <1>1, EmptySeq DEF TakeSlot
    <2> QED
      BY <2>1 DEF NextIndex
  <1>4. PICK s \in Slots : s = freelist[i]
    BY <1>1, <1>3, SwapRemoveTakes
  <1>5. /\ freelist' \in Seq(Slots) /\ Once(freelist') /\ Elements(freelist') = Listed \ {s}
        /\ s \in Listed
    BY <1>1, <1>2, <1>3, <1>4, SwapRemoveTakes
  <1>6. Listed' = Listed \ {s}
    BY <1>5 DEF Listed, Elements
  <1>7. /\ pc[t] = "idle" /\ arc[t] /\ pc' = [pc EXCEPT ![t] = "taken"]
        /\ UNCHANGED <<arc, magic, open, data, written, halfReset, mapped>>
    BY DEF TakeSlot, memoryVars
  <1>8. /\ pc'[t] = "taken" /\ slot'[t] = s
        /\ \A u \in Threads : u # t => pc'[u] = pc[u] /\ slot'[u] = slot[u]
    BY <1>2, <1>4, <1>7 DEF TypeOK, ThreadTypeOK
  <1>9. /\ limit \in Nat
        /\ m.guard \in Nat /\ m.reserved \in Nat /\ m.reserved + m.guard <= SpacePages
    BY <1>2, ModuleSizes DEF ValidSpec
  <1>10. /\ alloc' \in [Slots -> Alloc]
         /\ alloc'[s].module = m /\ alloc'[s].limit = limit
         /\ alloc'[s].accessible = 0 /\ alloc'[s].inaccessible = SpacePages
         /\ \A x \in Slots : x # s => alloc'[x] = alloc[x]
    <2> DEFINE a == [module |-> m, limit |-> limit, accessible |-> 0,
                     inaccessible |-> SpacePages]
    <2>1. /\ a \in Alloc /\ a.module = m /\ a.limit = limit /\ a.accessible = 0
          /\ a.inaccessible = SpacePages
      BY <1>9 DEF Alloc
    <2>2. alloc' = [alloc EXCEPT ![s] = a]
      BY <1>2, <1>4
    <2> HIDE DEF a
    <2> QED
      BY <2>1, <2>2 DEF TypeOK, MemoryTypeOK
  <1>11. TypeOK'
    <2>1. ThreadTypeOK'
      BY <1>2, <1>4, <1>5, <1>7 DEF TypeOK, ThreadTypeOK, Places
    <2>2. MemoryTypeOK'
      BY <1>7, <1>10 DEF TypeOK, MemoryTypeOK
    <2> QED
      BY <2>1, <2>2 DEF TypeOK
  <1>12. ThreadInv'
    BY <1>7, <1>8 DEF ThreadInv
  <1>13. SlotsAccounted'
    <2>1. \A i_1, j \in DOMAIN freelist' : freelist'[i_1] = freelist'[j] => i_1 = j
      BY <1>5 DEF Once
    <2>2. \A u \in Threads : pc[u] \in Owning => slot[u] # s
      BY <1>5 DEF SlotsAccounted
    <2>3. \A u, v \in Threads :
             pc'[u] \in Owning /\ pc'[v] \in Owning /\ u # v => slot'[u] # slot'[v]
      BY <1>8, <2>2 DEF SlotsAccounted
    <2>4. \A x \in Slots :
             x \in Listed' <=> ~ \E u \in Threads : pc'[u] \in Owning /\ slot'[u] = x
      <3> SUFFICES ASSUME NEW x \in Slots
                   PROVE  x \in Listed' <=>
                             ~ \E u \in Threads : pc'[u] \in Owning /\ slot'[u] = x
        OBVIOUS
      <3>1. CASE x = s
        BY <1>6, <1>8, <3>1
      <3>2. CASE x # s
        BY <1>6, <1>7, <1>8, <3>2 DEF SlotsAccounted
      <3> QED
        BY <3>1, <3>2
    <2> QED
      BY <2>1, <2>3, <2>4 DEF SlotsAccounted
  <1>14. \A x \in Slots : x # s => Same(x)
    BY <1>7, <1>10 DEF Same
  <1>15. Clean(s)'
    BY <1>5, <1>7 DEF SlotInv, Clean, Zeroed
  <1>16. Sound(s, "taken")'
    <2>1. Sized(alloc[s])'
      BY <1>2, <1>9, <1>10, SMTT(30) DEF Sized, ValidSpec
    <2>2. Confined(s)'
      BY <1>15 DEF Clean, Zeroed, Confined
    <2> QED
      BY <1>10, <1>15, <2>1, <2>2 DEF Sound
  <1>17. SlotInv'
    <2>1. ASSUME NEW x \in Slots, x \in Listed' PROVE Clean(x)'
      BY <1>6, <1>14, <2>1, SameIsSound DEF SlotInv
    <2>2. ASSUME NEW u \in Threads, NEW x \in Slots, NEW q \in Owning,
                 slot'[u] = x, pc'[u] = q
          PROVE  Sound(x, q)'
      <3>1. CASE u = t
        BY <1>8, <1>16, <2>2, <3>1
      <3>2. CASE u # t
        <4>1. x # s /\ Sound(x, q)
          BY <1>5, <1>8, <2>2, <3>2, SMTT(30) DEF SlotsAccounted, SlotInv
        <4> QED
          BY <4>1, <1>14, SameIsSound
      <3> QED
        BY <3>1, <3>2
    <2> QED
      BY <2>1, <2>2 DEF SlotInv
  <1>18. MapInv'
    BY <1>7 DEF MapInv, Alive
  <1> QED
    BY <1>11, <1>12, <1>13, <1>17, <1>18

\* The last reference to the region unmaps all of it: every slot is on the freelist.
LEMMA Reclaimed ==
    ASSUME MapInv, Alive, Reclaim, TypeOK', ThreadInv', SlotsAccounted'
    PROVE  MapInv'
  <1>1. mapped = Slots
    BY DEF MapInv
  <1>2. CASE Alive'
    BY <1>1, <1>2 DEF Reclaim, MapInv
  <1>3. CASE ~Alive'
    <2>1. \A t \in Threads : pc'[t] \notin Owning
      BY <1>3 DEF Alive, Keeping, ThreadInv
    <2>2. Slots \subseteq Listed'
      BY <2>1 DEF SlotsAccounted
    <2> QED
      BY <1>1, <1>3, <2>2 DEF Reclaim, MapInv
  <1> QED
    BY <1>2, <1>3

\* Steps that leave slots and freelist as they are, by threads that own nothing or go on
\* as they were.
LEMMA ReferenceStep ==
    ASSUME IndInv, NEW t \in Threads, TypeOK', ThreadInv', Reclaim, Alive,
           UNCHANGED <<freelist, magic, alloc, open, data, written, halfReset>>,
           \A u \in Threads :
              \/ pc'[u] = pc[u] /\ slot'[u] = slot[u]
              \/ pc[u] \notin Owning /\ pc'[u] \notin Owning
    PROVE  IndInv'
  <1> USE DEF IndInv
  <1>1. Listed' = Listed
    BY DEF Listed
  <1>2. SlotsAccounted'
    BY <1>1 DEF SlotsAccounted
  <1>3. \A s \in Slots : Same(s)
    BY DEF Same
  <1>4. SlotInv'
    <2>1. ASSUME NEW x \in Slots, x \in Listed' PROVE Clean(x)'
      BY <1>1, <1>3, <2>1, SameIsSound DEF SlotInv
    <2>2. ASSUME NEW u \in Threads, NEW x \in Slots, NEW q \in Owning,
                 slot'[u] = x, pc'[u] = q
          PROVE  Sound(x, q)'
      <3>1. Sound(x, q)
        BY <2>2 DEF SlotInv
      <3> QED
        BY <1>3, <3>1, SameIsSound
    <2> QED
      BY <2>1, <2>2 DEF SlotInv
  <1>5. MapInv'
    BY <1>2, Reclaimed
  <1> QED
    BY <1>2, <1>4, <1>5

\* A reference to the region is dropped, and with the last one the region.
LEMMA DropArcStep ==
    ASSUME IndInv, NEW t \in Threads, DropArc(t)
    PROVE  IndInv'
  <1> USE DEF IndInv, DropArc, memoryVars
  <1>1. TypeOK'
    <2>1. mapped' \in SUBSET Slots
      BY DEF Reclaim, TypeOK, ThreadTypeOK
    <2> QED
      BY <2>1 DEF TypeOK, ThreadTypeOK, MemoryTypeOK
  <1>2. ThreadInv'
    BY DEF ThreadInv, TypeOK, ThreadTypeOK
  <1>3. Alive
    BY DEF Alive
  <1> QED
    BY <1>1, <1>2, <1>3, ReferenceStep

\* The instance's fields are dropped, its reference to the region with them.
LEMMA DropFieldsStep ==
    ASSUME IndInv, NEW t \in Threads, DropFields(t)
    PROVE  IndInv'
  <1> USE DEF IndInv, DropFields, memoryVars
  <1>1. TypeOK'
    <2>1. mapped' \in SUBSET Slots
      BY DEF Reclaim, TypeOK, ThreadTypeOK
    <2> QED
      BY <2>1 DEF TypeOK, ThreadTypeOK, MemoryTypeOK, Places
  <1>2. pc'[t] = "release" /\ \A u \in Threads : u # t => pc'[u] = pc[u]
    BY DEF TypeOK, ThreadTypeOK
  <1>3. ThreadInv'
    BY <1>2 DEF ThreadInv
  <1>4. Alive
    BY DEF Alive, Keeping
  <1> QED
    BY <1>1, <1>2, <1>3, <1>4, ReferenceStep

\* The end of InstanceHandle::drop: its clone of the region goes.
LEMMA ReleaseRegionStep ==
    ASSUME IndInv, NEW t \in Threads, ReleaseRegion(t)
    PROVE  IndInv'
  <1> USE DEF IndInv, ReleaseRegion, memoryVars
  <1>1. TypeOK'
    <2>1. mapped' \in SUBSET Slots
      BY DEF Reclaim, TypeOK, ThreadTypeOK
    <2> QED
      BY <2>1 DEF TypeOK, ThreadTypeOK, MemoryTypeOK, Places
  <1>2. /\ pc'[t] = "idle"
        /\ \A u \in Threads : u # t => pc'[u] = pc[u] /\ slot'[u] = slot[u]
    BY DEF TypeOK, ThreadTypeOK
  <1>3. ThreadInv'
    BY <1>2 DEF ThreadInv
  <1>4. Alive
    BY DEF Alive, Keeping
  <1> QED
    BY <1>1, <1>2, <1>3, <1>4, ReferenceStep

\* drop_alloc finds every page that is open or holds anything, and the slot that it lists
\* is clean.
LEMMA DropAllocStep ==
    ASSUME IndInv, NEW t \in Threads, DropAlloc(t)
    PROVE  IndInv'
  <1>1. PICK s \in Slots : s = slot[t]
    BY OwnedSlot DEF DropAlloc
  <1>2. MemoryTypeOK /\ ThreadTypeOK /\ Sound(s, "drop")
    BY <1>1, OwnedSlot DEF DropAlloc, IndInv, TypeOK
  <1> DEFINE ps == DropPages(alloc[s]) \cup SidePages
  <1>3. /\ pc[t] = "drop" /\ pc' = [pc EXCEPT ![t] = "fields"]
        /\ open' = [open EXCEPT ![s] = @ \ ps]
        /\ data' = [data EXCEPT ![s] = Cleared(s, ps)]
        /\ alloc' = [alloc EXCEPT ![s] = NoAlloc]
        /\ written' = [written EXCEPT ![s] = {}]
        /\ halfReset' = halfReset \ {s}
        /\ freelist' = Append(freelist, s)
        /\ UNCHANGED <<slot, arc, magic>>
        /\ Reclaim
    BY <1>1 DEF DropAlloc
  <1>4. Usable(alloc[s].accessible) = ps
    <2>1. /\ alloc[s].accessible \in Nat /\ alloc[s].inaccessible \in Nat
          /\ alloc[s].accessible + alloc[s].inaccessible = SpacePages
      BY <1>2 DEF MemoryTypeOK, Alloc, Sound, Sized
    <2>2. alloc[s].accessible <= SpacePages
      BY <2>1
    <2> QED
      BY <2>1, <2>2, Layout DEF DropPages
  <1> HIDE DEF ps
  <1>5. /\ open' \in [Slots -> SUBSET Pages] /\ open'[s] = {}
        /\ \A x \in Slots : x # s => open'[x] = open[x]
    BY <1>2, <1>3, <1>4 DEF MemoryTypeOK, Sound, Confined
  <1>6. /\ data' \in [Slots -> [Pages -> Contents]]
        /\ \A p \in Pages : data'[s][p] = "zero"
        /\ \A x \in Slots : x # s => data'[x] = data[x]
    <2>1. /\ Cleared(s, ps) \in [Pages -> Contents]
          /\ \A p \in Pages : Cleared(s, ps)[p] = "zero"
      BY <1>2, <1>4 DEF MemoryTypeOK, Sound, Confined, Cleared, Contents
    <2> QED
      BY <1>2, <1>3, <2>1 DEF MemoryTypeOK
  <1>7. /\ alloc' \in [Slots -> Alloc]
        /\ \A x \in Slots : x # s => alloc'[x] = alloc[x]
    <2>1. NoAlloc \in Alloc
      BY DEF NoAlloc, Alloc
    <2> QED
      BY <1>2, <1>3, <2>1 DEF MemoryTypeOK
  <1>8. /\ written' \in [Slots -> SUBSET Pages]
        /\ \A x \in Slots : x # s => written'[x] = written[x]
    BY <1>2, <1>3 DEF MemoryTypeOK
  <1>9. MemoryTypeOK'
    BY <1>2, <1>3, <1>5, <1>6, <1>7, <1>8 DEF MemoryTypeOK
  <1>10. /\ Clean(s)'
         /\ \A x \in Slots : x # s => Same(x)
    <2>1. magic'[s] = FALSE
      BY <1>2, <1>3 DEF Sound
    <2>2. Clean(s)'
      BY <1>5, <1>6, <2>1 DEF Clean, Zeroed
    <2>3. \A x \in Slots : x # s => Same(x)
      BY <1>3, <1>5, <1>6, <1>7, <1>8 DEF Same
    <2> QED
      BY <2>2, <2>3
  <1>11. freelist \in Seq(Slots) /\ Once(freelist) /\ Listed = Elements(freelist)
    BY <1>2 DEF ThreadTypeOK, IndInv, SlotsAccounted, Once, Listed, Elements
  <1>12. s \notin Listed
    BY <1>1, <1>3 DEF IndInv, SlotsAccounted
  <1>13. /\ freelist' \in Seq(Slots) /\ Once(freelist')
         /\ Elements(freelist') = Listed \cup {s}
    BY <1>3, <1>11, <1>12, AppendLists
  <1>14. Listed' = Listed \cup {s}
    BY <1>13 DEF Listed, Elements
  <1>15. /\ pc'[t] = "fields" /\ slot' = slot /\ arc' = arc
         /\ \A u \in Threads : u # t => pc'[u] = pc[u]
    BY <1>2, <1>3 DEF ThreadTypeOK
  <1>16. TypeOK'
    <2>1. mapped' \in SUBSET Slots
      BY <1>2, <1>3 DEF Reclaim, ThreadTypeOK
    <2>2. ThreadTypeOK'
      BY <1>2, <1>3, <1>13, <2>1 DEF ThreadTypeOK, Places
    <2> QED
      BY <1>9, <2>2 DEF TypeOK
  <1>17. ThreadInv'
    BY <1>3, <1>15 DEF ThreadInv, IndInv
  <1>18. SlotsAccounted'
    <2>1. \A i, j \in DOMAIN freelist' : freelist'[i] = freelist'[j] => i = j
      BY <1>13 DEF Once
    <2>2. \A u, v \in Threads :
             pc'[u] \in Owning /\ pc'[v] \in Owning /\ u # v => slot'[u] # slot'[v]
      BY <1>15 DEF SlotsAccounted, IndInv
    <2>3. ASSUME NEW x \in Slots
          PROVE  x \in Listed' <=> ~ \E u \in Threads : pc'[u] \in Owning /\ slot'[u] = x
      <3>1. CASE x = s
        BY <1>1, <1>3, <1>14, <1>15, <3>1 DEF SlotsAccounted, IndInv
      <3>2. CASE x # s
        BY <1>1, <1>14, <1>15, <3>2 DEF SlotsAccounted, IndInv
      <3> QED
        BY <3>1, <3>2
    <2> QED
      BY <2>1, <2>2, <2>3 DEF SlotsAccounted
  <1>19. SlotInv'
    <2>1. ASSUME NEW x \in Slots, x \in Listed' PROVE Clean(x)'
      <3>1. CASE x = s
        BY <1>10, <3>1
      <3>2. CASE x # s
        BY <1>10, <1>14, <2>1, <3>2, SameIsSound DEF SlotInv, IndInv
      <3> QED
        BY <3>1, <3>2
    <2>2. ASSUME NEW u \in Threads, NEW x \in Slots, NEW q \in Owning,
                 slot'[u] = x, pc'[u] = q
          PROVE  Sound(x, q)'
      <3>1. u # t /\ pc[u] = q /\ slot[u] = x
        BY <1>15, <2>2
      <3>2. x # s /\ Sound(x, q)
        BY <1>1, <1>3, <3>1, SMTT(30) DEF SlotsAccounted, SlotInv, IndInv
      <3> QED
        BY <3>2, <1>10, SameIsSound
    <2> QED
      BY <2>1, <2>2 DEF SlotInv
  <1>20. Alive
    BY <1>3 DEF Alive, Keeping
  <1>21. MapInv'
    BY <1>3, <1>16, <1>17, <1>18, <1>20, Reclaimed DEF IndInv
  <1> QED
    BY <1>16, <1>17, <1>18, <1>19, <1>21 DEF IndInv

-----------------------------------------------------------------------------
(* The theorems.                                                           *)

\* A new region: every slot listed, mapped, closed and clear.
LEMMA InvInit == Init => IndInv
  <1> SUFFICES ASSUME Init PROVE IndInv
    OBVIOUS
  <1> USE DEF Init
  <1>1. freelist \in Seq(Slots) /\ DOMAIN freelist = Slots /\ Listed = Slots
    BY DEF Listed
  <1>2. TypeOK
    <2>1. NoAlloc \in Alloc
      BY DEF NoAlloc, Alloc
    <2>2. data \in [Slots -> [Pages -> Contents]]
      BY DEF Contents
    <2> QED
      BY <1>1, <2>1, <2>2 DEF TypeOK, ThreadTypeOK, MemoryTypeOK, Places
  <1>3. ThreadInv
    BY DEF ThreadInv
  <1>4. SlotsAccounted
    BY <1>1 DEF SlotsAccounted
  <1>5. SlotInv
    BY DEF SlotInv, Clean, Zeroed
  <1>6. MapInv
    BY ThreadsAssumption DEF MapInv, Alive
  <1> QED
    BY <1>2, <1>3, <1>4, <1>5, <1>6 DEF IndInv

\* Every step keeps the invariant.
LEMMA InvStep == IndInv /\ [Next]_vars => IndInv'
  <1> SUFFICES ASSUME IndInv, [Next]_vars PROVE IndInv'
    OBVIOUS
  <1>1. CASE UNCHANGED vars
    BY <1>1 DEF vars, memoryVars, IndInv, TypeOK, ThreadTypeOK, MemoryTypeOK, ThreadInv,
                SlotsAccounted, Listed, SlotInv, MapInv, Alive, Clean, Zeroed, Sound, Sized,
                Confined, ValidSpec
  <1>2. CASE Next
    <2>1. PICK t \in Threads : Step(t)
      BY <1>2 DEF Next
    <2> QED
      BY <2>1, TakeSlotStep, WriteInstanceStep, FirstResetStep, StoreStep, GrowMemoryStep,
         ResetStep, DropArcStep, DropHandleStep, DropAllocStep, DropFieldsStep,
         ReleaseRegionStep DEF Step
  <1> QED
    BY <1>1, <1>2

\* The invariant holds of every behaviour.
THEOREM InvAlways == Spec => []IndInv
  BY InvInit, InvStep, PTL DEF Spec

\* As long as the region lives, Region::freelist and the instances share out the slots:
\* none is handed out twice and none is lost, whichever way new_instance_with and
\* drop_alloc of several threads interleave, and wherever they fail.
THEOREM SlotsAreAccounted == Spec => []SlotsAccounted
  <1>1. IndInv => SlotsAccounted
    BY DEF IndInv
  <1> QED
    BY InvAlways, <1>1, PTL

\* drop_alloc leaves nothing in a slot that the next instance would find, and reset_heap
\* nothing that the instance itself has stored before, whatever grew or failed between.
THEOREM NothingIsLeftOver == Spec => []NoLeftovers
  <1>1. IndInv => NoLeftovers
    <2> SUFFICES ASSUME IndInv PROVE NoLeftovers
      OBVIOUS
    <2>1. \A s \in Listed : s \in Slots
      BY LenProperties DEF IndInv, TypeOK, ThreadTypeOK, Listed
    <2>2. \A s \in Listed :
             open[s] = {} /\ ~magic[s] /\ \A p \in Pages : data[s][p] = "zero"
      BY <2>1 DEF IndInv, SlotInv, Clean, Zeroed
    <2>3. ASSUME NEW t \in Threads, pc[t] = "live"
          PROVE  \A p \in Pages : data[slot[t]][p] = "dirty" => p \in written[slot[t]]
      BY <2>3, OwnedSlot DEF Sound
    <2> QED
      BY <2>2, <2>3 DEF NoLeftovers
  <1> QED
    BY InvAlways, <1>1, PTL

\* The sizes that expand_heap and reset_heap record are the protection that the pages of
\* the slot really have, and a heap never grows into the guard or past its limit.
THEOREM LayoutIsKept == Spec => []HeapLayout
  <1>1. IndInv => HeapLayout
    <2> SUFFICES ASSUME IndInv, NEW t \in Threads, pc[t] = "live",
                        NEW s \in Slots, s = slot[t]
                 PROVE  LET a == alloc[s]
                            usable == {p \in Pages : AddrLocation(a.accessible, p) \in
                                          {"Heap", "Stack", "Globals", "SigStack"}}
                        IN  /\ a.accessible + a.inaccessible = SpacePages
                            /\ open[s] \subseteq usable
                            /\ s \notin halfReset => open[s] = usable
                            /\ \A p \in open[s] :
                                  p < SpacePages => p + a.module.guard < SpacePages
                            /\ a.accessible <= a.limit
      BY OwnedSlot DEF HeapLayout
    <2> DEFINE a == alloc[s]
    <2>1. Sound(s, "live")
      BY OwnedSlot
    <2>2. /\ a.accessible \in Nat /\ a.inaccessible \in Nat
          /\ a.module \in Modules /\ a.module.guard \in Nat
          /\ a.accessible + a.inaccessible = SpacePages
          /\ a.accessible + a.module.guard <= SpacePages
          /\ a.accessible <= a.limit
      BY <2>1, ModuleSizes DEF IndInv, TypeOK, MemoryTypeOK, Alloc, Sound, Sized
    <2>3. a.accessible <= SpacePages
      BY <2>2
    <2>4. /\ open[s] \subseteq Usable(a.accessible)
          /\ s \notin halfReset => open[s] = Usable(a.accessible)
      BY <2>1 DEF Sound, Confined
    <2>5. ASSUME NEW p \in Usable(a.accessible), p < SpacePages
          PROVE  p + a.module.guard < SpacePages
      <3>1. p \in Pages /\ p < a.accessible
        BY <2>5 DEF Usable, SidePages, Stack, Globals, SigStack
      <3> QED
        BY <2>2, <3>1 DEF Pages
    <2> HIDE DEF a
    <2> QED
      BY <2>2, <2>3, <2>4, <2>5, UsableIsLocated DEF a
  <1> QED
    BY InvAlways, <1>1, PTL

\* The region outlives every thread that works on one of its slots, and leaves nothing
\* mapped when its last reference goes: Drop for MmapRegion finds every slot listed.
THEOREM RegionOutlivesUse == Spec => []MappedWhileUsed
  <1>1. IndInv => MappedWhileUsed
    <2> SUFFICES ASSUME IndInv PROVE MappedWhileUsed
      OBVIOUS
    <2>1. ASSUME NEW t \in Threads, pc[t] \in Working PROVE slot[t] \in mapped
      <3>1. Alive
        BY <2>1 DEF IndInv, ThreadInv, Alive, Keeping
      <3>2. slot[t] \in Slots
        BY <2>1 DEF IndInv, ThreadInv
      <3> QED
        BY <3>1, <3>2 DEF IndInv, MapInv
    <2> QED
      BY <2>1 DEF IndInv, MapInv, MappedWhileUsed
  <1> QED
    BY InvAlways, <1>1, PTL
=============================================================================
