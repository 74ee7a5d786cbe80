-------------------------- MODULE UffdRegionProofs --------------------------
(***************************************************************************)
(* What UffdRegion promises, for any number of threads, slots, modules and *)
(* pages: each slot is accounted for, a page is there with the contents it *)
(* should have, a thread is only faulted outside its memory, and the       *)
(* worker only ever fails for an error that the kernel answered with.      *)
(*                                                                         *)
(* The invariant ties the three parts together that share no lock: a slot  *)
(* has one user; an event is for a page that its slot's user waits for,    *)
(* and for no other; and of a slot that nobody fills, the pages of a wasm  *)
(* page are all there or all missing, so that filling it meets no page.    *)
(***************************************************************************)
EXTENDS UffdRegion, TLAPS

-----------------------------------------------------------------------------
(* The inductive invariant.                                                *)

Making == {"side", "heap", "build"}
Living == {"guest", "blocked", "faulted"}
Regions == {"creating", "up", "joining", "unmapped", "panicked", "aborted"}
Word == Modules \cup {Missing, Zero, Dirty}
Instance == [module : Modules \cup {None}, size : 0 .. HeapPages]
Thread == [at : {"idle"} \cup Making \cup Living, slot : 0 .. Capacity,
           module : Modules \cup {None}, page : Pages, tries : Nat]
Event == [slot : Slots, page : Pages]
WorkerState == [at : {"poll", "handle", "fill", "failed", "unregistered", "ended"},
                slot : 0 .. Capacity, page : Pages, next : Pages, tries : Nat,
                error : {None, "ENOENT", "kernel"}]

\* The error of the worker is part of its type: it is always one of the kernel's.
TypeOK ==
    /\ config \in Configs
    /\ region \in Regions
    /\ freelist \subseteq 1 .. config.capacity
    /\ inst \in [Slots -> Instance]
    /\ page \in [Slots -> [Pages -> Word]]
    /\ thread \in [Threads -> Thread]
    /\ events \in Seq(Event)
    /\ worker \in WorkerState
    /\ pipe \in BOOLEAN
    /\ registered \in BOOLEAN
    /\ lost \subseteq 1 .. config.capacity
    /\ written \in [Slots -> SUBSET Heap]

At(t, s, S) == thread[t].at \in S /\ thread[t].slot = s

\* A slot is free, lost, or has exactly one user.
SlotInv ==
    /\ freelist \cap lost = {}
    /\ \A t \in Threads : thread[t].at # "idle" =>
          thread[t].slot \in (1 .. config.capacity) \ (freelist \cup lost)
    /\ \A t, u \in Threads :
          thread[t].at # "idle" /\ thread[u].at # "idle" /\ thread[t].slot = thread[u].slot
              => t = u
    /\ region = "up" => \A s \in 1 .. config.capacity :
          s \in freelist \cup lost \/ \E t \in Threads : At(t, s, Making \cup Living)

\* Nobody uses a region that is being made or is gone.
RegionInv ==
    /\ region \in {"creating", "joining", "unmapped", "panicked"} =>
          \A t \in Threads : thread[t].at = "idle"
    /\ region = "creating" => lost = {} /\ \A s \in Slots : page[s] = Blank
    /\ pipe = TRUE => region \notin {"creating", "up"}

\* There is an Instance in the slots of those that use one, and nowhere else.
InstInv ==
    /\ \A t \in Threads : thread[t].at \in Making => thread[t].module \in Modules
    /\ \A t \in Threads : thread[t].at \in Living =>
          /\ inst[thread[t].slot].module \in Modules
          /\ \E k \in 0 .. MaxWasm : inst[thread[t].slot].size = k * PerWasm
    /\ \A s \in Slots : inst[s] # NoInst => \E t \in Threads : At(t, s, Living)

\* The worker has unregistered the region, or is still at work or told to end; one that
\* polls is at no slot.
WorkerInv ==
    /\ worker.at = "poll" => worker.slot = 0
    /\ registered = FALSE => worker.at \in {"unregistered", "ended"}
    /\ worker.at = "unregistered" => registered = FALSE
    /\ worker.at = "ended" /\ registered = TRUE => pipe = TRUE

\* The worker has a fault, or had one when it failed.
Busy == worker.at \in {"handle", "fill"} \/ (worker.at = "failed" /\ worker.slot # 0)
WaitsFor(t, s, p) == thread[t].at = "blocked" /\ thread[t].slot = s /\ thread[t].page = p

\* What is to be handled, and what is being handled, is a fault that somebody waits for,
\* each in a slot of its own.
EventInv ==
    registered = TRUE =>
        /\ \A i \in DOMAIN events :
              \E t \in Threads : WaitsFor(t, events[i].slot, events[i].page)
        /\ \A i, j \in DOMAIN events : events[i].slot = events[j].slot => i = j
        /\ Busy => /\ \E t \in Threads : WaitsFor(t, worker.slot, worker.page)
                   /\ \A i \in DOMAIN events : events[i].slot # worker.slot

\* Is the worker, or was it when it failed, in the middle of a wasm page of the slot?
Filling(s) == worker.at \in {"fill", "failed"} /\ worker.slot = s

\* The pages that heap_fault fills together are together there or missing.
Uniform(s) ==
    \A p, q \in Heap : FirstPage(p) = FirstPage(q) =>
        (page[s][p] = Missing <=> page[s][q] = Missing)

\* The slot s of somebody who makes an instance from module m in it.
MadeInv(at, s, m) ==
    /\ at = "side" => page[s] = Blank
    /\ at = "heap" => \A p \in Heap : page[s][p] = Missing
    /\ at = "build" => \A p \in Heap \ HeapOf(m) : page[s][p] = Missing

\* The slot s of somebody who uses its instance and last accessed page p.
LiveInv(at, s, p) ==
    /\ \A q \in Heap : page[s][q] # Missing =>
          /\ q < inst[s].size
          /\ q \in written[s] \/ page[s][q] = Contents(inst[s].module, q)
    /\ ~Filling(s) => Uniform(s) /\ (at = "blocked" => page[s][p] = Missing)
    /\ at = "faulted" => ~(p < inst[s].size) /\ p # Stack

OwnInv(t) ==
    LET s == thread[t].slot IN
    /\ thread[t].at \in Making => MadeInv(thread[t].at, s, thread[t].module)
    /\ thread[t].at \in Living => LiveInv(thread[t].at, s, thread[t].page)
    /\ thread[t].at \in {"heap", "build"} \cup Living /\ config.stackInit = "Eager" =>
          page[s][Stack] # Missing

\* Where the worker is in what it fills: a page of the stack, or a wasm page of the heap
\* that is there up to the next page.
FillInv ==
    worker.at = "fill" =>
        LET s == worker.slot IN
        \/ /\ worker.page = Stack /\ worker.next = Stack
           /\ page[s][Stack] = Missing /\ Uniform(s)
        \/ /\ worker.page < inst[s].size /\ worker.next < inst[s].size
           /\ FirstPage(worker.next) = FirstPage(worker.page)
           /\ \A q \in Heap : FirstPage(q) = FirstPage(worker.page) =>
                 (page[s][q] = Missing <=> q >= worker.next)
           /\ \A p, q \in Heap :
                 FirstPage(p) = FirstPage(q) /\ FirstPage(p) # FirstPage(worker.page)
                     => (page[s][p] = Missing <=> page[s][q] = Missing)

MemoryInv ==
    registered = TRUE =>
        /\ \A t \in Threads : OwnInv(t)
        /\ \A s \in freelist : page[s] = Blank
        /\ FillInv

IndInv == TypeOK /\ SlotInv /\ RegionInv /\ InstInv /\ WorkerInv /\ EventInv /\ MemoryInv

-----------------------------------------------------------------------------
(* Pages.                                                                  *)

\* What the bounds are for: the wasm pages, the heap and the areas behind it.
LEMMA PagesAre ==
    /\ PerWasm \in Nat /\ PerWasm > 1 /\ MaxWasm \in Nat /\ HeapPages \in Nat
    /\ Heap \subseteq Pages
    /\ {StackGuard, Stack, Globals, SigStack} \subseteq Pages \ Heap
    /\ \A p \in Pages : p \in Nat /\ (p < HeapPages <=> p \in Heap)
    /\ Slots \subseteq 0 .. Capacity /\ 0 \in Pages /\ 0 \in 0 .. Capacity
  <1>1. HeapPages \in Nat
    BY UffdAssumption DEF HeapPages
  <1> QED
    BY <1>1, UffdAssumption DEF Heap, Pages, StackGuard, Stack, Globals, SigStack, Slots

\* A multiple of the wasm page's size that is less than another is one page less.
LEMMA Multiples ==
    ASSUME NEW a \in Nat, NEW b \in Nat, NEW r \in Nat, a * PerWasm + r < b * PerWasm
    PROVE  (a + 1) * PerWasm <= b * PerWasm
  <1>1. PerWasm \in Nat /\ PerWasm > 1
    BY PagesAre
  <1>2. a * PerWasm \in Nat /\ b * PerWasm \in Nat
    BY <1>1
  <1>3. a < b
    <2>1. SUFFICES ASSUME b <= a PROVE FALSE
      OBVIOUS
    <2>2. b * PerWasm <= a * PerWasm
      BY <1>1, <2>1
    <2> QED
      BY <1>2, <2>2
  <1> QED
    BY <1>1, <1>3

\* Division by the number of host pages in a wasm page.
LEMMA Division ==
    ASSUME NEW n \in Nat
    PROVE  \E a \in Nat : n = a * PerWasm + (n % PerWasm) /\ n % PerWasm \in 0 .. PerWasm - 1
  <1>1. PerWasm \in Nat /\ PerWasm > 1
    BY PagesAre
  <1>2. n \div PerWasm \in Nat /\ n % PerWasm \in 0 .. PerWasm - 1
    BY <1>1
  <1>3. n = (n \div PerWasm) * PerWasm + (n % PerWasm)
    BY <1>1
  <1> QED
    BY <1>2, <1>3

\* A quotient and a remainder are the only ones.
LEMMA OneQuotient ==
    ASSUME NEW a \in Nat, NEW b \in Nat, NEW r \in 0 .. PerWasm - 1,
           NEW s \in 0 .. PerWasm - 1, a * PerWasm + r = b * PerWasm + s
    PROVE  a = b /\ r = s
  <1>1. PerWasm \in Nat /\ PerWasm > 1 /\ a * PerWasm \in Nat /\ b * PerWasm \in Nat
    BY PagesAre
  <1>2. ~(a < b)
    <2>1. SUFFICES ASSUME a < b PROVE FALSE
      OBVIOUS
    <2>2. (a + 1) * PerWasm <= b * PerWasm
      BY <1>1, <2>1
    <2> QED
      BY <1>1, <2>2
  <1>3. ~(b < a)
    <2>1. SUFFICES ASSUME b < a PROVE FALSE
      OBVIOUS
    <2>2. (b + 1) * PerWasm <= a * PerWasm
      BY <1>1, <2>1
    <2> QED
      BY <1>1, <2>2
  <1> QED
    BY <1>1, <1>2, <1>3

\* The first page of a wasm page.
Base(n) == n - (n % PerWasm)

\* It is at or before the page, a multiple of the wasm page's size, and its own first page.
LEMMA BaseIs ==
    ASSUME NEW n \in Nat
    PROVE  /\ Base(n) \in Nat /\ Base(n) <= n /\ n < Base(n) + PerWasm
           /\ Base(Base(n)) = Base(n)
           /\ \E a \in Nat : Base(n) = a * PerWasm
  <1>1. PerWasm \in Nat /\ PerWasm > 1
    BY PagesAre
  <1>2. PICK a \in Nat : n = a * PerWasm + (n % PerWasm) /\ n % PerWasm \in 0 .. PerWasm - 1
    BY Division
  <1>3. a * PerWasm \in Nat /\ Base(n) = a * PerWasm
    <2>1. PICK x \in Nat : x = a * PerWasm
      BY <1>1
    <2>2. n - (n % PerWasm) = x
      BY <1>2, <2>1
    <2> QED
      BY <2>1, <2>2 DEF Base
  <1>4. PICK b \in Nat : /\ Base(n) = b * PerWasm + (Base(n) % PerWasm)
                         /\ Base(n) % PerWasm \in 0 .. PerWasm - 1
    BY <1>3, Division
  <1>5. a * PerWasm + 0 = b * PerWasm + (Base(n) % PerWasm) /\ 0 \in 0 .. PerWasm - 1
    BY <1>1, <1>3, <1>4
  <1>6. Base(n) % PerWasm = 0
    BY <1>4, <1>5, OneQuotient
  <1>7. Base(Base(n)) = Base(n)
    BY <1>3, <1>6 DEF Base
  <1> QED
    BY <1>1, <1>2, <1>3, <1>7

\* A page that does not begin a wasm page is in that of the page before it; one that
\* does is behind all of it.
LEMMA BaseNext ==
    ASSUME NEW n \in Nat
    PROVE  /\ (n + 1) % PerWasm # 0 => Base(n + 1) = Base(n)
           /\ (n + 1) % PerWasm = 0 => \A q \in Nat : Base(q) = Base(n) => q <= n
  <1>1. PerWasm \in Nat /\ PerWasm > 1
    BY PagesAre
  <1>2. PICK a \in Nat : n = a * PerWasm + (n % PerWasm) /\ n % PerWasm \in 0 .. PerWasm - 1
    BY Division
  <1>3. PICK b \in Nat : /\ n + 1 = b * PerWasm + ((n + 1) % PerWasm)
                         /\ (n + 1) % PerWasm \in 0 .. PerWasm - 1
    BY Division
  <1>4. a * PerWasm \in Nat /\ b * PerWasm \in Nat /\ Base(n) = a * PerWasm
        /\ Base(n + 1) = b * PerWasm
    BY <1>1, <1>2, <1>3 DEF Base
  <1>5. CASE (n % PerWasm) + 1 < PerWasm
    <2>1. (n % PerWasm) + 1 \in 0 .. PerWasm - 1
      BY <1>1, <1>2, <1>5
    <2>2. a * PerWasm + ((n % PerWasm) + 1) = b * PerWasm + ((n + 1) % PerWasm)
      BY <1>1, <1>2, <1>3, <1>4
    <2>3. a = b /\ (n + 1) % PerWasm = (n % PerWasm) + 1
      BY <1>3, <2>1, <2>2, OneQuotient
    <2> QED
      BY <1>2, <1>4, <2>3
  <1>6. CASE (n % PerWasm) + 1 = PerWasm
    <2>1. n + 1 = (a + 1) * PerWasm + 0
      BY <1>1, <1>2, <1>4, <1>6
    <2>2. (n + 1) % PerWasm = 0
      <3>1. 0 \in 0 .. PerWasm - 1 /\ a + 1 \in Nat
        BY <1>1
      <3>2. (a + 1) * PerWasm + 0 = b * PerWasm + ((n + 1) % PerWasm)
        BY <1>3, <2>1
      <3> QED
        BY <1>3, <3>1, <3>2, OneQuotient
    <2>3. \A q \in Nat : Base(q) = Base(n) => q <= n
      BY <1>1, <1>2, <1>4, <1>6, BaseIs
    <2> QED
      BY <2>2, <2>3
  <1> QED
    BY <1>1, <1>2, <1>5, <1>6

\* A heap of whole wasm pages has a wasm page whole or not at all.
LEMMA BaseWithin ==
    ASSUME NEW p \in Nat, NEW q \in Nat, NEW k \in Nat, Base(q) = Base(p), p < k * PerWasm
    PROVE  q < k * PerWasm
  <1>1. PerWasm \in Nat /\ PerWasm > 1
    BY PagesAre
  <1>2. PICK a \in Nat : Base(p) = a * PerWasm
    BY BaseIs
  <1>3. /\ a * PerWasm \in Nat /\ k * PerWasm \in Nat
        /\ a * PerWasm <= p /\ q < a * PerWasm + PerWasm
    BY <1>1, <1>2, BaseIs
  <1>4. (a + 1) * PerWasm <= k * PerWasm
    BY <1>3, Multiples, a * PerWasm + 0 < k * PerWasm
  <1>5. (a + 1) * PerWasm = a * PerWasm + PerWasm
    BY <1>1
  <1>6. PICK x \in Nat, y \in Nat : x = a * PerWasm /\ y = k * PerWasm
    BY <1>3
  <1>7. q < x + PerWasm /\ x + PerWasm <= y
    BY <1>3, <1>4, <1>5, <1>6
  <1>8. q < y
    BY <1>1, <1>7
  <1> QED
    BY <1>6, <1>8

\* The fields of a configuration.
LEMMA ConfigIs ==
    ASSUME TypeOK
    PROVE  /\ config.heapPage \in {"Host", "Wasm"} /\ config.stackInit \in Dispositions
           /\ config.heapInit \in Dispositions /\ config.capacity \in Slots
           /\ config.modules \subseteq Modules /\ config.limit \in 0 .. MaxWasm
           /\ 1 .. config.capacity \subseteq Slots
  <1>1. /\ config.heapPage \in {"Host", "Wasm"} /\ config.stackInit \in Dispositions
        /\ config.heapInit \in Dispositions /\ config.capacity \in Slots
        /\ config.modules \subseteq Modules /\ config.limit \in 0 .. MaxWasm
    BY UffdAssumption DEF TypeOK
  <1> QED
    BY <1>1, UffdAssumption DEF Slots

\* heap_fault starts at a page at or before the one that faulted.
LEMMA FirstPageIs ==
    ASSUME TypeOK, NEW p \in Heap
    PROVE  /\ FirstPage(p) \in Heap /\ FirstPage(p) <= p
           /\ FirstPage(FirstPage(p)) = FirstPage(p)
  <1>1. p \in Nat /\ p < HeapPages /\ HeapPages \in Nat
    BY PagesAre DEF Heap
  <1>2. FirstPage(p) = (IF config.heapPage = "Wasm" THEN Base(p) ELSE p)
    BY DEF FirstPage, Base
  <1>3. FirstPage(p) \in Nat /\ FirstPage(p) <= p
    BY <1>1, <1>2, BaseIs
  <1>4. FirstPage(FirstPage(p)) = FirstPage(p)
    <2>1. CASE config.heapPage = "Wasm"
      BY <1>1, <1>2, <2>1, BaseIs DEF FirstPage, Base
    <2>2. CASE config.heapPage # "Wasm"
      BY <2>2 DEF FirstPage
    <2> QED
      BY <2>1, <2>2
  <1> QED
    BY <1>1, <1>3, <1>4 DEF Heap

\* Alloc::addr_location, for an instance whose heap is within its slot.
LEMMA LocationIs ==
    ASSUME NEW s \in Slots, inst \in [Slots -> Instance], NEW p \in Pages
    PROVE  /\ AddrLocation(s, p) \in {"Heap", "InaccessibleHeap", "StackGuard", "Stack",
                                      "Side"}
           /\ AddrLocation(s, p) = "Heap" <=> p < inst[s].size
           /\ AddrLocation(s, p) = "Stack" <=> p = Stack
  <1>1. inst[s].size \in 0 .. HeapPages
    BY DEF Instance
  <1>2. p \in Nat /\ HeapPages \in Nat /\ p <= HeapPages + 3
    BY PagesAre DEF Pages, SigStack
  <1> QED
    BY <1>1, <1>2 DEF AddrLocation, StackGuard, Stack, Globals, SigStack

\* A module's initial heap is of whole wasm pages and fits a slot.
LEMMA InitialPagesAre ==
    ASSUME NEW m \in Modules
    PROVE  /\ InitialPages(m) \in 0 .. HeapPages
           /\ \E k \in 0 .. MaxWasm : InitialPages(m) = k * PerWasm
           /\ HeapOf(m) = {p \in Heap : p < InitialPages(m)}
  <1>1. PICK k \in 0 .. MaxWasm : k = InitialSize[m]
    BY UffdAssumption
  <1>2. k \in Nat /\ MaxWasm \in Nat /\ PerWasm \in Nat /\ k <= MaxWasm
    BY <1>1, PagesAre
  <1>3. k * PerWasm \in Nat /\ k * PerWasm <= MaxWasm * PerWasm
    BY <1>2
  <1>4. InitialPages(m) = k * PerWasm
    BY <1>1 DEF InitialPages
  <1>5. InitialPages(m) \in 0 .. HeapPages
    BY <1>2, <1>3, <1>4, PagesAre DEF HeapPages
  <1>6. HeapOf(m) = {p \in Heap : p < InitialPages(m)}
    <2>1. PICK n \in 0 .. HeapPages : n = InitialPages(m)
      BY <1>5
    <2>2. 0 .. n - 1 = {p \in 0 .. HeapPages - 1 : p < n}
      BY PagesAre
    <2> QED
      BY <2>1, <2>2 DEF HeapOf, Heap
  <1> QED
    BY <1>4, <1>5, <1>6

\* A heap that grows by a wasm page stays of whole wasm pages, and within its limit.
LEMMA GrownIs ==
    ASSUME NEW k \in 0 .. MaxWasm, NEW l \in 0 .. MaxWasm,
           k * PerWasm + PerWasm <= l * PerWasm
    PROVE  /\ k + 1 \in 0 .. MaxWasm /\ k * PerWasm + PerWasm = (k + 1) * PerWasm
           /\ k * PerWasm + PerWasm \in 0 .. HeapPages
  <1>1. /\ MaxWasm \in Nat /\ PerWasm \in Nat /\ PerWasm > 1 /\ k \in Nat /\ l \in Nat
        /\ l <= MaxWasm
    BY PagesAre
  <1>2. k * PerWasm \in Nat /\ l * PerWasm \in Nat /\ k * PerWasm + PerWasm = (k + 1) * PerWasm
    BY <1>1
  <1>3. k + 1 <= l
    <2>1. SUFFICES ASSUME l <= k PROVE FALSE
      BY <1>1
    <2>2. l * PerWasm <= k * PerWasm
      BY <1>1, <2>1
    <2> QED
      BY <1>1, <1>2, <2>2
  <1>4. (k + 1) * PerWasm <= MaxWasm * PerWasm
    BY <1>1, <1>3
  <1> QED
    BY <1>1, <1>2, <1>3, <1>4 DEF HeapPages

-----------------------------------------------------------------------------
(* What a step leaves alone.                                               *)

\* A user of a slot that nothing happens to.
LEMMA OwnKept ==
    ASSUME NEW u \in Threads, NEW x, x = thread[u].slot, OwnInv(u),
           thread'[u] = thread[u], page'[x] = page[x], inst'[x] = inst[x],
           written'[x] = written[x], config' = config,
           thread[u].at \in Living => (Filling(x) => Filling(x)')
    PROVE  OwnInv(u)'
  BY DEF OwnInv, MadeInv, LiveInv, Uniform, FirstPage

\* The worker in a slot that nothing happens to.
LEMMA FillKept ==
    ASSUME FillInv, worker' = worker, config' = config,
           worker.at = "fill" =>
               page'[worker.slot] = page[worker.slot] /\ inst'[worker.slot] = inst[worker.slot]
    PROVE  FillInv'
  BY DEF FillInv, FirstPage, Uniform

\* Events, when those that wait go on waiting.
LEMMA EventKept ==
    ASSUME EventInv, \A u \in Threads : thread[u].at = "blocked" => thread'[u] = thread[u],
           events' = events, worker' = worker, registered' = registered
    PROVE  EventInv'
  BY DEF EventInv, WaitsFor, Busy

\* Slots, when those that have one keep it.
LEMMA SlotKept ==
    ASSUME SlotInv, UNCHANGED <<freelist, lost, config, region>>,
           \A u \in Threads :
               /\ thread'[u].slot = thread[u].slot
               /\ thread[u].at = "idle" <=> thread'[u].at = "idle"
               /\ thread[u].at \in Making \cup Living
                      <=> thread'[u].at \in Making \cup Living
    PROVE  SlotInv'
  <1>1. \A s : \A u \in Threads :
           At(u, s, Making \cup Living) => At(u, s, Making \cup Living)'
    BY DEF At
  <1>2. (region = "up" => \A s \in 1 .. config.capacity :
            s \in freelist \cup lost \/ \E t \in Threads : At(t, s, Making \cup Living))'
    BY <1>1 DEF SlotInv
  <1>3. (\A t, u \in Threads :
            thread[t].at # "idle" /\ thread[u].at # "idle" /\ thread[t].slot = thread[u].slot
                => t = u)'
    BY DEF SlotInv
  <1>4. (\A t \in Threads : thread[t].at # "idle" =>
            thread[t].slot \in (1 .. config.capacity) \ (freelist \cup lost))'
    BY DEF SlotInv
  <1> QED
    BY <1>2, <1>3, <1>4 DEF SlotInv

\* A step of thread t, which has slot s or gets it, that others notice nothing of.
Moves(t, s) ==
    /\ region = "up"
    /\ thread[t].at # "blocked"
    /\ thread[t].at = "idle" \/ thread[t].slot = s
    /\ \A u \in Threads : u # t => thread'[u] = thread[u]
    /\ \A u \in Threads : u # t /\ thread[u].at # "idle" => thread[u].slot # s
    /\ \A x \in Slots : x # s =>
          page'[x] = page[x] /\ inst'[x] = inst[x] /\ written'[x] = written[x]
    /\ UNCHANGED <<config, region, worker, pipe, registered>>
    /\ \A x \in freelist' : (x \in freelist /\ x # s) \/ page'[x] = Blank

\* What such a step makes of its own slot.
Arrives(t, s) ==
    /\ thread'[t].at \in Making => thread'[t].module \in Modules
    /\ thread'[t].at \in Living =>
          /\ thread'[t].slot = s /\ inst'[s].module \in Modules
          /\ \E k \in 0 .. MaxWasm : inst'[s].size = k * PerWasm
    /\ inst'[s] # NoInst => thread'[t].at \in Living
    /\ registered = TRUE => OwnInv(t)'

\* Together they keep the invariant.
LEMMA ThreadStep ==
    ASSUME IndInv, NEW t \in Threads, NEW s \in Slots, Moves(t, s), Arrives(t, s),
           TypeOK', SlotInv', EventInv'
    PROVE  IndInv'
  <1> USE DEF Moves, Arrives
  <1> USE DEF IndInv
  <1>1. RegionInv'
    BY DEF RegionInv
  <1>2. WorkerInv'
    BY DEF WorkerInv
  <1>3. InstInv'
    <2>1. ASSUME NEW u \in Threads, thread'[u].at \in Living, u # t
          PROVE  /\ inst'[thread'[u].slot].module \in Modules
                 /\ \E k \in 0 .. MaxWasm : inst'[thread'[u].slot].size = k * PerWasm
      <3>1. thread'[u] = thread[u] /\ thread[u].slot # s /\ thread[u].slot \in Slots
        BY <2>1, ConfigIs DEF SlotInv, Living
      <3> QED
        BY <2>1, <3>1 DEF InstInv
    <2>2. \A x \in Slots :
             x # s /\ inst'[x] # NoInst => \E u \in Threads : At(u, x, Living)'
      BY DEF InstInv, At, Living
    <2>3. inst'[s] # NoInst => At(t, s, Living)'
      BY DEF At
    <2>4. \A u \in Threads : thread'[u].at \in Making => thread'[u].module \in Modules
      BY DEF InstInv
    <2> QED
      BY <2>1, <2>2, <2>3, <2>4 DEF InstInv
  <1>4. MemoryInv'
    <2>1. SUFFICES ASSUME registered = TRUE
                   PROVE  /\ \A u \in Threads : OwnInv(u)'
                          /\ \A x \in freelist' : page'[x] = Blank
                          /\ FillInv'
      BY DEF MemoryInv
    <2>2. ASSUME NEW u \in Threads, u # t PROVE OwnInv(u)'
      <3>1. CASE thread[u].at = "idle"
        BY <2>2, <3>1 DEF OwnInv, Making, Living
      <3>2. CASE thread[u].at # "idle"
        <4>1. PICK x \in Slots : x = thread[u].slot
          BY <3>2, ConfigIs DEF SlotInv
        <4>2. x # s /\ OwnInv(u)
          BY <2>1, <2>2, <3>2, <4>1 DEF MemoryInv
        <4>3. Filling(x) => Filling(x)'
          BY DEF Filling
        <4> QED
          BY <2>2, <4>1, <4>2, <4>3, OwnKept
      <3> QED
        BY <3>1, <3>2
    <2>3. \A x \in freelist' : page'[x] = Blank
      BY <2>1, ConfigIs DEF MemoryInv, TypeOK
    <2>4. FillInv'
      <3>1. worker.at = "fill" => worker.slot \in Slots /\ worker.slot # s
        <4>1. SUFFICES ASSUME worker.at = "fill" PROVE worker.slot \in Slots /\ worker.slot # s
          OBVIOUS
        <4>2. PICK u \in Threads : WaitsFor(u, worker.slot, worker.page)
          BY <2>1, <4>1 DEF EventInv, Busy
        <4> QED
          BY <4>2, ConfigIs DEF WaitsFor, SlotInv
      <3> QED
        BY <2>1, <3>1, FillKept DEF MemoryInv
    <2> QED
      BY <2>1, <2>2, <2>3, <2>4
  <1> QED
    BY <1>1, <1>2, <1>3, <1>4

-----------------------------------------------------------------------------
(* The threads.                                                            *)

\* A thread becomes th.
LEMMA BecomeIs ==
    ASSUME TypeOK, NEW t \in Threads, NEW th \in Thread, Become(t, th)
    PROVE  /\ thread' \in [Threads -> Thread] /\ thread'[t] = th
           /\ \A u \in Threads : u # t => thread'[u] = thread[u]
  BY DEF Become, TypeOK

\* A thread goes on.
LEMMA StepIs ==
    ASSUME TypeOK, NEW t \in Threads, NEW at \in Making \cup Living, Step(t, at)
    PROVE  /\ thread' \in [Threads -> Thread] /\ thread'[t].at = at
           /\ thread'[t].slot = thread[t].slot /\ thread'[t].module = thread[t].module
           /\ thread'[t].page = thread[t].page
           /\ \A u \in Threads : u # t => thread'[u] = thread[u]
  <1> DEFINE th == [thread[t] EXCEPT !.at = at, !.tries = 0]
  <1>1. /\ th \in Thread /\ th.at = at /\ th.slot = thread[t].slot
        /\ th.module = thread[t].module /\ th.page = thread[t].page
    BY DEF TypeOK, Thread
  <1>2. Become(t, th)
    BY DEF Step
  <1> HIDE DEF th
  <1> QED
    BY <1>1, <1>2, BecomeIs

\* A thread that does nothing.
LEMMA IdleIs == Idle \in Thread /\ Idle.at = "idle"
  BY PagesAre DEF Idle, Thread

\* Somebody who has a slot is alone with it, and has an Instance in it once it is built.
LEMMA UserIs ==
    ASSUME IndInv, NEW t \in Threads, thread[t].at # "idle"
    PROVE  /\ thread[t].slot \in Slots /\ thread[t].slot \in 1 .. config.capacity
           /\ thread[t].slot \notin freelist /\ thread[t].slot \notin lost
           /\ \A u \in Threads : u # t /\ thread[u].at # "idle" => thread[u].slot # thread[t].slot
           /\ thread[t].at \in Making => inst[thread[t].slot] = NoInst
  <1> USE DEF IndInv
  <1>1. thread[t].slot \in (1 .. config.capacity) \ (freelist \cup lost)
        /\ thread[t].slot \in Slots
    BY ConfigIs DEF SlotInv
  <1>2. \A u \in Threads : u # t /\ thread[u].at # "idle" => thread[u].slot # thread[t].slot
    BY DEF SlotInv
  <1>3. ASSUME thread[t].at \in Making, inst[thread[t].slot] # NoInst
        PROVE  FALSE
    BY <1>1, <1>2, <1>3 DEF InstInv, At, Making, Living
  <1> QED
    BY <1>1, <1>2, <1>3

\* The pages that zeropage, copy or madvise change.
LEMMA PutIs ==
    ASSUME TypeOK, NEW s \in Slots, NEW new, Put(s, new),
           \A p \in Pages : p \in DOMAIN new => new[p] \in Word
    PROVE  /\ page' \in [Slots -> [Pages -> Word]]
           /\ \A x \in Slots : x # s => page'[x] = page[x]
           /\ \A p \in Pages : page'[s][p] = IF p \in DOMAIN new THEN new[p] ELSE page[s][p]
  BY DEF Put, TypeOK

\* madvise on a set of pages.
LEMMA GoneIs ==
    ASSUME TypeOK, NEW s \in Slots, NEW P, Put(s, Gone(P))
    PROVE  /\ page' \in [Slots -> [Pages -> Word]]
           /\ \A x \in Slots : x # s => page'[x] = page[x]
           /\ \A p \in Pages : page'[s][p] = IF p \in P THEN Missing ELSE page[s][p]
  <1>1. PICK new : new = Gone(P)
    OBVIOUS
  <1>2. DOMAIN new = P /\ \A p \in P : new[p] = Missing
    BY <1>1 DEF Gone
  <1> QED
    BY <1>1, <1>2, PutIs DEF Word

\* What a module's heap page holds is something.
LEMMA ContentsAre ==
    ASSUME NEW m \in Modules, NEW p
    PROVE  Contents(m, p) \in Word /\ Contents(m, p) # Missing
  BY ModulesAssumption DEF Contents, Word, Missing, Zero

\* TakeSlot: the slot was free, and has none of its pages.
LEMMA TakeSlotStep ==
    ASSUME IndInv, NEW t \in Threads, NEW s \in Slots, NEW m \in Modules, TakeSlot(t, s, m)
    PROVE  IndInv'
  <1> USE DEF IndInv
  <1> DEFINE th == [Idle EXCEPT !.at = "side", !.slot = s, !.module = m]
  <1>1. th \in Thread /\ th.at = "side" /\ th.slot = s /\ th.module = m
    BY PagesAre DEF Idle, Thread, Making
  <1>2. Become(t, th) /\ region = "up" /\ thread[t].at = "idle" /\ s \in freelist
        /\ freelist' = freelist \ {s}
        /\ UNCHANGED <<config, region, inst, page, events, worker, pipe, registered, lost,
                       written>>
    BY DEF TakeSlot, Up
  <1> HIDE DEF th
  <1>3. thread' \in [Threads -> Thread] /\ thread'[t] = th
        /\ \A u \in Threads : u # t => thread'[u] = thread[u]
    BY <1>1, <1>2, BecomeIs
  <1>4. TypeOK'
    BY <1>2, <1>3 DEF TypeOK
  <1>5. \A u \in Threads : thread[u].at # "idle" => thread[u].slot # s
    BY <1>2 DEF SlotInv
  <1>6. SlotInv'
    <2>1. \A x \in 1 .. config.capacity : x # s =>
              x \in freelist' \cup lost \/ \E u \in Threads : At(u, x, Making \cup Living)'
      BY <1>2, <1>3 DEF SlotInv, At, Making, Living
    <2>2. At(t, s, Making \cup Living)'
      BY <1>1, <1>3 DEF At, Making
    <2>3. s \in 1 .. config.capacity /\ s \notin lost
      BY <1>2 DEF TypeOK, SlotInv
    <2>4. \A u \in Threads : thread'[u].at # "idle" =>
              thread'[u].slot \in (1 .. config.capacity) \ (freelist' \cup lost)
      BY <1>1, <1>2, <1>3, <2>3 DEF SlotInv
    <2>5. \A u, v \in Threads :
              thread'[u].at # "idle" /\ thread'[v].at # "idle" /\ thread'[u].slot = thread'[v].slot
                  => u = v
      BY <1>1, <1>3, <1>5 DEF SlotInv
    <2> QED
      BY <1>2, <2>1, <2>2, <2>4, <2>5 DEF SlotInv
  <1>7. EventInv'
    BY <1>2, <1>3, EventKept
  <1>8. inst'[s] = NoInst
    BY <1>2, <1>5 DEF InstInv, At, Living
  <1>9. registered = TRUE => OwnInv(t)'
    BY <1>1, <1>2, <1>3 DEF MemoryInv, OwnInv, MadeInv, Making, Living
  <1>10. Moves(t, s)
    BY <1>2, <1>3, <1>5 DEF Moves
  <1>11. Arrives(t, s)
    BY <1>1, <1>3, <1>8, <1>9 DEF Arrives, Making, Living
  <1> HIDE DEF IndInv
  <1> QED
    BY <1>4, <1>6, <1>7, <1>10, <1>11, ThreadStep

\* A slot that goes back to the freelist without its pages, or is lost.
LEMMA LeaveSlot ==
    ASSUME IndInv, region = "up", NEW t \in Threads, NEW s, s = thread[t].slot,
           thread[t].at \notin {"idle", "blocked"},
           Become(t, Idle),
           \/ /\ freelist' = freelist /\ lost' = lost \cup {s}
              /\ UNCHANGED <<inst, page, written>> /\ thread[t].at \in Making
           \/ /\ freelist' = freelist \cup {s} /\ lost' = lost /\ page'[s] = Blank
              /\ inst'[s] = NoInst,
           page' \in [Slots -> [Pages -> Word]], inst' \in [Slots -> Instance],
           written' \in [Slots -> SUBSET Heap],
           \A x \in Slots : x # s =>
               page'[x] = page[x] /\ inst'[x] = inst[x] /\ written'[x] = written[x],
           UNCHANGED <<config, region, events, worker, pipe, registered>>
    PROVE  IndInv'
  <1> USE DEF IndInv
  <1>1. thread' \in [Threads -> Thread] /\ thread'[t] = Idle /\ thread'[t].at = "idle"
        /\ \A u \in Threads : u # t => thread'[u] = thread[u]
    BY IdleIs, BecomeIs
  <1>2. /\ s \in Slots /\ s \in 1 .. config.capacity /\ s \notin freelist /\ s \notin lost
        /\ \A u \in Threads : u # t /\ thread[u].at # "idle" => thread[u].slot # s
        /\ thread[t].at \in Making => inst[s] = NoInst
    BY UserIs
  <1>3. TypeOK'
    BY <1>1, <1>2 DEF TypeOK
  <1>4. SlotInv'
    <2>1. \A x \in 1 .. config.capacity : x # s =>
              x \in freelist' \cup lost' \/ \E u \in Threads : At(u, x, Making \cup Living)'
      BY <1>1 DEF SlotInv, At
    <2>2. s \in freelist' \cup lost' /\ freelist' \cap lost' = {}
      BY <1>2 DEF SlotInv
    <2>3. \A u \in Threads : thread'[u].at # "idle" =>
              thread'[u].slot \in (1 .. config.capacity) \ (freelist' \cup lost')
      BY <1>1, <1>2 DEF SlotInv
    <2>4. \A u, v \in Threads :
              thread'[u].at # "idle" /\ thread'[v].at # "idle" /\ thread'[u].slot = thread'[v].slot
                  => u = v
      BY <1>1 DEF SlotInv
    <2> QED
      BY <2>1, <2>2, <2>3, <2>4 DEF SlotInv
  <1>5. EventInv'
    BY <1>1, EventKept
  <1>6. OwnInv(t)'
    BY <1>1 DEF OwnInv, Making, Living
  <1>7. inst'[s] = NoInst /\ \A x \in freelist' : (x \in freelist /\ x # s) \/ page'[x] = Blank
    BY <1>2
  <1>8. Moves(t, s)
    BY <1>1, <1>2, <1>7 DEF Moves
  <1>9. Arrives(t, s)
    BY <1>1, <1>6, <1>7 DEF Arrives, Making, Living
  <1> HIDE DEF IndInv
  <1> QED
    BY <1>2, <1>3, <1>4, <1>5, <1>8, <1>9, ThreadStep

\* Going on with the same slot, when only it changes.
LEMMA GoesOn ==
    ASSUME IndInv, region = "up", NEW t \in Threads, NEW s, s = thread[t].slot,
           thread[t].at \notin {"idle", "blocked"},
           thread' \in [Threads -> Thread], thread'[t].slot = s, thread'[t].at # "idle",
           \A u \in Threads : u # t => thread'[u] = thread[u],
           page' \in [Slots -> [Pages -> Word]], inst' \in [Slots -> Instance],
           written' \in [Slots -> SUBSET Heap],
           \A x \in Slots : x # s =>
               page'[x] = page[x] /\ inst'[x] = inst[x] /\ written'[x] = written[x],
           UNCHANGED <<config, region, freelist, worker, pipe, registered, lost>>,
           events' \in Seq(Event), EventInv',
           thread'[t].at \in Making => inst'[s] = NoInst /\ thread'[t].module \in Modules,
           thread'[t].at \in Living =>
               /\ inst'[s].module \in Modules
               /\ \E k \in 0 .. MaxWasm : inst'[s].size = k * PerWasm,
           registered = TRUE => OwnInv(t)'
    PROVE  IndInv'
  <1> USE DEF IndInv
  <1>1. /\ s \in Slots /\ s \in 1 .. config.capacity /\ s \notin freelist /\ s \notin lost
        /\ \A u \in Threads : u # t /\ thread[u].at # "idle" => thread[u].slot # s
    BY UserIs
  <1>2. TypeOK'
    BY DEF TypeOK
  <1>3. \A u \in Threads : thread[u] \in Thread /\ thread'[u] \in Thread
    BY DEF TypeOK
  <1>4. thread[t].at \in Making \cup Living /\ thread'[t].at \in Making \cup Living
    BY <1>3 DEF Thread
  <1>5. SlotInv'
    BY <1>4, SlotKept
  <1>6. Moves(t, s)
    BY <1>1 DEF Moves
  <1>7. Arrives(t, s)
    BY <1>4 DEF Arrives
  <1> HIDE DEF IndInv
  <1> QED
    BY <1>1, <1>2, <1>5, <1>6, <1>7, ThreadStep

\* An attempt of an ioctl that is to be repeated, or failed for good.
LEMMA AttemptFails ==
    ASSUME IndInv, region = "up", NEW t \in Threads, thread[t].at \in {"side", "heap"},
           \/ Become(t, [thread[t] EXCEPT !.tries = @ + 1]) /\ lost' = lost
           \/ LoseSlot(t),
           UNCHANGED <<config, region, freelist, inst, page, events, worker, pipe,
                       registered,
                       written>>
    PROVE  IndInv'
  <1> USE DEF IndInv
  <1>1. thread[t] \in Thread /\ thread[t].at \in Making /\ thread[t].at # "blocked"
    BY DEF TypeOK, Making
  <1>2. PICK s \in Slots : s = thread[t].slot /\ inst[s] = NoInst
    BY <1>1, UserIs
  <1>3. CASE LoseSlot(t)
    <2>1. Become(t, Idle) /\ lost' = lost \cup {s}
      BY <1>2, <1>3 DEF LoseSlot
    <2> QED
      BY <1>1, <1>2, <2>1, LeaveSlot DEF TypeOK
  <1>4. CASE Become(t, [thread[t] EXCEPT !.tries = @ + 1]) /\ lost' = lost
    <2> DEFINE th == [thread[t] EXCEPT !.tries = @ + 1]
    <2>1. th \in Thread /\ th.at = thread[t].at /\ th.slot = s /\ th.module = thread[t].module
          /\ th.page = thread[t].page
      BY <1>1, <1>2 DEF Thread
    <2>2. Become(t, th)
      BY <1>4
    <2> HIDE DEF th
    <2>3. thread' \in [Threads -> Thread] /\ thread'[t] = th
          /\ \A u \in Threads : u # t => thread'[u] = thread[u]
      BY <2>1, <2>2, BecomeIs
    <2>4. EventInv'
      BY <1>1, <2>3, EventKept
    <2>5. registered = TRUE => OwnInv(t)'
      <3>1. thread'[t].at \in {"side", "heap"}
        BY <2>1, <2>3
      <3>2. /\ thread'[t].at = thread[t].at /\ thread'[t].slot = thread[t].slot
            /\ thread'[t].module = thread[t].module
        BY <1>2, <2>1, <2>3
      <3>3. registered = TRUE => OwnInv(t)
        BY DEF MemoryInv
      <3> QED
        BY <3>1, <3>2, <3>3 DEF OwnInv, MadeInv, Making, Living
    <2>6. thread[t].module \in Modules
      BY <1>1 DEF InstInv
    <2> QED
      BY <1>1, <1>2, <1>4, <2>1, <2>3, <2>4, <2>5, <2>6, GoesOn DEF TypeOK, Making, Living
  <1> QED
    BY <1>3, <1>4

\* An attempt that succeeds, and leaves the slot as it is to be after it.
LEMMA AttemptSucceeds ==
    ASSUME IndInv, region = "up", NEW t \in Threads, thread[t].at \in {"side", "heap"},
           NEW at \in {"heap", "build"}, Step(t, at),
           NEW s, s = thread[t].slot, page' \in [Slots -> [Pages -> Word]],
           \A x \in Slots : x # s => page'[x] = page[x],
           UNCHANGED <<config, region, freelist, inst, events, worker, pipe, registered,
                       lost, written>>,
           registered = TRUE =>
               /\ MadeInv(at, s, thread[t].module)'
               /\ config.stackInit = "Eager" => page'[s][Stack] # Missing
    PROVE  IndInv'
  <1> USE DEF IndInv
  <1>1. thread[t].at \in Making /\ thread[t].at \notin {"idle", "blocked"} /\ at \in Making
    BY DEF Making
  <1>2. s \in Slots /\ inst[s] = NoInst /\ thread[t].module \in Modules
    BY <1>1, UserIs DEF InstInv
  <1>3. /\ thread' \in [Threads -> Thread] /\ thread'[t].at = at
        /\ thread'[t].slot = s /\ thread'[t].module = thread[t].module
        /\ \A u \in Threads : u # t => thread'[u] = thread[u]
    BY <1>1, StepIs
  <1>4. EventInv'
    BY <1>1, <1>3, EventKept
  <1>5. registered = TRUE => OwnInv(t)'
    BY <1>1, <1>3 DEF OwnInv, MadeInv, Making, Living
  <1>6. thread'[t].at \notin Living /\ thread'[t].at # "idle"
    BY <1>3 DEF Living
  <1> QED
    BY <1>1, <1>2, <1>3, <1>4, <1>5, <1>6, GoesOn DEF TypeOK

\* ZeroSide, in a slot that had no page.
LEMMA ZeroSideStep ==
    ASSUME IndInv, NEW t \in Threads, ZeroSide(t)
    PROVE  IndInv'
  <1> USE DEF IndInv
  <1>1. region = "up" /\ thread[t].at = "side" /\ thread[t].at \in Making
        /\ UNCHANGED <<config, region, freelist, inst, events, worker, pipe, registered,
                       written>>
    BY DEF ZeroSide, Up, Making
  <1>2. PICK s \in Slots : s = thread[t].slot
    BY <1>1, UserIs
  <1>3. PICK at \in {"heap", "build"} : Attempt(t, [p \in InitList |-> Zero], at)
    BY DEF ZeroSide
  <1>4. CASE Put(s, [p \in InitList |-> Zero]) /\ Step(t, at) /\ lost' = lost
    <2>1. PICK new : new = [p \in InitList |-> Zero]
      OBVIOUS
    <2>2. DOMAIN new = InitList /\ \A p \in InitList : new[p] = Zero
      BY <2>1
    <2>3. Put(s, new)
      BY <1>4, <2>1
    <2>4. /\ page' \in [Slots -> [Pages -> Word]]
          /\ \A x \in Slots : x # s => page'[x] = page[x]
          /\ \A p \in Pages : page'[s][p] = IF p \in InitList THEN Zero ELSE page[s][p]
      BY <2>2, <2>3, PutIs DEF Word
    <2>5. ASSUME registered = TRUE
          PROVE  /\ MadeInv(at, s, thread[t].module)'
                 /\ config.stackInit = "Eager" => page'[s][Stack] # Missing
      <3>1. \A p \in Pages : page[s][p] = Missing
        BY <1>1, <1>2, <2>5 DEF MemoryInv, OwnInv, MadeInv, Blank
      <3>2. InitList \cap Heap = {} /\ (config.stackInit = "Eager" => Stack \in InitList)
        BY PagesAre DEF InitList
      <3>3. \A p \in Heap : page'[s][p] = Missing
        BY <2>4, <3>1, <3>2, PagesAre
      <3>4. config.stackInit = "Eager" => page'[s][Stack] # Missing
        BY <2>4, <3>2, PagesAre DEF Zero, Missing
      <3> QED
        BY <3>3, <3>4 DEF MadeInv
    <2>6. thread[t].at \in {"side", "heap"} /\ Step(t, at)
          /\ UNCHANGED <<config, region, freelist, inst, events, worker, pipe, registered,
                         lost, written>>
      BY <1>1, <1>4
    <2> HIDE DEF IndInv
    <2> QED
      BY <1>1, <1>2, <2>4, <2>5, <2>6, AttemptSucceeds
  <1>5. CASE /\ Become(t, [thread[t] EXCEPT !.tries = @ + 1]) \/ LoseSlot(t)
             /\ page' = page
             /\ lost' = lost \/ LoseSlot(t)
    BY <1>1, <1>5, AttemptFails
  <1> QED
    BY <1>2, <1>3, <1>4, <1>5 DEF Attempt

\* FillHeap, in a heap that had no page.
LEMMA FillHeapStep ==
    ASSUME IndInv, NEW t \in Threads, FillHeap(t)
    PROVE  IndInv'
  <1> USE DEF IndInv
  <1>1. region = "up" /\ thread[t].at = "heap" /\ thread[t].at \in Making
        /\ UNCHANGED <<config, region, freelist, inst, events, worker, pipe, registered,
                       written>>
    BY DEF FillHeap, Up, Making
  <1>2. PICK s \in Slots : s = thread[t].slot
    BY <1>1, UserIs
  <1>3. PICK m \in Modules : m = thread[t].module
    BY <1>1 DEF InstInv
  <1>4. Attempt(t, [p \in HeapOf(m) |-> Contents(m, p)], "build")
    BY <1>3 DEF FillHeap
  <1>5. CASE /\ Put(s, [p \in HeapOf(m) |-> Contents(m, p)])
             /\ Step(t, "build") /\ lost' = lost
    <2>1. PICK new : new = [p \in HeapOf(m) |-> Contents(m, p)]
      OBVIOUS
    <2>2. DOMAIN new = HeapOf(m) /\ \A p \in HeapOf(m) : new[p] \in Word
      BY <2>1, ContentsAre
    <2>3. Put(s, new)
      BY <1>5, <2>1
    <2>4. /\ page' \in [Slots -> [Pages -> Word]]
          /\ \A x \in Slots : x # s => page'[x] = page[x]
          /\ \A p \in Pages : p \notin HeapOf(m) => page'[s][p] = page[s][p]
      BY <2>2, <2>3, PutIs
    <2>5. ASSUME registered = TRUE
          PROVE  /\ MadeInv("build", s, thread[t].module)'
                 /\ config.stackInit = "Eager" => page'[s][Stack] # Missing
      <3>1. /\ \A p \in Heap : page[s][p] = Missing
            /\ config.stackInit = "Eager" => page[s][Stack] # Missing
        BY <1>1, <1>2, <2>5 DEF MemoryInv, OwnInv, MadeInv
      <3>2. HeapOf(m) \subseteq Heap /\ Stack \notin Heap /\ Stack \in Pages
        BY InitialPagesAre, PagesAre
      <3>3. \A p \in Heap \ HeapOf(m) : page'[s][p] = Missing
        BY <2>4, <3>1, PagesAre
      <3>4. thread'[t].module = m
        BY <1>3, <1>5, StepIs DEF Making
      <3> QED
        BY <1>3, <2>4, <3>1, <3>2, <3>3, <3>4 DEF MadeInv
    <2> QED
      BY <1>1, <1>2, <1>5, <2>4, <2>5, AttemptSucceeds, ZenonT(60)
  <1>6. CASE /\ Become(t, [thread[t] EXCEPT !.tries = @ + 1]) \/ LoseSlot(t)
             /\ page' = page
             /\ lost' = lost \/ LoseSlot(t)
    BY <1>1, <1>6, AttemptFails
  <1> QED
    BY <1>2, <1>4, <1>5, <1>6 DEF Attempt

\* The worker fills no page of somebody who does not wait.
LEMMA NotFilled ==
    ASSUME IndInv, registered = TRUE,
           NEW t \in Threads, thread[t].at \notin {"idle", "blocked"}
    PROVE  ~Filling(thread[t].slot)
  <1>1. SUFFICES ASSUME Filling(thread[t].slot) PROVE FALSE
    OBVIOUS
  <1>2. PICK u \in Threads : WaitsFor(u, thread[t].slot, worker.page)
    <2>1. thread[t].slot \in Slots /\ 0 \notin Slots
      BY UserIs DEF Slots
    <2>2. Busy /\ worker.slot = thread[t].slot
      BY <1>1, <2>1 DEF Filling, Busy
    <2> QED
      BY <2>2 DEF IndInv, EventInv
  <1>3. thread[u].at = "blocked" /\ thread[u].slot = thread[t].slot /\ u # t
    BY <1>2 DEF WaitsFor
  <1> QED
    BY <1>3, UserIs

\* An instance without any page of its heap, after its creation or a reset.
LEMMA Renewed ==
    ASSUME IndInv, region = "up", NEW t \in Threads, NEW s \in Slots, s = thread[t].slot,
           thread[t].at \in {"build", "guest", "faulted"}, Step(t, "guest"),
           NEW m \in Modules, NEW P, P \subseteq Heap, Put(s, Gone(P)),
           inst' = [inst EXCEPT ![s] = [module |-> m, size |-> InitialPages(m)]],
           written' = [written EXCEPT ![s] = {}],
           registered = TRUE => \A p \in Heap \ P : page[s][p] = Missing,
           UNCHANGED <<config, region, freelist, events, worker, pipe, registered, lost>>
    PROVE  IndInv'
  <1> USE DEF IndInv
  <1>1. thread[t].at \notin {"idle", "blocked"}
    OBVIOUS
  <1>2. /\ thread' \in [Threads -> Thread] /\ thread'[t].at = "guest" /\ thread'[t].slot = s
        /\ \A u \in Threads : u # t => thread'[u] = thread[u]
    BY StepIs DEF Living
  <1>3. EventInv'
    BY <1>1, <1>2, EventKept
  <1>4. /\ page' \in [Slots -> [Pages -> Word]]
        /\ \A x \in Slots : x # s => page'[x] = page[x]
        /\ \A p \in Pages : page'[s][p] = IF p \in P THEN Missing ELSE page[s][p]
    BY GoneIs
  <1>5. /\ InitialPages(m) \in 0 .. HeapPages
        /\ \E k \in 0 .. MaxWasm : InitialPages(m) = k * PerWasm
    BY InitialPagesAre
  <1>6. /\ inst' \in [Slots -> Instance]
        /\ inst'[s].module = m /\ inst'[s].size = InitialPages(m)
        /\ \A x \in Slots : x # s => inst'[x] = inst[x]
    <2>1. PICK n \in 0 .. HeapPages : n = InitialPages(m)
      BY <1>5
    <2>2. PICK i : i = [module |-> m, size |-> n]
      OBVIOUS
    <2>3. i \in Instance /\ i.module = m /\ i.size = n
      BY <2>2 DEF Instance
    <2>4. inst' = [inst EXCEPT ![s] = i]
      BY <2>1, <2>2
    <2> QED
      BY <2>1, <2>3, <2>4 DEF TypeOK
  <1>7. /\ written' \in [Slots -> SUBSET Heap]
        /\ \A x \in Slots : x # s => written'[x] = written[x]
    BY DEF TypeOK
  <1>8. ASSUME registered = TRUE PROVE OwnInv(t)'
    <2>1. \A p \in Heap : page'[s][p] = Missing
      BY <1>4, <1>8, PagesAre
    <2>2. config.stackInit = "Eager" => page[s][Stack] # Missing
      BY <1>8 DEF MemoryInv, OwnInv, Living
    <2>3. page'[s][Stack] = page[s][Stack]
      BY <1>4, PagesAre
    <2>4. Uniform(s)'
      BY <2>1 DEF Uniform
    <2>5. LiveInv("guest", s, thread[t].page)'
      BY <2>1, <2>4 DEF LiveInv
    <2> QED
      BY <1>2, <2>2, <2>3, <2>5 DEF OwnInv, LiveInv, Making
  <1>9. thread'[t].at \notin Making /\ thread'[t].at # "idle"
    BY <1>2 DEF Making
  <1>10. events' \in Seq(Event)
    BY DEF TypeOK
  <1>11. /\ inst'[s].module \in Modules
         /\ \E k \in 0 .. MaxWasm : inst'[s].size = k * PerWasm
    BY <1>5, <1>6
  <1> HIDE DEF IndInv
  <1> QED
    BY <1>1, <1>2, <1>3, <1>4, <1>6, <1>7, <1>8, <1>9, <1>10, <1>11, GoesOn, ZenonT(60)

\* Build
LEMMA BuildStep ==
    ASSUME IndInv, NEW t \in Threads, Build(t)
    PROVE  IndInv'
  <1>1. /\ region = "up" /\ thread[t].at = "build" /\ thread[t].at \in Making
        /\ Step(t, "guest")
        /\ UNCHANGED <<config, region, freelist, events, worker, pipe, registered, lost>>
    BY DEF Build, Up, Making
  <1>2. PICK s \in Slots, m \in Modules : s = thread[t].slot /\ m = thread[t].module
    BY <1>1, UserIs DEF IndInv, InstInv
  <1>3. /\ inst' = [inst EXCEPT ![s] = [module |-> m, size |-> InitialPages(m)]]
        /\ Put(s, Gone(HeapOf(m))) /\ written' = [written EXCEPT ![s] = {}]
    BY <1>2 DEF Build
  <1>4. HeapOf(m) \subseteq Heap
    BY InitialPagesAre
  <1>5. registered = TRUE => \A p \in Heap \ HeapOf(m) : page[s][p] = Missing
    BY <1>1, <1>2 DEF IndInv, MemoryInv, OwnInv, MadeInv
  <1> QED
    BY <1>1, <1>2, <1>3, <1>4, <1>5, Renewed

\* Reset
LEMMA ResetStep ==
    ASSUME IndInv, NEW t \in Threads, Reset(t)
    PROVE  IndInv'
  <1>1. region = "up" /\ thread[t].at \in {"guest", "faulted"} /\ Step(t, "guest")
        /\ UNCHANGED <<config, region, freelist, events, worker, pipe, registered, lost>>
    BY DEF Reset, Up
  <1>2. PICK s \in Slots : s = thread[t].slot
    BY <1>1, UserIs
  <1>3. PICK m \in Modules : m = inst[s].module
    BY <1>1, <1>2 DEF IndInv, InstInv, Living
  <1>4. inst \in [Slots -> Instance] /\ inst[s].size \in 0 .. HeapPages
    BY DEF IndInv, TypeOK, Instance
  <1>5. inst' = [inst EXCEPT ![s] = [module |-> m, size |-> InitialPages(m)]]
    <2>1. inst' = [inst EXCEPT ![s] = [inst[s] EXCEPT !.size = InitialPages(m)]]
      BY <1>2, <1>3 DEF Reset
    <2>2. [inst[s] EXCEPT !.size = InitialPages(m)] = [module |-> m,
                                                       size |-> InitialPages(m)]
      BY <1>3, <1>4 DEF Instance
    <2> QED
      BY <2>1, <2>2
  <1>6. Put(s, Gone(ResetPages(s))) /\ written' = [written EXCEPT ![s] = {}]
    BY <1>2 DEF Reset
  <1>7. /\ ResetPages(s) \subseteq Heap
        /\ \A p \in Heap : p < inst[s].size => p \in ResetPages(s)
    BY <1>4, PagesAre DEF ResetPages, Heap
  <1>8. registered = TRUE => \A p \in Heap \ ResetPages(s) : page[s][p] = Missing
    BY <1>1, <1>2, <1>7 DEF IndInv, MemoryInv, OwnInv, LiveInv, Living
  <1> QED
    BY <1>1, <1>2, <1>5, <1>6, <1>7, <1>8, Renewed

\* Grow: the pages it adds are missing, and a wasm page that is there stays whole.
LEMMA GrowStep ==
    ASSUME IndInv, NEW t \in Threads, Grow(t)
    PROVE  IndInv'
  <1> USE DEF IndInv
  <1>1. region = "up" /\ thread[t].at = "guest" /\ thread[t].at \in Living
        /\ UNCHANGED <<config, region, freelist, page, thread, events, worker, pipe,
                       registered,
                       lost, written>>
    BY DEF Grow, Up, Living
  <1>2. PICK s \in Slots : s = thread[t].slot
    BY <1>1, UserIs
  <1>3. PICK k \in 0 .. MaxWasm : inst[s].size = k * PerWasm
    BY <1>1, <1>2 DEF InstInv
  <1>4. PICK l \in 0 .. MaxWasm : l = config.limit
    BY ConfigIs
  <1>5. k * PerWasm + PerWasm <= l * PerWasm
    BY <1>2, <1>3, <1>4 DEF Grow
  <1>6. PICK n \in 0 .. HeapPages : n = inst[s].size + PerWasm
    BY <1>3, <1>5, GrownIs
  <1>7. inst[s] \in Instance /\ inst[s].size < n /\ \E j \in 0 .. MaxWasm : n = j * PerWasm
    <2>1. inst[s] \in Instance /\ inst[s].size \in Nat
      BY DEF TypeOK, Instance
    <2>2. inst[s].size < n
      BY <1>6, <2>1, PagesAre
    <2>3. k + 1 \in 0 .. MaxWasm /\ n = (k + 1) * PerWasm
      BY <1>3, <1>5, <1>6, GrownIs
    <2> QED
      BY <2>1, <2>2, <2>3
  <1>8. /\ inst' \in [Slots -> Instance]
        /\ inst'[s].module = inst[s].module /\ inst'[s].size = n
        /\ \A x \in Slots : x # s => inst'[x] = inst[x]
    <2>1. PICK i : i = [inst[s] EXCEPT !.size = n]
      OBVIOUS
    <2>2. i \in Instance /\ i.module = inst[s].module /\ i.size = n
      BY <1>7, <2>1 DEF Instance
    <2>3. inst' = [inst EXCEPT ![s] = i]
      BY <1>2, <1>6, <2>1 DEF Grow
    <2> QED
      BY <2>2, <2>3 DEF TypeOK
  <1>9. EventInv'
    BY <1>1, EventKept
  <1>10. ASSUME registered = TRUE PROVE OwnInv(t)'
    <2>1. LiveInv("guest", s, thread[t].page) /\ OwnInv(t)
      BY <1>1, <1>2, <1>10 DEF MemoryInv, OwnInv
    <2>2. \A q \in Heap : q < inst[s].size => q < n
      BY <1>7, PagesAre DEF Instance, Heap
    <2>3. Uniform(s) => Uniform(s)'
      BY <1>1 DEF Uniform, FirstPage
    <2>4. Filling(s) <=> Filling(s)'
      BY <1>1 DEF Filling
    <2>5. LiveInv("guest", s, thread[t].page)'
      BY <1>1, <1>8, <2>1, <2>2, <2>3, <2>4 DEF LiveInv
    <2> QED
      BY <1>1, <1>2, <2>1, <2>5 DEF OwnInv, LiveInv, Making
  <1>11. thread'[t].at \notin Making
    BY <1>1 DEF Making
  <1>12. inst[s].module \in Modules /\ thread[t].at \notin {"idle", "blocked"}
    BY <1>1, <1>2 DEF InstInv
  <1>13. /\ thread' \in [Threads -> Thread] /\ page' \in [Slots -> [Pages -> Word]]
         /\ written' \in [Slots -> SUBSET Heap] /\ events' \in Seq(Event)
    BY <1>1 DEF TypeOK
  <1> HIDE DEF IndInv
  <1> QED
    BY <1>1, <1>2, <1>7, <1>8, <1>9, <1>10, <1>11, <1>12, <1>13, GoesOn

\* DropInstance
LEMMA DropInstanceStep ==
    ASSUME IndInv, NEW t \in Threads, DropInstance(t)
    PROVE  IndInv'
  <1> USE DEF IndInv
  <1>1. region = "up" /\ thread[t].at \in {"guest", "faulted"}
        /\ UNCHANGED <<config, region, events, worker, pipe, registered, lost>>
    BY DEF DropInstance, Up
  <1>2. PICK s \in Slots : s = thread[t].slot
    BY <1>1, UserIs
  <1>3. /\ inst' = [inst EXCEPT ![s] = NoInst] /\ Put(s, Gone(Pages))
        /\ freelist' = freelist \cup {s} /\ written' = [written EXCEPT ![s] = {}]
        /\ Become(t, Idle)
    BY <1>2 DEF DropInstance, DropPages, Returned
  <1>4. /\ page' \in [Slots -> [Pages -> Word]]
        /\ \A x \in Slots : x # s => page'[x] = page[x]
        /\ \A p \in Pages : page'[s][p] = Missing
    BY <1>3, GoneIs
  <1>5. page'[s] = Blank
    BY <1>4 DEF Blank
  <1>6. NoInst \in Instance
    BY PagesAre DEF NoInst, Instance
  <1>7. /\ inst' \in [Slots -> Instance] /\ inst'[s] = NoInst
        /\ written' \in [Slots -> SUBSET Heap]
        /\ \A x \in Slots : x # s => inst'[x] = inst[x] /\ written'[x] = written[x]
    BY <1>3, <1>6 DEF TypeOK
  <1>8. thread[t].at \notin {"idle", "blocked"}
    BY <1>1
  <1> HIDE DEF IndInv
  <1> QED
    BY <1>1, <1>2, <1>3, <1>4, <1>5, <1>7, <1>8, LeaveSlot

\* Access, of a page that is there: what it holds is written.
LEMMA WriteStep ==
    ASSUME IndInv, NEW t \in Threads, NEW p \in Pages, Access(t, p), thread' = thread
    PROVE  IndInv'
  <1> USE DEF IndInv
  <1>1. region = "up" /\ thread[t].at = "guest" /\ thread[t].at \in Living
        /\ UNCHANGED <<config, region, freelist, inst, worker, pipe, registered, lost>>
    BY DEF Access, Up, Living
  <1>2. PICK s \in Slots : s = thread[t].slot
    BY <1>1, UserIs
  <1>3. /\ page[s][p] # Missing \/ registered = FALSE
        /\ Put(s, [q \in {p} |-> IF q \in Heap THEN Dirty ELSE Zero])
        /\ written' = [written EXCEPT ![s] = @ \cup ({p} \cap Heap)]
        /\ events' = events
    <2>1. ~Become(t, [thread[t] EXCEPT !.at = "blocked", !.page = p])
      <3>1. [thread[t] EXCEPT !.at = "blocked", !.page = p].at = "blocked"
        BY DEF TypeOK, Thread
      <3> QED
        BY <1>1, <3>1 DEF Become, TypeOK
    <2> QED
      BY <1>2, <2>1 DEF Access, TypeOK
  <1>4. /\ page' \in [Slots -> [Pages -> Word]]
        /\ \A x \in Slots : x # s => page'[x] = page[x]
        /\ \A q \in Pages : q # p => page'[s][q] = page[s][q]
        /\ page'[s][p] # Missing
    <2>1. PICK new : new = [q \in {p} |-> IF q \in Heap THEN Dirty ELSE Zero]
      OBVIOUS
    <2>2. DOMAIN new = {p} /\ new[p] \in {Dirty, Zero}
      BY <2>1
    <2>3. new[p] \in Word /\ new[p] # Missing
      BY <2>2 DEF Word, Dirty, Zero, Missing
    <2>4. Put(s, new)
      BY <1>3, <2>1
    <2> QED
      BY <2>2, <2>3, <2>4, PutIs
  <1>5. /\ written' \in [Slots -> SUBSET Heap] /\ written'[s] = written[s] \cup ({p} \cap Heap)
        /\ \A x \in Slots : x # s => written'[x] = written[x]
    BY <1>3 DEF TypeOK
  <1>6. EventInv'
    BY <1>1, <1>3, EventKept
  <1>7. ASSUME registered = TRUE PROVE OwnInv(t)'
    <2>1. LiveInv("guest", s, thread[t].page) /\ OwnInv(t)
      BY <1>1, <1>2, <1>7 DEF MemoryInv, OwnInv
    <2>2. \A q \in Pages : page'[s][q] = Missing <=> page[s][q] = Missing
      BY <1>3, <1>4, <1>7
    <2>3. Uniform(s) => Uniform(s)'
      BY <1>1, <2>2, PagesAre DEF Uniform, FirstPage
    <2>4. Filling(s) <=> Filling(s)'
      BY <1>1 DEF Filling
    <2>5. ASSUME NEW q \in Heap, page'[s][q] # Missing
          PROVE  /\ q < inst'[s].size
                 /\ q \in written'[s] \/ page'[s][q] = Contents(inst'[s].module, q)
      <3>1. q \in Pages /\ page[s][q] # Missing
        BY <2>2, <2>5, PagesAre
      <3> QED
        BY <1>1, <1>4, <1>5, <2>1, <3>1 DEF LiveInv
    <2>6. LiveInv("guest", s, thread[t].page)'
      BY <2>1, <2>3, <2>4, <2>5 DEF LiveInv
    <2>7. Stack \in Pages
      BY PagesAre
    <2> QED
      BY <1>1, <1>2, <2>1, <2>2, <2>6, <2>7 DEF OwnInv, LiveInv, Making
  <1>8. /\ thread'[t].at \notin Making /\ thread[t].at \notin {"idle", "blocked"}
        /\ thread' \in [Threads -> Thread] /\ inst' \in [Slots -> Instance]
        /\ events' \in Seq(Event)
    BY <1>1, <1>3 DEF Making, TypeOK
  <1>9. /\ inst'[s].module \in Modules
        /\ \E k \in 0 .. MaxWasm : inst'[s].size = k * PerWasm
    BY <1>1, <1>2 DEF InstInv
  <1>10. /\ thread'[t].slot = s /\ thread'[t].at # "idle"
         /\ \A u \in Threads : u # t => thread'[u] = thread[u]
         /\ \A x \in Slots : x # s =>
               page'[x] = page[x] /\ inst'[x] = inst[x] /\ written'[x] = written[x]
    BY <1>1, <1>2, <1>4, <1>5
  <1> HIDE DEF IndInv
  <1> QED
    BY <1>1, <1>2, <1>4, <1>5, <1>6, <1>7, <1>8, <1>9, <1>10, GoesOn, ZenonT(60)

\* Access, of a page that is missing: nobody else waits for a page of the slot.
LEMMA FaultStep ==
    ASSUME IndInv, NEW t \in Threads, NEW p \in Pages, Access(t, p), thread' # thread
    PROVE  IndInv'
  <1> USE DEF IndInv
  <1>1. region = "up" /\ thread[t].at = "guest" /\ thread[t].at \in Living
        /\ UNCHANGED <<config, region, freelist, inst, worker, pipe, registered, lost>>
    BY DEF Access, Up, Living
  <1>2. PICK s \in Slots : s = thread[t].slot
    BY <1>1, UserIs
  <1> DEFINE th == [thread[t] EXCEPT !.at = "blocked", !.page = p]
             e == [slot |-> s, page |-> p]
  <1>3. /\ th \in Thread /\ th.at = "blocked" /\ th.slot = s /\ th.page = p
        /\ e \in Event /\ e.slot = s /\ e.page = p
    BY <1>2 DEF TypeOK, Thread, Living, Event
  <1>4. /\ page[s][p] = Missing /\ registered = TRUE /\ Become(t, th)
        /\ events' = Append(events, e) /\ UNCHANGED <<page, written>>
    BY <1>2 DEF Access, TypeOK
  <1> HIDE DEF th, e
  <1>5. /\ thread' \in [Threads -> Thread] /\ thread'[t] = th
        /\ \A u \in Threads : u # t => thread'[u] = thread[u]
    BY <1>3, <1>4, BecomeIs
  <1>6. /\ events' \in Seq(Event) /\ DOMAIN events' = 1 .. Len(events) + 1
        /\ DOMAIN events = 1 .. Len(events) /\ Len(events) \in Nat
        /\ events'[Len(events) + 1] = e /\ \A i \in 1 .. Len(events) : events'[i] = events[i]
    BY <1>3, <1>4 DEF TypeOK
  <1>7. \A u \in Threads : thread[u].at = "blocked" => thread[u].slot # s /\ thread'[u] = thread[u]
    BY <1>1, <1>2, <1>5, UserIs
  <1>8. EventInv'
    <2>1. \A x, q : \A u \in Threads : WaitsFor(u, x, q) => WaitsFor(u, x, q)' /\ x # s
      BY <1>7 DEF WaitsFor
    <2>2. WaitsFor(t, s, p)'
      BY <1>3, <1>5 DEF WaitsFor
    <2>3. \A i \in 1 .. Len(events) : /\ events[i].slot # s
                                      /\ \E u \in Threads :
                                            WaitsFor(u, events[i].slot, events[i].page)'
      BY <1>4, <1>6, <2>1 DEF EventInv
    <2>4. \A i \in DOMAIN events' : \E u \in Threads :
              WaitsFor(u, events[i].slot, events[i].page)'
      BY <1>3, <1>6, <2>2, <2>3 DEF WaitsFor
    <2> QED
      BY <1>1, <1>3, <1>4, <1>6, <2>1, <2>3, <2>4 DEF EventInv, Busy
  <1>9. OwnInv(t)'
    <2>1. LiveInv("guest", s, thread[t].page) /\ OwnInv(t)
      BY <1>1, <1>2, <1>4 DEF MemoryInv, OwnInv
    <2>2. Uniform(s) => Uniform(s)'
      BY <1>1, <1>4 DEF Uniform, FirstPage
    <2>3. Filling(s) <=> Filling(s)'
      BY <1>1 DEF Filling
    <2>4. LiveInv("blocked", s, p)'
      BY <1>1, <1>4, <2>1, <2>2, <2>3 DEF LiveInv
    <2> QED
      BY <1>1, <1>2, <1>3, <1>4, <1>5, <2>1, <2>4 DEF OwnInv, LiveInv, Making
  <1>10. /\ thread'[t].at \notin Making /\ thread[t].at \notin {"idle", "blocked"}
         /\ inst' \in [Slots -> Instance] /\ page' \in [Slots -> [Pages -> Word]]
         /\ written' \in [Slots -> SUBSET Heap]
         /\ thread'[t].slot = s /\ thread'[t].at # "idle"
    BY <1>1, <1>3, <1>4, <1>5 DEF Making, TypeOK
  <1>11. /\ inst'[s].module \in Modules
         /\ \E k \in 0 .. MaxWasm : inst'[s].size = k * PerWasm
    BY <1>1, <1>2 DEF InstInv
  <1> HIDE DEF IndInv
  <1> QED
    BY <1>1, <1>2, <1>4, <1>5, <1>6, <1>8, <1>9, <1>10, <1>11, GoesOn

-----------------------------------------------------------------------------
(* The region and the worker.                                              *)

\* Create, DropRegion and Unmap: nobody uses the region.
LEMMA RegionStep ==
    ASSUME IndInv, Create \/ DropRegion \/ Unmap
    PROVE  IndInv'
  <1> USE DEF IndInv
  <1>1. /\ \A t \in Threads : thread[t].at = "idle"
        /\ UNCHANGED <<config, inst, page, thread, events, worker, registered, lost,
                       written>>
        /\ region' \in Regions /\ region \in {"creating", "up", "joining"}
        /\ pipe' \in BOOLEAN /\ (pipe' = TRUE => region' \notin {"creating", "up"})
        /\ \/ freelist' = freelist /\ region' # "up" /\ region' # "creating"
           \/ freelist' = 1 .. config.capacity /\ region = "creating" /\ region' = "up"
        /\ pipe = TRUE => pipe' = TRUE
    BY DEF Create, DropRegion, Unmap, Regions, RegionInv, TypeOK
  <1>2. TypeOK'
    BY <1>1 DEF TypeOK
  <1>3. SlotInv'
    BY <1>1 DEF SlotInv, RegionInv
  <1>4. RegionInv'
    BY <1>1 DEF RegionInv
  <1>5. InstInv' /\ WorkerInv' /\ EventInv'
    BY <1>1, EventKept DEF InstInv, WorkerInv, At
  <1>6. MemoryInv'
    <2>1. \A t \in Threads : OwnInv(t)'
      BY <1>1 DEF OwnInv, Making, Living
    <2>2. FillInv => FillInv'
      BY <1>1, FillKept
    <2>3. registered = TRUE => \A s \in freelist' : page[s] = Blank
      BY <1>1, ConfigIs DEF MemoryInv, RegionInv
    <2> QED
      BY <1>1, <2>1, <2>2, <2>3 DEF MemoryInv
  <1> QED
    BY <1>2, <1>3, <1>4, <1>5, <1>6

\* A worker that has a fault to handle works for somebody who waits for it.
LEMMA Waiting ==
    ASSUME IndInv, Busy
    PROVE  /\ registered = TRUE /\ worker.slot \in Slots /\ worker.page \in Pages
           /\ worker.slot \in 1 .. config.capacity
           /\ inst[worker.slot] # NoInst /\ inst[worker.slot].module \in Modules
           /\ \E k \in 0 .. MaxWasm : inst[worker.slot].size = k * PerWasm
           /\ region \in {"up", "aborted"}
           /\ \E t \in Threads :
                 /\ WaitsFor(t, worker.slot, worker.page)
                 /\ LiveInv("blocked", worker.slot, worker.page)
                 /\ config.stackInit = "Eager" => page[worker.slot][Stack] # Missing
                 /\ \A u \in Threads : u # t /\ thread[u].at # "idle" => thread[u].slot # worker.slot
  <1> USE DEF IndInv
  <1>1. registered = TRUE
    BY DEF WorkerInv, Busy, TypeOK
  <1>2. PICK t \in Threads : WaitsFor(t, worker.slot, worker.page)
    BY <1>1 DEF EventInv
  <1>3. /\ thread[t].at = "blocked" /\ thread[t].slot = worker.slot
        /\ thread[t].page = worker.page /\ thread[t].at \in Living
    BY <1>2 DEF WaitsFor, Living
  <1>4. worker.slot \in Slots
        /\ \A u \in Threads : u # t /\ thread[u].at # "idle" => thread[u].slot # worker.slot
    BY <1>3, UserIs
  <1>5. /\ inst[worker.slot].module \in Modules
        /\ \E k \in 0 .. MaxWasm : inst[worker.slot].size = k * PerWasm
    BY <1>3 DEF InstInv
  <1>6. inst[worker.slot] # NoInst
    BY <1>5, ModulesAssumption DEF NoInst
  <1>7. region \in {"up", "aborted"}
    BY <1>3 DEF RegionInv, TypeOK, Regions
  <1>8. LiveInv("blocked", worker.slot, worker.page)
        /\ (config.stackInit = "Eager" => page[worker.slot][Stack] # Missing)
    BY <1>1, <1>3 DEF MemoryInv, OwnInv
  <1>9. worker.page \in Pages
    BY DEF TypeOK, WorkerState
  <1>10. worker.slot \in 1 .. config.capacity
    BY <1>3 DEF SlotInv
  <1> QED
    BY <1>1, <1>2, <1>4, <1>5, <1>6, <1>7, <1>8, <1>9, <1>10

\* What a step of the worker that wakes threads keeps: everybody has the slot they had,
\* and lives if they lived.
LEMMA WorkerKeeps ==
    ASSUME IndInv, UNCHANGED <<config, freelist, inst, lost, pipe>>,
           region' = region \/ region' = "aborted", page' = page \/ region # "creating",
           \A u \in Threads :
               \/ thread'[u] = thread[u]
               \/ /\ thread[u].at = "blocked" /\ thread'[u].at \in {"guest", "faulted"}
                  /\ thread'[u].slot = thread[u].slot
    PROVE  SlotInv' /\ RegionInv' /\ InstInv'
  <1> USE DEF IndInv
  <1>1. \A u \in Threads :
            /\ thread[u].at = "idle" <=> thread'[u].at = "idle"
            /\ thread[u].at # "idle" => thread'[u].slot = thread[u].slot
            /\ thread[u].at \in Living <=> thread'[u].at \in Living
            /\ thread[u].at \in Making <=> thread'[u].at \in Making
            /\ thread[u].at \in Making => thread'[u].module = thread[u].module
    BY DEF Living, Making
  <1>2. SlotInv'
    <2>1. \A s : \A u \in Threads :
             At(u, s, Making \cup Living) => At(u, s, Making \cup Living)'
      BY <1>1 DEF At, Making, Living
    <2>2. (region = "up" => \A s \in 1 .. config.capacity :
              s \in freelist \cup lost \/ \E t \in Threads : At(t, s, Making \cup Living))'
      BY <2>1 DEF SlotInv
    <2>3. (\A t \in Threads : thread[t].at # "idle" =>
              thread[t].slot \in (1 .. config.capacity) \ (freelist \cup lost))'
      BY <1>1 DEF SlotInv
    <2>4. (\A t, u \in Threads :
              thread[t].at # "idle" /\ thread[u].at # "idle" /\ thread[t].slot = thread[u].slot
                  => t = u)'
      BY <1>1 DEF SlotInv
    <2> QED
      BY <2>2, <2>3, <2>4 DEF SlotInv
  <1>3. RegionInv'
    BY <1>1 DEF RegionInv
  <1>4. InstInv'
    <2>1. \A s : \A u \in Threads : At(u, s, Living) => At(u, s, Living)'
      BY <1>1 DEF At, Living
    <2>2. \A u \in Threads : thread'[u].at \in Living => thread'[u].slot = thread[u].slot
      BY <1>1 DEF Living
    <2> QED
      BY <1>1, <2>1, <2>2 DEF InstInv
  <1> QED
    BY <1>2, <1>3, <1>4

\* A worker that is not at a page of the slot, or stays at one, as its user knows it.
LEMMA OwnersKept ==
    ASSUME IndInv, UNCHANGED <<config, inst, written, thread, page>>,
           \A x \in Slots : Filling(x) => Filling(x)'
    PROVE  registered = TRUE => \A u \in Threads : OwnInv(u)'
  <1> USE DEF IndInv
  <1>1. SUFFICES ASSUME registered = TRUE, NEW u \in Threads PROVE OwnInv(u)'
    OBVIOUS
  <1>2. OwnInv(u)
    BY <1>1 DEF MemoryInv
  <1>3. thread[u].at \in Living => thread[u].slot \in Slots
    BY UserIs DEF Living
  <1> QED
    BY <1>2, <1>3, OwnKept

\* The new states of the worker.
LEMMA PollingIs == Polling \in WorkerState /\ Polling.at = "poll" /\ Polling.slot = 0
  BY PagesAre DEF Polling, WorkerState

\* WorkerPolls: the event that is read is the only one for its slot.
LEMMA WorkerPollsStep ==
    ASSUME IndInv, WorkerPolls
    PROVE  IndInv'
  <1> USE DEF IndInv
  <1>1. /\ worker.at = "poll"
        /\ UNCHANGED <<config, region, freelist, inst, page, thread, pipe, registered, lost,
                       written>>
    BY DEF WorkerPolls
  <1>2. registered = TRUE /\ worker \in WorkerState
    BY <1>1 DEF WorkerInv, TypeOK
  <1>3. SlotInv' /\ RegionInv' /\ InstInv'
    BY <1>1, WorkerKeeps
  <1>4. \A x : ~Filling(x)
    BY <1>1 DEF Filling
  <1>5. \A u \in Threads : OwnInv(u)'
    BY <1>1, <1>2, <1>4, OwnersKept
  <1>6. CASE pipe = TRUE /\ worker' = [worker EXCEPT !.at = "ended"] /\ events' = events
    <2>1. worker' \in WorkerState /\ worker'.at = "ended"
      BY <1>2, <1>6 DEF WorkerState
    <2>2. TypeOK'
      BY <1>1, <1>6, <2>1 DEF TypeOK
    <2>3. WorkerInv'
      BY <1>1, <1>2, <1>6, <2>1 DEF WorkerInv
    <2>4. EventInv'
      BY <1>1, <1>2, <1>6, <2>1 DEF EventInv, Busy, WaitsFor
    <2>5. MemoryInv'
      BY <1>1, <1>2, <1>5, <2>1 DEF MemoryInv, FillInv
    <2> QED
      BY <1>3, <2>2, <2>3, <2>4, <2>5
  <1>7. CASE /\ events # <<>>
             /\ worker' = [worker EXCEPT !.at = "handle", !.slot = Head(events).slot,
                                         !.page = Head(events).page]
             /\ events' = Tail(events)
    <2>1. /\ events \in Seq(Event) /\ events' \in Seq(Event) /\ Len(events) \in Nat \ {0}
          /\ Len(events') = Len(events) - 1 /\ \A i \in 1 .. Len(events') : events'[i] = events[i + 1]
          /\ DOMAIN events' = 1 .. Len(events') /\ DOMAIN events = 1 .. Len(events)
      BY <1>7 DEF TypeOK
    <2>2. PICK e \in Event : e = Head(events) /\ e = events[1]
      BY <1>7, <2>1
    <2>3. e.slot \in Slots /\ e.slot \in 0 .. Capacity /\ e.page \in Pages
      BY <2>2, PagesAre DEF Event
    <2>4. worker' \in WorkerState /\ worker'.at = "handle" /\ worker'.slot = e.slot
          /\ worker'.page = e.page
      BY <1>2, <1>7, <2>2, <2>3 DEF WorkerState
    <2>5. TypeOK'
      BY <1>1, <2>1, <2>4 DEF TypeOK
    <2>6. WorkerInv'
      BY <1>1, <1>2, <2>4 DEF WorkerInv
    <2>7. EventInv'
      <3>1. \A i \in 1 .. Len(events') : i + 1 \in DOMAIN events /\ i + 1 # 1
        BY <2>1
      <3>2. 1 \in DOMAIN events
        BY <2>1
      <3>3. \A i \in DOMAIN events' :
               \E t \in Threads : WaitsFor(t, events[i].slot, events[i].page)'
        BY <1>1, <1>2, <2>1, <3>1 DEF EventInv, WaitsFor
      <3>4. \A i, j \in DOMAIN events' : events'[i].slot = events'[j].slot => i = j
        BY <1>2, <2>1, <3>1 DEF EventInv
      <3>5. \A i \in DOMAIN events' : events'[i].slot # worker'.slot
        BY <1>2, <2>1, <2>2, <2>4, <3>1, <3>2 DEF EventInv
      <3>6. \E t \in Threads : WaitsFor(t, worker.slot, worker.page)'
        BY <1>1, <1>2, <2>2, <2>4, <3>2 DEF EventInv, WaitsFor
      <3> QED
        BY <3>3, <3>4, <3>5, <3>6 DEF EventInv
    <2>8. MemoryInv'
      BY <1>1, <1>2, <1>5, <2>4 DEF MemoryInv, FillInv
    <2> QED
      BY <1>3, <2>5, <2>6, <2>7, <2>8
  <1> QED
    BY <1>6, <1>7 DEF WorkerPolls, PipeReady, TypeOK

\* A wake reaches the one thread that waits in the slot.
LEMMA WokenIs ==
    ASSUME TypeOK, NEW t \in Threads, NEW s, NEW p, WaitsFor(t, s, p),
           \A u \in Threads : u # t /\ thread[u].at # "idle" => thread[u].slot # s,
           NEW P, p \in P, NEW filled, thread' = Woken(s, P, filled)
    PROVE  /\ thread' \in [Threads -> Thread]
           /\ \A u \in Threads : u # t => thread'[u] = thread[u]
           /\ thread'[t].at = IF p \in filled THEN "guest" ELSE "faulted"
           /\ thread'[t].slot = s /\ thread'[t].page = p
  <1>1. thread[t] \in Thread /\ thread[t].at = "blocked" /\ thread[t].slot = s /\ thread[t].page = p
    BY DEF WaitsFor, TypeOK
  <1>2. PICK at \in {"guest", "faulted"} : at = IF p \in filled THEN "guest" ELSE "faulted"
    OBVIOUS
  <1> DEFINE th == [thread[t] EXCEPT !.at = at]
  <1>3. th \in Thread /\ th.at = at /\ th.slot = s /\ th.page = p
    BY <1>1 DEF Thread, Living
  <1>4. thread'[t] = th
    BY <1>1, <1>2 DEF Woken
  <1>5. ASSUME NEW u \in Threads, u # t PROVE thread'[u] = thread[u]
    <2>1. ~(thread[u].at = "blocked" /\ thread[u].slot = s)
      BY <1>5
    <2> QED
      BY <2>1 DEF Woken
  <1> HIDE DEF th
  <1>6. thread' \in [Threads -> Thread]
    <2>1. thread' = [u \in Threads |-> thread'[u]]
      BY DEF Woken
    <2>2. \A u \in Threads : thread'[u] \in Thread
      BY <1>3, <1>4, <1>5 DEF TypeOK
    <2> QED
      BY <2>1, <2>2
  <1> QED
    BY <1>2, <1>3, <1>4, <1>5, <1>6

\* The end of a fault: the thread that waited goes on or is faulted, and the worker looks
\* for the next event.
Answers(t, s, at) ==
    /\ thread' \in [Threads -> Thread]
    /\ thread'[t].at = at /\ thread'[t].slot = s /\ thread'[t].page = thread[t].page
    /\ \A u \in Threads : u # t => thread'[u] = thread[u]
    /\ \A u \in Threads : u # t /\ thread[u].at # "idle" => thread[u].slot # s
    /\ page' \in [Slots -> [Pages -> Word]]
    /\ \A x \in Slots : x # s => page'[x] = page[x]
    /\ worker' = Polling
    /\ UNCHANGED <<config, region, freelist, inst, events, pipe, registered, lost, written>>

\* It keeps the invariant when the slot is as it should be for the thread's new state.
LEMMA Answered ==
    ASSUME IndInv, Busy, NEW t \in Threads, NEW s \in Slots, s = worker.slot,
           WaitsFor(t, s, worker.page), NEW at \in {"guest", "faulted"}, Answers(t, s, at),
           NEW p, p = worker.page, LiveInv(at, s, p)',
           config.stackInit = "Eager" => page'[s][Stack] # Missing
    PROVE  IndInv'
  <1> USE DEF IndInv, Answers
  <1>1. registered = TRUE /\ region # "creating"
    BY Waiting
  <1>2. thread[t].at = "blocked" /\ thread[t].slot = s /\ thread[t].page = p
    BY DEF WaitsFor
  <1>3. worker' \in WorkerState /\ worker'.at = "poll" /\ worker'.slot = 0
    BY PollingIs
  <1>4. TypeOK'
    BY <1>3 DEF TypeOK
  <1>5. SlotInv' /\ RegionInv' /\ InstInv'
    BY <1>1, <1>2, WorkerKeeps
  <1>6. WorkerInv'
    BY <1>1, <1>3 DEF WorkerInv
  <1>7. EventInv'
    <2>1. \A x, q : \A u \in Threads : WaitsFor(u, x, q) /\ x # s => WaitsFor(u, x, q)'
      BY <1>2 DEF WaitsFor
    <2>2. \A i \in DOMAIN events :
             \E u \in Threads : WaitsFor(u, events[i].slot, events[i].page)'
      BY <1>1, <2>1 DEF EventInv, WaitsFor
    <2> QED
      BY <1>1, <1>3, <2>2 DEF EventInv, Busy
  <1>8. OwnInv(t)'
    <2>1. thread'[t].page = p
      BY <1>2
    <2>2. at \notin Making
      BY DEF Making
    <2> QED
      BY <2>1, <2>2 DEF OwnInv, LiveInv
  <1>9. ASSUME NEW u \in Threads, u # t PROVE OwnInv(u)'
    <2>1. CASE thread[u].at = "idle"
      BY <1>9, <2>1 DEF OwnInv, Making, Living
    <2>2. CASE thread[u].at # "idle"
      <3>1. PICK x \in Slots : x = thread[u].slot
        BY <2>2, UserIs
      <3>2. x # s /\ OwnInv(u) /\ ~Filling(x)
        BY <1>1, <1>9, <2>2, <3>1 DEF MemoryInv, Filling
      <3> QED
        BY <1>9, <3>1, <3>2, OwnKept
    <2> QED
      BY <2>1, <2>2
  <1>10. MemoryInv'
    <2>1. s \notin freelist
      BY <1>2, UserIs
    <2>2. \A x \in freelist : page'[x] = Blank
      BY <1>1, <2>1, ConfigIs DEF MemoryInv, TypeOK
    <2> QED
      BY <1>3, <1>8, <1>9, <2>2 DEF MemoryInv, FillInv
  <1> QED
    BY <1>4, <1>5, <1>6, <1>7, <1>10

\* The worker moves on with a fault that it has.
LEMMA WorkerMoves ==
    ASSUME IndInv, Busy, worker' \in WorkerState, worker'.at \in {"fill", "failed"},
           worker'.slot = worker.slot, worker'.page = worker.page,
           UNCHANGED <<config, region, freelist, inst, page, thread, events, pipe,
                       registered,
                       lost, written>>,
           FillInv'
    PROVE  IndInv'
  <1> USE DEF IndInv
  <1>1. registered = TRUE
    BY Waiting
  <1>2. TypeOK'
    BY DEF TypeOK
  <1>3. SlotInv' /\ RegionInv' /\ InstInv'
    BY WorkerKeeps
  <1>4. WorkerInv'
    BY <1>1 DEF WorkerInv
  <1>5. EventInv'
    BY <1>1 DEF EventInv, Busy, WaitsFor
  <1>6. \A x \in Slots : Filling(x) => Filling(x)'
    BY DEF Filling
  <1>7. MemoryInv'
    BY <1>1, <1>6, OwnersKept DEF MemoryInv
  <1> QED
    BY <1>2, <1>3, <1>4, <1>5, <1>7

\* WorkerHandles: the instance is there, the stack is lazy, and what is to be filled is
\* missing as a whole.
LEMMA WorkerHandlesStep ==
    ASSUME IndInv, WorkerHandles
    PROVE  IndInv'
  <1>1. /\ worker.at = "handle" /\ Busy
        /\ UNCHANGED <<config, region, freelist, inst, page, events, pipe, registered, lost,
                       written>>
    BY DEF WorkerHandles, Busy
  <1>2. PICK s \in Slots, p \in Pages, t \in Threads :
            /\ s = worker.slot /\ p = worker.page
            /\ WaitsFor(t, s, p) /\ LiveInv("blocked", s, p)
            /\ config.stackInit = "Eager" => page[s][Stack] # Missing
            /\ \A u \in Threads : u # t /\ thread[u].at # "idle" => thread[u].slot # s
            /\ inst[s] # NoInst /\ inst[s].module \in Modules /\ s \in 1 .. config.capacity
    BY <1>1, Waiting
  <1>3. /\ TypeOK /\ inst \in [Slots -> Instance] /\ worker \in WorkerState
        /\ page[s][p] = Missing /\ Uniform(s)
    BY <1>1, <1>2 DEF IndInv, TypeOK, LiveInv, Filling
  <1>4. /\ AddrLocation(s, p) = "Heap" <=> p < inst[s].size
        /\ AddrLocation(s, p) = "Stack" <=> p = Stack
    BY <1>3, LocationIs
  <1>5. CASE /\ AddrLocation(s, p) \in Fatal
             /\ worker' = Polling /\ thread' = Woken(s, {p}, {})
    <2>1. /\ thread' \in [Threads -> Thread]
          /\ \A u \in Threads : u # t => thread'[u] = thread[u]
          /\ thread'[t].at = "faulted" /\ thread'[t].slot = s /\ thread'[t].page = p
      <3>1. PICK P, F : P = {p} /\ F = {}
        OBVIOUS
      <3>2. p \in P /\ p \notin F /\ thread' = Woken(s, P, F)
        BY <1>5, <3>1
      <3> QED
        BY <1>2, <1>3, <3>2, WokenIs
    <2>2. thread[t].page = p
      BY <1>2 DEF WaitsFor
    <2>3. Answers(t, s, "faulted")
      BY <1>1, <1>2, <1>3, <1>5, <2>1, <2>2 DEF Answers, TypeOK
    <2>4. LiveInv("faulted", s, p)'
      <3>1. Uniform(s)'
        BY <1>1, <1>3 DEF Uniform, FirstPage
      <3>2. ~(p < inst[s].size) /\ p # Stack
        BY <1>4, <1>5 DEF Fatal
      <3> QED
        BY <1>1, <1>2, <3>1, <3>2 DEF LiveInv
    <2> QED
      BY <1>1, <1>2, <2>3, <2>4, Answered
  <1>6. ASSUME NEW n \in Pages, thread' = thread,
               worker' = [worker EXCEPT !.at = "fill", !.next = n, !.tries = 0]
        PROVE  /\ worker' \in WorkerState /\ worker'.at = "fill" /\ worker'.slot = s
               /\ worker'.page = p /\ worker'.next = n
               /\ FillInv' => IndInv'
    <2>1. /\ worker' \in WorkerState /\ worker'.at = "fill" /\ worker'.slot = s
          /\ worker'.page = p /\ worker'.next = n
      BY <1>2, <1>3, <1>6 DEF WorkerState
    <2> QED
      BY <1>1, <1>2, <1>6, <2>1, WorkerMoves
  <1>7. CASE /\ AddrLocation(s, p) = "Stack" /\ thread' = thread
             /\ IF config.stackInit = "Lazy"
                THEN worker' = [worker EXCEPT !.at = "fill", !.next = Stack, !.tries = 0]
                ELSE WorkerFails("eager stack")
    <2>1. p = Stack /\ config.stackInit = "Lazy"
      BY <1>2, <1>3, <1>4, <1>7, ConfigIs DEF Dispositions
    <2>2. /\ worker' \in WorkerState /\ worker'.at = "fill" /\ worker'.slot = s
          /\ worker'.page = p /\ worker'.next = Stack
          /\ FillInv' => IndInv'
      BY <1>6, <1>7, <2>1, PagesAre
    <2>3. FillInv'
      BY <1>1, <1>3, <2>1, <2>2 DEF FillInv, Uniform, FirstPage
    <2> QED
      BY <2>2, <2>3
  <1>8. CASE /\ AddrLocation(s, p) = "Heap" /\ thread' = thread
             /\ worker' = [worker EXCEPT !.at = "fill", !.next = FirstPage(p), !.tries = 0]
    <2>1. /\ p < inst[s].size /\ inst[s].size \in 0 .. HeapPages /\ p \in Heap
      BY <1>3, <1>4, <1>8, PagesAre DEF Instance, Heap, Pages
    <2>2. PICK n \in Heap : n = FirstPage(p) /\ n <= p /\ FirstPage(n) = n
      BY <1>3, <2>1, FirstPageIs
    <2>3. /\ worker' \in WorkerState /\ worker'.at = "fill" /\ worker'.slot = s
          /\ worker'.page = p /\ worker'.next = n
          /\ FillInv' => IndInv'
      BY <1>6, <1>8, <2>2, PagesAre
    <2>4. n < inst[s].size
      BY <2>1, <2>2 DEF Heap
    <2>5. \A q \in Heap : FirstPage(q) = n => page[s][q] = Missing /\ q >= n
      BY <1>3, <2>1, <2>2, FirstPageIs DEF Uniform, Heap
    <2>6. \A q : FirstPage(q)' = FirstPage(q)
      BY <1>1 DEF FirstPage
    <2>7. FillInv'
      BY <1>1, <1>3, <2>1, <2>2, <2>3, <2>4, <2>5, <2>6 DEF FillInv, Uniform
    <2> QED
      BY <2>3, <2>7
  <1>9. ~(s > config.capacity)
    BY <1>2, <1>3, ConfigIs DEF Slots
  <1> QED
    BY <1>2, <1>5, <1>7, <1>8, <1>9 DEF WorkerHandles

\* The end of a wasm page, or of the page that is filled by itself.
LEMMA LastPage ==
    ASSUME IndInv, Busy, NEW s \in Slots, s = worker.slot, NEW p \in Heap, p < inst[s].size,
           ~More(p), NEW q \in Heap, FirstPage(q) = FirstPage(p)
    PROVE  q <= p
  <1>1. p \in Nat /\ q \in Nat /\ TypeOK /\ inst \in [Slots -> Instance]
    BY DEF Heap, IndInv, TypeOK
  <1>2. CASE config.heapPage # "Wasm"
    BY <1>1, <1>2 DEF FirstPage
  <1>3. CASE config.heapPage = "Wasm"
    <2>1. Base(q) = Base(p)
      BY <1>3 DEF FirstPage, Base
    <2>2. AddrLocation(s, p) = "Heap"
      BY <1>1, LocationIs, PagesAre
    <2>3. CASE (p + 1) % PerWasm = 0
      BY <1>1, <2>1, <2>3, BaseNext
    <2>4. CASE AddrLocation(s, p + 1) # "Heap"
      <3>1. PICK k \in 0 .. MaxWasm : inst[s].size = k * PerWasm
        BY Waiting
      <3>2. inst[s].size \in Nat /\ k \in Nat
        BY <1>1, PagesAre DEF Instance
      <3>3. q < inst[s].size
        BY <1>1, <2>1, <3>1, <3>2, BaseWithin
      <3>4. p + 1 \in Pages
        BY PagesAre DEF Heap, Pages, SigStack
      <3>5. ~(p + 1 < inst[s].size)
        BY <1>1, <2>4, <3>4, LocationIs
      <3> QED
        BY <1>1, <3>2, <3>3, <3>5
    <2> QED
      BY <1>3, <2>2, <2>3, <2>4 DEF More
  <1> QED
    BY <1>2, <1>3

\* The next page of a wasm page is in the heap, too.
LEMMA NextPage ==
    ASSUME IndInv, Busy, NEW s \in Slots, s = worker.slot, NEW p \in Pages, More(p)
    PROVE  /\ p \in Heap /\ p + 1 \in Heap /\ p < inst[s].size /\ p + 1 < inst[s].size
           /\ FirstPage(p + 1) = FirstPage(p)
  <1>1. TypeOK /\ inst \in [Slots -> Instance] /\ inst[s].size \in 0 .. HeapPages
    BY DEF IndInv, TypeOK, Instance
  <1>2. p \in Nat /\ p < inst[s].size
    BY <1>1, LocationIs, PagesAre DEF More
  <1>3. p \in Heap /\ p + 1 \in Pages
    BY <1>1, <1>2, PagesAre DEF Heap, Pages, SigStack
  <1>4. p + 1 < inst[s].size
    BY <1>1, <1>3, LocationIs DEF More
  <1>5. p + 1 \in Heap
    BY <1>1, <1>2, <1>4, PagesAre DEF Heap
  <1>6. FirstPage(p + 1) = FirstPage(p)
    <2>1. Base(p + 1) = Base(p)
      BY <1>2, BaseNext DEF More
    <2> QED
      BY <2>1 DEF FirstPage, Base, More
  <1> QED
    BY <1>2, <1>3, <1>4, <1>5, <1>6

\* A page that the worker fills: the heap is as it should be with it.
LEMMA Filled ==
    ASSUME IndInv, worker.at = "fill", NEW s \in Slots, s = worker.slot,
           NEW p \in Pages, p = worker.next,
           Put(s, [q \in {p} |-> IF q = Stack THEN Zero ELSE Contents(inst[s].module, q)])
    PROVE  /\ page' \in [Slots -> [Pages -> Word]]
           /\ \A x \in Slots : x # s => page'[x] = page[x]
           /\ \A q \in Pages : q # p => page'[s][q] = page[s][q]
           /\ page'[s][p] # Missing
           /\ \A q \in Heap : page'[s][q] # Missing =>
                 /\ q < inst[s].size
                 /\ q \in written[s] \/ page'[s][q] = Contents(inst[s].module, q)
  <1>1. Busy
    BY DEF Busy
  <1>2. PICK m \in Modules : m = inst[s].module
    BY <1>1, Waiting
  <1>3. PICK new : new = [q \in {p} |-> IF q = Stack THEN Zero ELSE Contents(m, q)]
    OBVIOUS
  <1>4. DOMAIN new = {p} /\ new[p] = (IF p = Stack THEN Zero ELSE Contents(m, p))
    BY <1>3
  <1>5. new[p] \in Word /\ new[p] # Missing
    BY <1>4, ContentsAre DEF Word, Zero, Missing
  <1>6. Put(s, new)
    BY <1>2, <1>3
  <1>7. /\ page' \in [Slots -> [Pages -> Word]]
        /\ \A x \in Slots : x # s => page'[x] = page[x]
        /\ \A q \in Pages : q # p => page'[s][q] = page[s][q]
        /\ page'[s][p] = new[p]
    BY <1>4, <1>5, <1>6, PutIs DEF IndInv
  <1>8. LiveInv("blocked", s, worker.page) /\ registered = TRUE
    BY <1>1, Waiting
  <1>9. p = Stack \/ p < inst[s].size
    BY <1>8 DEF IndInv, MemoryInv, FillInv
  <1>10. ASSUME NEW q \in Heap, page'[s][q] # Missing
         PROVE  /\ q < inst[s].size
                /\ q \in written[s] \/ page'[s][q] = Contents(inst[s].module, q)
    <2>1. q \in Pages /\ q # Stack
      BY PagesAre
    <2>2. CASE q = p
      BY <1>2, <1>4, <1>7, <1>9, <2>1, <2>2
    <2>3. CASE q # p
      BY <1>7, <1>8, <1>10, <2>1, <2>3 DEF LiveInv
    <2> QED
      BY <2>2, <2>3
  <1> QED
    BY <1>5, <1>7, <1>10

\* WorkerFills, when there is more to fill.
LEMMA FillsMore ==
    ASSUME IndInv, worker.at = "fill", NEW s \in Slots, s = worker.slot,
           NEW p \in Pages, p = worker.next, More(p),
           Put(s, [q \in {p} |-> IF q = Stack THEN Zero ELSE Contents(inst[s].module, q)]),
           worker' = [worker EXCEPT !.next = p + 1, !.tries = 0],
           UNCHANGED <<config, region, freelist, inst, thread, events, pipe, registered,
                       lost,
                       written>>
    PROVE  IndInv'
  <1>1. Busy
    BY DEF Busy
  <1>2. /\ page' \in [Slots -> [Pages -> Word]]
        /\ \A x \in Slots : x # s => page'[x] = page[x]
        /\ \A q \in Pages : q # p => page'[s][q] = page[s][q]
        /\ page'[s][p] # Missing
        /\ \A q \in Heap : page'[s][q] # Missing =>
              /\ q < inst[s].size
              /\ q \in written[s] \/ page'[s][q] = Contents(inst[s].module, q)
    BY Filled
  <1>3. /\ p \in Heap /\ p + 1 \in Heap /\ p < inst[s].size /\ p + 1 < inst[s].size
        /\ FirstPage(p + 1) = FirstPage(p) /\ p + 1 \in Pages /\ p # Stack
    BY <1>1, NextPage, PagesAre
  <1>4. registered = TRUE /\ region # "creating"
    BY <1>1, Waiting
  <1>5. PICK g \in Pages, t \in Threads :
            /\ g = worker.page /\ WaitsFor(t, s, g)
            /\ LiveInv("blocked", s, g)
            /\ config.stackInit = "Eager" => page[s][Stack] # Missing
            /\ \A u \in Threads : u # t /\ thread[u].at # "idle" => thread[u].slot # s
    BY <1>1, Waiting
  <1> USE DEF IndInv
  <1>6. /\ worker' \in WorkerState /\ worker'.at = "fill" /\ worker'.slot = s
        /\ worker'.page = g /\ worker'.next = p + 1
    BY <1>3, <1>5 DEF TypeOK, WorkerState
  <1>7. TypeOK'
    BY <1>2, <1>6 DEF TypeOK
  <1>8. SlotInv' /\ RegionInv' /\ InstInv'
    BY <1>4, WorkerKeeps
  <1>9. WorkerInv'
    BY <1>4, <1>6 DEF WorkerInv
  <1>10. EventInv'
    BY <1>1, <1>4, <1>5, <1>6 DEF EventInv, Busy, WaitsFor
  <1>11. ASSUME NEW u \in Threads PROVE OwnInv(u)'
    <2>1. CASE u = t
      <3>1. Filling(s)'
        BY <1>6 DEF Filling
      <3>2. LiveInv("blocked", s, g)'
        BY <1>2, <3>1 DEF LiveInv
      <3>3. Stack \in Pages
        BY PagesAre
      <3> QED
        BY <1>2, <1>3, <1>5, <2>1, <3>2, <3>3 DEF OwnInv, LiveInv, WaitsFor, Making
    <2>2. CASE thread[u].at = "idle"
      BY <2>2 DEF OwnInv, Making, Living
    <2>3. CASE u # t /\ thread[u].at # "idle"
      <3>1. PICK x \in Slots : x = thread[u].slot
        BY <2>3, UserIs
      <3>2. x # s /\ OwnInv(u) /\ ~Filling(x)
        BY <1>4, <1>5, <2>3, <3>1 DEF MemoryInv, Filling
      <3> QED
        BY <1>2, <3>1, <3>2, OwnKept
    <2> QED
      BY <2>1, <2>2, <2>3
  <1>12. FillInv'
    <2>1. \A q : FirstPage(q)' = FirstPage(q)
      BY DEF FirstPage
    <2>2. /\ g < inst[s].size /\ FirstPage(p) = FirstPage(g)
          /\ \A q \in Heap : FirstPage(q) = FirstPage(g) => (page[s][q] = Missing <=> q >= p)
          /\ \A r, q \in Heap : FirstPage(r) = FirstPage(q) /\ FirstPage(r) # FirstPage(g)
                => (page[s][r] = Missing <=> page[s][q] = Missing)
      BY <1>3, <1>4, <1>5 DEF MemoryInv, FillInv
    <2>3. \A q \in Heap : FirstPage(q) = FirstPage(g) => (page'[s][q] = Missing <=> q >= p + 1)
      BY <1>2, <1>3, <2>2, PagesAre, SMTT(30) DEF Heap
    <2>4. \A r, q \in Heap : FirstPage(r) = FirstPage(q) /\ FirstPage(r) # FirstPage(g)
              => (page'[s][r] = Missing <=> page'[s][q] = Missing)
      BY <1>2, <2>2, PagesAre
    <2> QED
      BY <1>3, <1>6, <2>1, <2>2, <2>3, <2>4 DEF FillInv
  <1>13. MemoryInv'
    <2>1. s \notin freelist
      BY <1>5, UserIs DEF WaitsFor
    <2> QED
      BY <1>2, <1>4, <1>11, <1>12, <2>1, ConfigIs DEF MemoryInv, TypeOK
  <1> QED
    BY <1>7, <1>8, <1>9, <1>10, <1>13

\* WorkerFills, when there is no more to fill: the page that faulted is there.
LEMMA FillsLast ==
    ASSUME IndInv, worker.at = "fill", NEW s \in Slots, s = worker.slot,
           NEW p \in Pages, p = worker.next, ~More(p),
           Put(s, [q \in {p} |-> IF q = Stack THEN Zero ELSE Contents(inst[s].module, q)]),
           worker' = Polling, thread' = Woken(s, Wakes(p), Present(s) \cup {p}),
           UNCHANGED <<config, region, freelist, inst, events, pipe, registered, lost,
                       written>>
    PROVE  IndInv'
  <1>1. Busy
    BY DEF Busy
  <1>2. /\ page' \in [Slots -> [Pages -> Word]]
        /\ \A x \in Slots : x # s => page'[x] = page[x]
        /\ \A q \in Pages : q # p => page'[s][q] = page[s][q]
        /\ page'[s][p] # Missing
        /\ \A q \in Heap : page'[s][q] # Missing =>
              /\ q < inst[s].size
              /\ q \in written[s] \/ page'[s][q] = Contents(inst[s].module, q)
    BY Filled
  <1>3. registered = TRUE
    BY <1>1, Waiting
  <1>4. PICK g \in Pages, t \in Threads :
            /\ g = worker.page /\ WaitsFor(t, s, g)
            /\ LiveInv("blocked", s, g)
            /\ config.stackInit = "Eager" => page[s][Stack] # Missing
            /\ \A u \in Threads : u # t /\ thread[u].at # "idle" => thread[u].slot # s
    BY <1>1, Waiting
  <1>5. TypeOK /\ inst \in [Slots -> Instance] /\ inst[s].size \in 0 .. HeapPages
    BY DEF IndInv, TypeOK, Instance
  <1>6. \A q : FirstPage(q)' = FirstPage(q)
    BY DEF FirstPage
  <1>7. g \in Wakes(p) /\ g \in Present(s) \cup {p} /\ Uniform(s)'
    <2>1. CASE g = Stack /\ p = Stack /\ Uniform(s)
      <3>1. AddrLocation(s, p) # "Heap"
        BY <1>5, <2>1, LocationIs, PagesAre
      <3>2. Uniform(s)'
        BY <1>2, <1>6, <2>1, PagesAre DEF Uniform
      <3> QED
        BY <2>1, <3>1, <3>2 DEF Wakes
    <2>2. CASE /\ g < inst[s].size /\ p < inst[s].size
               /\ FirstPage(p) = FirstPage(g)
               /\ \A q \in Heap : FirstPage(q) = FirstPage(g) =>
                     (page[s][q] = Missing <=> q >= p)
               /\ \A r,
                  q \in Heap : FirstPage(r) = FirstPage(q) /\ FirstPage(r) # FirstPage(g)
                     => (page[s][r] = Missing <=> page[s][q] = Missing)
      <3>1. AddrLocation(s, p) = "Heap" /\ p \in Heap /\ g \in Heap
        BY <1>5, <2>2, LocationIs, PagesAre DEF Heap, Pages
      <3>2. \A q \in Heap : FirstPage(q) = FirstPage(p) => q <= p
        BY <1>1, <2>2, <3>1, LastPage
      <3>3. g \in Wakes(p)
        BY <2>2, <3>1 DEF Wakes, FirstPage
      <3>4. \A q \in Heap : FirstPage(q) = FirstPage(p) /\ q # p => page[s][q] # Missing
        BY <2>2, <3>1, <3>2 DEF Heap
      <3>5. g \in Present(s) \cup {p}
        BY <2>2, <3>1, <3>4 DEF Present
      <3>6. \A q \in Heap : FirstPage(q) = FirstPage(p) => page'[s][q] # Missing
        BY <1>2, <3>4, PagesAre
      <3>7. \A q \in Heap : FirstPage(q) # FirstPage(p) => page'[s][q] = page[s][q]
        BY <1>2, PagesAre
      <3>8. Uniform(s)'
        BY <1>6, <2>2, <3>6, <3>7 DEF Uniform
      <3> QED
        BY <3>3, <3>5, <3>8
    <2> QED
      BY <1>3, <1>4, <2>1, <2>2 DEF IndInv, MemoryInv, FillInv
  <1>8. /\ thread' \in [Threads -> Thread]
        /\ \A u \in Threads : u # t => thread'[u] = thread[u]
        /\ thread'[t].at = "guest" /\ thread'[t].slot = s /\ thread'[t].page = g
    <2>1. PICK P, F : P = Wakes(p) /\ F = Present(s) \cup {p}
      OBVIOUS
    <2>2. g \in P /\ g \in F /\ thread' = Woken(s, P, F)
      BY <1>7, <2>1
    <2>3. TypeOK /\ WaitsFor(t, s, g)
          /\ \A u \in Threads : u # t /\ thread[u].at # "idle" => thread[u].slot # s
      BY <1>4, <1>5
    <2>4. /\ thread' \in [Threads -> Thread]
          /\ \A u \in Threads : u # t => thread'[u] = thread[u]
          /\ thread'[t].at = (IF g \in F THEN "guest" ELSE "faulted")
          /\ thread'[t].slot = s /\ thread'[t].page = g
      BY <2>2, <2>3, WokenIs, SMTT(30)
    <2> QED
      BY <2>2, <2>4
  <1>9. Answers(t, s, "guest")
    <2>1. thread[t].page = g
      BY <1>4 DEF WaitsFor
    <2> QED
      BY <1>2, <1>4, <1>8, <2>1 DEF Answers
  <1>10. LiveInv("guest", s, g)'
    BY <1>2, <1>7 DEF LiveInv
  <1>11. config.stackInit = "Eager" => page'[s][Stack] # Missing
    BY <1>2, <1>4, PagesAre
  <1> QED
    BY <1>1, <1>4, <1>9, <1>10, <1>11, Answered

\* FillFails after the last page: all of the wasm page is there, and its thread waits on.
LEMMA FillsUnwoken ==
    ASSUME IndInv, worker.at = "fill", NEW s \in Slots, s = worker.slot,
           NEW p \in Pages, p = worker.next,
           Put(s, [q \in {p} |-> IF q = Stack THEN Zero ELSE Contents(inst[s].module, q)]),
           WorkerFails("kernel"),
           UNCHANGED <<config, region, freelist, inst, thread, events, pipe, registered,
                       lost, written>>
    PROVE  IndInv'
  <1>1. Busy
    BY DEF Busy
  <1>2. /\ page' \in [Slots -> [Pages -> Word]]
        /\ \A x \in Slots : x # s => page'[x] = page[x]
        /\ \A q \in Pages : q # p => page'[s][q] = page[s][q]
        /\ page'[s][p] # Missing
        /\ \A q \in Heap : page'[s][q] # Missing =>
              /\ q < inst[s].size
              /\ q \in written[s] \/ page'[s][q] = Contents(inst[s].module, q)
    BY Filled
  <1>3. registered = TRUE /\ region # "creating"
    BY <1>1, Waiting
  <1>4. PICK g \in Pages, t \in Threads :
            /\ g = worker.page /\ WaitsFor(t, s, g)
            /\ LiveInv("blocked", s, g)
            /\ config.stackInit = "Eager" => page[s][Stack] # Missing
            /\ \A u \in Threads : u # t /\ thread[u].at # "idle" => thread[u].slot # s
    BY <1>1, Waiting
  <1> USE DEF IndInv
  <1>5. worker' \in WorkerState /\ worker'.at = "failed" /\ worker'.slot = s /\ worker'.page = g
    BY <1>4 DEF TypeOK, WorkerState, WorkerFails
  <1>6. TypeOK'
    BY <1>2, <1>5 DEF TypeOK
  <1>7. SlotInv' /\ RegionInv' /\ InstInv'
    BY <1>3, WorkerKeeps
  <1>8. WorkerInv'
    BY <1>3, <1>5 DEF WorkerInv
  <1>9. EventInv'
    BY <1>1, <1>3, <1>4, <1>5 DEF EventInv, Busy, WaitsFor
  <1>10. ASSUME NEW u \in Threads PROVE OwnInv(u)'
    <2>1. CASE u = t
      <3>1. Filling(s)'
        BY <1>5 DEF Filling
      <3>2. LiveInv("blocked", s, g)'
        BY <1>2, <3>1 DEF LiveInv
      <3>3. config.stackInit = "Eager" => page'[s][Stack] # Missing
        BY <1>2, <1>4, PagesAre
      <3> QED
        BY <1>4, <2>1, <3>2, <3>3 DEF OwnInv, LiveInv, WaitsFor, Making
    <2>2. CASE thread[u].at = "idle"
      BY <2>2 DEF OwnInv, Making, Living
    <2>3. CASE u # t /\ thread[u].at # "idle"
      <3>1. PICK x \in Slots : x = thread[u].slot
        BY <2>3, UserIs
      <3>2. x # s /\ OwnInv(u) /\ ~Filling(x)
        BY <1>3, <1>4, <2>3, <3>1 DEF MemoryInv, Filling
      <3> QED
        BY <1>2, <3>1, <3>2, OwnKept
    <2> QED
      BY <2>1, <2>2, <2>3
  <1>11. MemoryInv'
    <2>1. s \notin freelist
      BY <1>4, UserIs DEF WaitsFor
    <2>2. FillInv'
      BY <1>5 DEF FillInv
    <2> QED
      BY <1>2, <1>3, <1>10, <2>1, <2>2, ConfigIs DEF MemoryInv, TypeOK
  <1> QED
    BY <1>6, <1>7, <1>8, <1>9, <1>11

\* A worker that fails over a fault that it has, and leaves the pages as they are.
LEMMA FailsOver ==
    ASSUME IndInv, Busy, WorkerFails("ENOENT") \/ WorkerFails("kernel"),
           UNCHANGED <<config, region, freelist, inst, page, thread, events, pipe,
                       registered, lost, written>>
    PROVE  IndInv'
  <1>1. /\ worker' \in WorkerState /\ worker'.at = "failed" /\ worker'.slot = worker.slot
        /\ worker'.page = worker.page
    BY DEF WorkerFails, IndInv, TypeOK, WorkerState
  <1>2. FillInv'
    BY <1>1 DEF FillInv
  <1> QED
    BY <1>1, <1>2, WorkerMoves

\* PollFails: the worker has no fault, and leaves the events where they are.
LEMMA PollFailsStep ==
    ASSUME IndInv, PollFails
    PROVE  IndInv'
  <1> USE DEF IndInv
  <1>1. /\ worker.at = "poll" /\ WorkerFails("kernel")
        /\ UNCHANGED <<config, region, freelist, inst, page, thread, events, pipe,
                       registered, lost, written>>
    BY DEF PollFails
  <1>2. registered = TRUE /\ worker \in WorkerState /\ worker.slot = 0
    BY <1>1 DEF WorkerInv, TypeOK
  <1>3. SlotInv' /\ RegionInv' /\ InstInv'
    BY <1>1, WorkerKeeps
  <1>4. worker' \in WorkerState /\ worker'.at = "failed" /\ worker'.slot = 0
    BY <1>1, <1>2 DEF WorkerState, WorkerFails
  <1>5. TypeOK' /\ WorkerInv'
    BY <1>1, <1>2, <1>4 DEF TypeOK, WorkerInv
  <1>6. EventInv'
    BY <1>1, <1>4 DEF EventInv, Busy, WaitsFor
  <1>7. \A x : ~Filling(x)
    BY <1>1 DEF Filling
  <1>8. MemoryInv'
    BY <1>1, <1>2, <1>4, <1>7, OwnersKept DEF MemoryInv, FillInv
  <1> QED
    BY <1>3, <1>5, <1>6, <1>8

\* HandlerWakeFails and FillFails
LEMMA HandlerFailsStep ==
    ASSUME IndInv, HandlerWakeFails \/ FillFails
    PROVE  IndInv'
  <1>1. Busy
    BY DEF Busy, HandlerWakeFails, FillFails
  <1>2. CASE HandlerWakeFails \/ (FillFails /\ UNCHANGED page)
    BY <1>1, <1>2, FailsOver DEF HandlerWakeFails, FillFails
  <1>3. CASE FillFails /\ PutNext
    <2>1. PICK s \in Slots, p \in Pages : s = worker.slot /\ p = worker.next
      BY <1>1, Waiting DEF IndInv, TypeOK, WorkerState
    <2>2. Put(s, [q \in {p} |-> IF q = Stack THEN Zero ELSE Contents(inst[s].module, q)])
      BY <1>3, <2>1 DEF PutNext
    <2> QED
      BY <1>3, <2>1, <2>2, FillsUnwoken DEF FillFails
  <1> QED
    BY <1>2, <1>3 DEF FillFails

\* WorkerFills: of its errors, only the kernel's ENOENT makes it fail.
LEMMA WorkerFillsStep ==
    ASSUME IndInv, WorkerFills
    PROVE  IndInv'
  <1>1. /\ worker.at = "fill" /\ Busy
        /\ UNCHANGED <<config, region, freelist, inst, events, pipe, registered, lost,
                       written>>
    BY DEF WorkerFills, Busy
  <1>2. PICK s \in Slots, p \in Pages : s = worker.slot /\ p = worker.next
    BY <1>1, Waiting DEF IndInv, TypeOK, WorkerState
  <1>3. FillInv /\ registered = TRUE
    BY <1>1, Waiting DEF IndInv, MemoryInv
  <1>4. Fillable(s, {p})
    <2>1. CASE p = Stack /\ page[s][Stack] = Missing
      BY <1>3, <2>1 DEF Fillable
    <2>2. CASE /\ p < inst[s].size /\ FirstPage(p) = FirstPage(worker.page)
               /\ \A q \in Heap : FirstPage(q) = FirstPage(worker.page) =>
                     (page[s][q] = Missing <=> q >= p)
      <3>1. inst[s].size \in 0 .. HeapPages
        BY DEF IndInv, TypeOK, Instance
      <3>2. p \in Heap /\ p >= p
        BY <2>2, <3>1, PagesAre DEF Heap, Pages
      <3> QED
        BY <1>3, <2>2, <3>2 DEF Fillable
    <2> QED
      BY <1>1, <1>2, <1>3, <2>1, <2>2 DEF FillInv
  <1>5. CASE Put(s, [q \in {p} |-> IF q = Stack THEN Zero ELSE Contents(inst[s].module, q)])
             /\ (IF More(p) THEN /\ worker' = [worker EXCEPT !.next = p + 1, !.tries = 0]
                                 /\ UNCHANGED thread
                            ELSE /\ worker' = Polling
                                 /\ thread' = Woken(s, Wakes(p), Present(s) \cup {p}))
    <2>1. CASE More(p)
      BY <1>1, <1>2, <1>5, <2>1, FillsMore
    <2>2. CASE ~More(p)
      BY <1>1, <1>2, <1>5, <2>2, FillsLast
    <2> QED
      BY <2>1, <2>2
  <1>6. CASE /\ worker' = [worker EXCEPT !.tries = @ + 1] /\ UNCHANGED <<page, thread>>
    <2>1. /\ worker' \in WorkerState /\ worker'.at = "fill" /\ worker'.slot = worker.slot
          /\ worker'.page = worker.page /\ worker'.next = worker.next
      BY <1>1, <1>6, SMTT(30) DEF IndInv, TypeOK, WorkerState
    <2>2. FillInv'
      BY <1>1, <1>3, <1>6, <2>1 DEF FillInv, FirstPage, Uniform
    <2> QED
      BY <1>1, <1>6, <2>1, <2>2, WorkerMoves
  <1>7. CASE WorkerFails("ENOENT") /\ UNCHANGED <<page, thread>>
    BY <1>1, <1>7, FailsOver
  <1> QED
    BY <1>2, <1>4, <1>5, <1>6, <1>7 DEF WorkerFills, PutNext

\* WorkerUnregisters
LEMMA WorkerUnregistersStep ==
    ASSUME IndInv, WorkerUnregisters
    PROVE  IndInv'
  <1> USE DEF IndInv
  <1>1. worker.at = "failed"
        /\ UNCHANGED <<config, freelist, inst, page, thread, events, pipe, lost, written>>
    BY DEF WorkerUnregisters
  <1>2. registered = TRUE
    BY <1>1 DEF WorkerInv, TypeOK
  <1>3. CASE region' = "aborted" /\ UNCHANGED <<registered, worker>>
    <2>1. SlotInv' /\ RegionInv' /\ InstInv'
      BY <1>1, <1>3, WorkerKeeps
    <2>2. TypeOK' /\ WorkerInv'
      BY <1>1, <1>3 DEF TypeOK, WorkerInv, Regions
    <2>3. EventInv'
      BY <1>1, <1>3, EventKept
    <2>4. \A x \in Slots : Filling(x) => Filling(x)'
      BY <1>3 DEF Filling
    <2>5. MemoryInv'
      BY <1>1, <1>2, <1>3, <2>4, OwnersKept DEF MemoryInv, FillInv
    <2> QED
      BY <2>1, <2>2, <2>3, <2>5
  <1>4. CASE /\ registered' = FALSE /\ worker' = [worker EXCEPT !.at = "unregistered"]
             /\ UNCHANGED region
    <2>1. SlotInv' /\ RegionInv' /\ InstInv'
      BY <1>1, <1>4, WorkerKeeps
    <2>2. worker' \in WorkerState /\ worker'.at = "unregistered"
      BY <1>4 DEF TypeOK, WorkerState
    <2>3. TypeOK'
      BY <1>1, <1>4, <2>2 DEF TypeOK
    <2>4. WorkerInv' /\ EventInv' /\ MemoryInv'
      BY <1>4, <2>2 DEF WorkerInv, EventInv, MemoryInv
    <2> QED
      BY <2>1, <2>3, <2>4
  <1> QED
    BY <1>3, <1>4 DEF WorkerUnregisters

\* WorkerWakesAll
LEMMA WorkerWakesAllStep ==
    ASSUME IndInv, WorkerWakesAll
    PROVE  IndInv'
  <1> USE DEF IndInv
  <1>1. /\ worker.at = "unregistered" /\ registered = FALSE
        /\ thread' = WokenAll /\ events' = <<>> /\ worker' = [worker EXCEPT !.at = "ended"]
        /\ UNCHANGED <<config, region, freelist, inst, page, pipe, registered, lost,
                       written>>
    BY DEF WorkerWakesAll, WorkerInv
  <1>2. ASSUME NEW u \in Threads
        PROVE  /\ thread'[u] \in Thread
               /\ \/ thread'[u] = thread[u]
                  \/ /\ thread[u].at = "blocked" /\ thread'[u].at \in {"guest", "faulted"}
                     /\ thread'[u].slot = thread[u].slot
    <2> DEFINE th == [thread[u] EXCEPT !.at = "guest"]
    <2>1. th \in Thread /\ th.at = "guest" /\ th.slot = thread[u].slot /\ thread[u] \in Thread
      BY DEF TypeOK, Thread, Living
    <2>2. thread'[u] = IF thread[u].at = "blocked" THEN th ELSE thread[u]
      BY <1>1 DEF WokenAll
    <2> HIDE DEF th
    <2> QED
      BY <2>1, <2>2
  <1>3. thread' \in [Threads -> Thread]
    <2>1. thread' = [u \in Threads |-> thread'[u]]
      BY <1>1 DEF WokenAll
    <2> QED
      BY <1>2, <2>1
  <1>4. SlotInv' /\ RegionInv' /\ InstInv'
    BY <1>1, <1>2, WorkerKeeps
  <1>5. worker' \in WorkerState /\ worker'.at = "ended"
    BY <1>1 DEF TypeOK, WorkerState
  <1>6. TypeOK'
    BY <1>1, <1>3, <1>5 DEF TypeOK
  <1>7. WorkerInv' /\ EventInv' /\ MemoryInv'
    BY <1>1, <1>5 DEF WorkerInv, EventInv, MemoryInv
  <1> QED
    BY <1>4, <1>6, <1>7

-----------------------------------------------------------------------------
(* The theorems.                                                           *)

\* The invariant holds before the region is made.
LEMMA InvInit == Init => IndInv
  <1> SUFFICES ASSUME Init PROVE IndInv
    OBVIOUS
  <1> USE DEF Init
  <1>1. /\ NoInst \in Instance /\ Blank \in [Pages -> Word] /\ Idle \in Thread
        /\ Idle.at = "idle" /\ Polling \in WorkerState /\ Polling.at = "poll"
        /\ Polling.slot = 0
    BY PagesAre, IdleIs, PollingIs DEF NoInst, Instance, Blank, Word
  <1>2. <<>> \in Seq(Event) /\ DOMAIN events = {}
    OBVIOUS
  <1>3. TypeOK
    <2>1. /\ inst \in [Slots -> Instance] /\ page \in [Slots -> [Pages -> Word]]
          /\ thread \in [Threads -> Thread] /\ written \in [Slots -> SUBSET Heap]
      BY <1>1
    <2> QED
      BY <1>1, <1>2, <2>1 DEF TypeOK, Regions
  <1>4. \A t \in Threads : thread[t].at = "idle"
    BY <1>1
  <1>5. SlotInv /\ RegionInv /\ InstInv
    BY <1>4 DEF SlotInv, RegionInv, InstInv, Making, Living
  <1>6. WorkerInv /\ EventInv
    BY <1>1, <1>2 DEF WorkerInv, EventInv, Busy
  <1>7. MemoryInv
    BY <1>1, <1>4 DEF MemoryInv, OwnInv, FillInv, Making, Living
  <1> QED
    BY <1>3, <1>5, <1>6, <1>7 DEF IndInv

\* A step that changes nothing keeps the invariant.
LEMMA InvUnchanged ==
    ASSUME IndInv, UNCHANGED vars
    PROVE  IndInv'
  <1> USE DEF IndInv, vars
  <1>1. TypeOK' /\ WorkerInv'
    BY DEF TypeOK, WorkerInv
  <1>2. SlotInv' /\ RegionInv' /\ InstInv'
    BY WorkerKeeps
  <1>3. EventInv'
    BY EventKept
  <1>4. \A x \in Slots : Filling(x) => Filling(x)'
    BY DEF Filling
  <1>5. FillInv => FillInv'
    BY FillKept
  <1>6. MemoryInv'
    BY <1>4, <1>5, OwnersKept DEF MemoryInv
  <1> QED
    BY <1>1, <1>2, <1>3, <1>6

\* Every step keeps the invariant.
LEMMA InvStep == IndInv /\ [Next]_vars => IndInv'
  <1> SUFFICES ASSUME IndInv, [Next]_vars PROVE IndInv'
    OBVIOUS
  <1>1. CASE Create \/ DropRegion \/ Unmap
    BY <1>1, RegionStep
  <1>2. CASE \E t \in Threads, s \in Slots, m \in Modules : TakeSlot(t, s, m)
    BY <1>2, TakeSlotStep
  <1>3. CASE \E t \in Threads : ZeroSide(t) \/ FillHeap(t) \/ Build(t)
    BY <1>3, ZeroSideStep, FillHeapStep, BuildStep
  <1>4. CASE \E t \in Threads, p \in Pages : Access(t, p)
    BY <1>4, WriteStep, FaultStep
  <1>5. CASE \E t \in Threads : Grow(t) \/ Reset(t) \/ DropInstance(t)
    BY <1>5, GrowStep, ResetStep, DropInstanceStep
  <1>6. CASE Worker
    BY <1>6, WorkerPollsStep, WorkerHandlesStep, WorkerFillsStep, WorkerUnregistersStep,
       WorkerWakesAllStep DEF Worker
  <1>7. CASE Refused
    BY <1>7, PollFailsStep, HandlerFailsStep DEF Refused
  <1>8. CASE UNCHANGED vars
    BY <1>8, InvUnchanged
  <1> QED
    BY <1>1, <1>2, <1>3, <1>4, <1>5, <1>6, <1>7, <1>8 DEF Next

\* The invariant holds of every state of a region that is filled on demand.
THEOREM InvAlways == Spec => []IndInv
  <1>1. Init => IndInv
    BY InvInit
  <1>2. IndInv /\ [Next]_vars => IndInv'
    BY InvStep
  <1> QED
    BY <1>1, <1>2, PTL DEF Spec

\* For any threads, slots, modules and page sizes: while the worker does its job, the heap
\* pages that are there are within the accessible heap and hold the module's data unless
\* they were written since, and no slot on the freelist has a page of its last instance.
THEOREM HeapsAreInitialised == Spec => []HeapAsInitialised
  <1>1. IndInv => HeapAsInitialised
    <2>1. SUFFICES ASSUME IndInv, registered = TRUE
                   PROVE  /\ \A s \in Slots : inst[s] # NoInst =>
                                \A p \in Heap : page[s][p] # Missing =>
                                    /\ p < inst[s].size
                                    /\ \/ p \in written[s]
                                       \/ page[s][p] = Contents(inst[s].module, p)
                          /\ \A s \in freelist : page[s] = Blank
      BY DEF HeapAsInitialised, IndInv, TypeOK
    <2>2. ASSUME NEW s \in Slots, inst[s] # NoInst
          PROVE  \A p \in Heap : page[s][p] # Missing =>
                     /\ p < inst[s].size
                     /\ p \in written[s] \/ page[s][p] = Contents(inst[s].module, p)
      <3>1. PICK t \in Threads : thread[t].at \in Living /\ thread[t].slot = s
        BY <2>1, <2>2 DEF IndInv, InstInv, At
      <3> QED
        BY <2>1, <3>1 DEF IndInv, MemoryInv, OwnInv, LiveInv
    <2> QED
      BY <2>1, <2>2 DEF IndInv, MemoryInv
  <1> QED
    BY <1>1, InvAlways, PTL

\* For any threads, slots, modules and page sizes: a thread that the worker woke without a
\* page had left its instance's memory, and whatever the kernel answers, the worker fails
\* for its errors only: no event is for a slot outside the region, one without an instance
\* or an eager stack, and no page is filled twice.
THEOREM FaultsAreOutside == Spec => []FaultsOutside
  <1>1. IndInv => FaultsOutside
    <2>1. SUFFICES ASSUME IndInv PROVE FaultsOutside
      OBVIOUS
    <2>2. worker.error \in {None, "ENOENT", "kernel"}
      BY <2>1 DEF IndInv, TypeOK, WorkerState
    <2>3. ASSUME NEW t \in Threads, thread[t].at = "faulted", registered = TRUE
          PROVE  AddrLocation(thread[t].slot, thread[t].page) \notin {"Heap", "Stack"}
      <3>1. PICK s \in Slots, p \in Pages : s = thread[t].slot /\ p = thread[t].page
        BY <2>1, <2>3, UserIs DEF IndInv, TypeOK, Thread
      <3>2. ~(p < inst[s].size) /\ p # Stack
        BY <2>1, <2>3, <3>1 DEF IndInv, MemoryInv, OwnInv, LiveInv, Living
      <3> QED
        BY <2>1, <3>1, <3>2, LocationIs DEF IndInv, TypeOK
    <2> QED
      BY <2>1, <2>2, <2>3 DEF FaultsOutside, IndInv, TypeOK, None
  <1> QED
    BY <1>1, InvAlways, PTL

\* For any threads, slots and modules: each slot of a region that is up is free, lost by a
\* creation that failed, or one thread's, and never two of them; and a creation never meets
\* a page where it is about to fill one.
THEOREM SlotsAreAccounted == Spec => []SlotsAccounted
  <1>1. ASSUME IndInv, region = "up", NEW s \in 1 .. config.capacity
        PROVE  /\ \A t, u \in Users(s) : t = u
               /\ s \in freelist => Users(s) = {} /\ s \notin lost
               /\ s \in lost => Users(s) = {}
               /\ s \in freelist \cup lost \/ Users(s) # {}
    <2>1. \A t \in Threads : At(t, s, Making \cup Living) => t \in Users(s)
      BY DEF At, Users, Making, Living
    <2>2. s \in freelist \cup lost \/ Users(s) # {}
      BY <1>1, <2>1 DEF IndInv, SlotInv
    <2>3. \A t, u \in Users(s) : t = u
      BY <1>1 DEF IndInv, SlotInv, Users
    <2>4. s \in freelist \cup lost => Users(s) = {}
      BY <1>1 DEF IndInv, SlotInv, Users
    <2>5. s \in freelist => s \notin lost
      BY <1>1 DEF IndInv, SlotInv
    <2> QED
      BY <2>2, <2>3, <2>4, <2>5
  <1>2. ASSUME IndInv, registered, NEW t \in Threads
        PROVE  /\ thread[t].at = "side" => \A p \in InitList : page[thread[t].slot][p] = Missing
               /\ thread[t].at = "heap" =>
                     \A p \in HeapOf(thread[t].module) : page[thread[t].slot][p] = Missing
    <2>1. OwnInv(t) /\ (thread[t].at \in Making => thread[t].module \in Modules)
      BY <1>2 DEF IndInv, MemoryInv, InstInv, TypeOK
    <2>2. CASE thread[t].at = "side"
      <3>1. page[thread[t].slot] = Blank /\ InitList \subseteq Pages
        BY <2>1, <2>2, PagesAre DEF OwnInv, MadeInv, Making, InitList
      <3> QED
        BY <2>2, <3>1 DEF Blank
    <2>3. CASE thread[t].at = "heap"
      <3>1. HeapOf(thread[t].module) \subseteq Heap
        BY <2>1, <2>3, InitialPagesAre DEF Making
      <3> QED
        BY <2>1, <2>3, <3>1 DEF OwnInv, MadeInv, Making
    <2> QED
      BY <2>2, <2>3
  <1>3. IndInv => SlotsAccounted
    BY <1>1, <1>2 DEF SlotsAccounted
  <1> QED
    BY <1>3, InvAlways, PTL
=============================================================================
