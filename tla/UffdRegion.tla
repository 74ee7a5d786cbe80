----------------------------- MODULE UffdRegion -----------------------------
(***************************************************************************)
(* A region whose pages are filled on demand: threads that create, use,    *)
(* grow, reset and drop instances fault on missing pages, and the region's *)
(* worker thread reads those faults from userfaultfd and fills the pages.  *)
(*                                                                         *)
(* Modelled: the worker's loop and its error exits, page_fault_handler     *)
(* with both page-size strategies, the bounded ENOENT retries, the eager   *)
(* and the lazy dispositions, creation and drop of instances and of the    *)
(* region.  The kernel is external: a missing page of a registered range   *)
(* blocks its thread and posts an event, one of an unregistered range is   *)
(* ordinary anonymous memory, a thread that was woken without its page     *)
(* gets a SIGBUS, as the comment on UffdRegion says, and every call of the *)
(* worker's may be answered with an error.  Page contents are kept up to   *)
(* who put them there.                                                     *)
(*                                                                         *)
(* A definition that directly precedes one of nearly the same name and is  *)
(* used nowhere is that definition with a slip in it.                      *)
(*                                                                         *)
(* Source: lucet-runtime-internals/src/region/uffd.rs                      *)
(***************************************************************************)
EXTENDS Naturals, Sequences

CONSTANTS
    Threads,     \* the embedder's threads
    Capacity,    \* the largest instance_capacity
    Modules,     \* the modules instances are created from
    InitialSize, \* [Modules -> wasm pages]: the initial heap size of each
    DataPages,   \* [Modules -> set of host pages]: those with sparse page data
    MaxWasm,     \* heap_address_space_size, in wasm pages
    PerWasm,     \* host pages in a wasm page
    RetryLimit,  \* enoent_retry_limit
    OrphanPages, \* bound: the pages that are accessed after the worker has failed
    Configs      \* the configurations: those of UffdConfig, with the region's
                 \* capacity, the modules that its embedder instantiates and the
                 \* heap_memory_size_limit of their instances, in wasm pages

Slots == 1 .. Capacity
Dispositions == {"Eager", "Lazy"}
HeapPages == MaxWasm * PerWasm
Heap == 0 .. HeapPages - 1

\* create_slot's layout behind the Instance page, in pages, with every area but the
\* heap cut to one page.
StackGuard == HeapPages
Stack == HeapPages + 1
Globals == HeapPages + 2
SigStack == HeapPages + 3
Pages == 0 .. SigStack

ASSUME UffdAssumption ==
    /\ Capacity \in Nat \ {0} /\ MaxWasm \in Nat /\ PerWasm \in Nat \ {0, 1}
    /\ RetryLimit \in Nat
    /\ Configs \subseteq [heapPage : {"Host", "Wasm"}, heapInit : Dispositions,
                          stackInit : Dispositions, abort : BOOLEAN,
                          capacity : Slots, modules : SUBSET Modules, limit : 0 .. MaxWasm]
    /\ InitialSize \in [Modules -> 0 .. MaxWasm]
    /\ DataPages \in [Modules -> SUBSET Heap]

VARIABLES
    config,      \* UffdConfig
    region,      \* how far the region's creation or drop is
    freelist,    \* UffdRegion::freelist, as the set of its slots
    inst,        \* the Instance in each slot: its module and accessible heap
    page,        \* what each page of each slot holds
    thread,      \* what each thread is doing
    events,      \* the page faults that are to be read from the userfaultfd
    worker,      \* uffd_worker_thread
    pipe,        \* has the shutdown pipe been written to?
    registered,  \* is the region registered with the userfaultfd?
    lost,        \* history: slots that creations that failed did not give back
    written      \* history: heap pages written since the last creation or reset

vars == <<config, region, freelist, inst, page, thread, events, worker, pipe, registered,
          lost, written>>

None == "none"
Missing == "missing"
Zero == "zero"
Dirty == "dirty"

\* A module is none of these: a page with its data is not missing.
ASSUME ModulesAssumption == {None, Missing, Zero, Dirty} \cap Modules = {}

NoInst == [module |-> None, size |-> 0]
Idle == [at |-> "idle", slot |-> 0, module |-> None, page |-> 0, tries |-> 0]
Polling == [at |-> "poll", slot |-> 0, page |-> 0, next |-> 0, tries |-> 0, error |-> None]
Blank == [p \in Pages |-> Missing]

Init ==
    /\ config \in Configs
    /\ region = "creating"
    /\ freelist = {}
    /\ inst = [s \in Slots |-> NoInst]
    /\ page = [s \in Slots |-> Blank]
    /\ thread = [t \in Threads |-> Idle]
    /\ events = <<>>
    /\ worker = Polling
    /\ pipe = FALSE
    /\ registered = TRUE
    /\ lost = {}
    /\ written = [s \in Slots |-> {}]

-----------------------------------------------------------------------------

\* uffd::zeropage and uffd::copy: an attempt of the ioctl that gets ENOENT is repeated
\* until there have been `retry_limit` of them; whether this one was the last.
GivesUp(tries) == tries + 1 >= RetryLimit

\* module.get_sparse_page_data: what a heap page holds initially.
Contents(m, p) == IF p \in DataPages[m] THEN m ELSE Zero

\* Alloc::addr_location
AddrLocation(s, p) ==
    CASE p < inst[s].size -> "Heap"
      [] p >= inst[s].size /\ p < HeapPages -> "InaccessibleHeap"
      [] p = StackGuard -> "StackGuard"
      [] p = Stack -> "Stack"
      [] p \in {Globals, SigStack} -> "Side"

InitialPages(m) == InitialSize[m] * PerWasm
HeapOf(m) == 0 .. InitialPages(m) - 1

\* The pages of slot s that `new` names get what it says, as the ioctls and madvise do it.
Put(s, new) ==
    page' = [page EXCEPT ![s] = [p \in Pages |-> IF p \in DOMAIN new THEN new[p] ELSE @[p]]]

\* madvise(MADV_DONTNEED)
Gone(P) == [p \in P |-> Missing]

\* zeropage and copy fail with EEXIST on a page that is there, and on a range that is
\* empty or not registered.
Fillable(s, P) == registered /\ P # {} /\ \A p \in P : page[s][p] = Missing

-----------------------------------------------------------------------------
(* The region.                                                             *)

\* UffdRegion::create: the worker runs already when the slots are made, and a failing
\* create_slot drops the region.
Create ==
    /\ region = "creating"
    /\ \/ region' = "up" /\ freelist' = 1 .. config.capacity /\ pipe' = pipe
       \/ region' = "joining" /\ UNCHANGED freelist /\ pipe' = TRUE
    /\ UNCHANGED <<config, inst, page, thread, events, worker, registered, lost, written>>

\* Drop for UffdRegion, once neither the embedder nor an Alloc holds it.
DropRegion ==
    /\ region = "up"
    /\ \A t \in Threads : thread[t].at = "idle"
    /\ region' = "joining"
    /\ pipe' = TRUE
    /\ UNCHANGED <<config, freelist, inst, page, thread, events, worker, registered, lost, written>>

\* The join and the munmap of Drop for UffdRegion.  It panics last with the error of a
\* worker that failed.
Unmap ==
    /\ region = "joining"
    /\ worker.at = "ended"
    /\ region' = IF worker.error = None THEN "unmapped" ELSE "panicked"
    /\ UNCHANGED <<config, freelist, inst, page, thread, events, worker, pipe, registered,
                   lost, written>>

-----------------------------------------------------------------------------
(* The embedder's threads.                                                 *)

Up == region = "up"
Become(t, th) == thread' = [thread EXCEPT ![t] = th]
Step(t, at) == Become(t, [thread[t] EXCEPT !.at = at, !.tries = 0])

\* new_instance_with, up to the lock's release.
TakeSlot(t, s, m) ==
    /\ Up
    /\ thread[t].at = "idle"
    /\ s \in freelist
    /\ m \in config.modules
    /\ freelist' = freelist \ {s}
    /\ Become(t, [Idle EXCEPT !.at = "side", !.slot = s, !.module = m])
    /\ UNCHANGED <<config, region, inst, page, events, worker, pipe, registered, lost, written>>

\* A creation that fails before there is an Alloc: the panic of zeropage's expect, or
\* the error of an eager heap, of an empty one always.  Nothing gives the slot back.
LoseSlot(t) ==
    /\ lost' = lost \cup {thread[t].slot}
    /\ Become(t, Idle)

\* An attempt of an ioctl that, when it succeeds, puts the pages `new` there and takes
\* the thread to `at`.  It may get ENOENT or, at once, another error.
Attempt(t, new, at) ==
    LET s == thread[t].slot IN
    \/ /\ Fillable(s, DOMAIN new)
       /\ Put(s, new)
       /\ Step(t, at)
       /\ UNCHANGED lost
    \/ /\ registered
       /\ ~GivesUp(thread[t].tries)
       /\ Become(t, [thread[t] EXCEPT !.tries = @ + 1])
       /\ UNCHANGED <<page, lost>>
    \/ LoseSlot(t) /\ UNCHANGED page

\* init_list: the globals, the signal stack, and the stack if it is eager.
InitList == {Globals, SigStack} \cup (IF config.stackInit = "Eager" THEN {Stack} ELSE {})

ZeroSide(t) ==
    /\ Up
    /\ thread[t].at = "side"
    /\ Attempt(t, [p \in InitList |-> Zero],
               IF config.heapInit = "Eager" THEN "heap" ELSE "build")
    /\ UNCHANGED <<config, region, freelist, inst, events, worker, pipe, registered, written>>

\* The eager heap: zeroed, and then overwritten with the module's data.
FillHeap(t) ==
    LET m == thread[t].module IN
    /\ Up
    /\ thread[t].at = "heap"
    /\ Attempt(t, [p \in HeapOf(m) |-> Contents(m, p)], "build")
    /\ UNCHANGED <<config, region, freelist, inst, events, worker, pipe, registered, written>>

\* UffdRegion::reset_heap: what madvise takes away.
ResetPagesInitial(s) == HeapOf(inst[s].module)
ResetPages(s) == 0 .. inst[s].size - 1

\* The Instance is written, and new_instance_handle's reset takes the initial heap
\* away again, the eager one too.
Build(t) ==
    LET s == thread[t].slot
        m == thread[t].module
    IN
    /\ Up
    /\ thread[t].at = "build"
    /\ inst' = [inst EXCEPT ![s] = [module |-> m, size |-> InitialPages(m)]]
    /\ Put(s, Gone(HeapOf(m)))
    /\ written' = [written EXCEPT ![s] = {}]
    /\ Step(t, "guest")
    /\ UNCHANGED <<config, region, freelist, events, worker, pipe, registered, lost>>

\* The guest, or the host on its behalf, writes to a page.  What the stack and the
\* globals hold is of no interest.
Access(t, p) ==
    LET s == thread[t].slot
        Wrote == /\ Put(s, [q \in {p} |-> IF q \in Heap THEN Dirty ELSE Zero])
                 /\ written' = [written EXCEPT ![s] = @ \cup ({p} \cap Heap)]
    IN
    /\ Up
    /\ thread[t].at = "guest"
    /\ registered \/ p \in OrphanPages
    /\ \/ /\ page[s][p] # Missing \/ ~registered
          /\ Wrote
          /\ UNCHANGED <<thread, events>>
       \/ /\ page[s][p] = Missing /\ registered
          /\ Become(t, [thread[t] EXCEPT !.at = "blocked", !.page = p])
          /\ events' = Append(events, [slot |-> s, page |-> p])
          /\ UNCHANGED <<page, written>>
    /\ UNCHANGED <<config, region, freelist, inst, worker, pipe, registered, lost>>

\* Alloc::expand_heap by a wasm page: expand_heap of the region has nothing to do.
Grow(t) ==
    LET s == thread[t].slot IN
    /\ Up
    /\ thread[t].at = "guest"
    /\ inst[s].size + PerWasm <= config.limit * PerWasm
    /\ inst' = [inst EXCEPT ![s].size = @ + PerWasm]
    /\ UNCHANGED <<config, region, freelist, page, thread, events, worker, pipe, registered,
                   lost, written>>

\* Instance::reset
Reset(t) ==
    LET s == thread[t].slot IN
    /\ Up
    /\ thread[t].at \in {"guest", "faulted"}
    /\ Put(s, Gone(ResetPages(s)))
    /\ inst' = [inst EXCEPT ![s].size = InitialPages(inst[s].module)]
    /\ written' = [written EXCEPT ![s] = {}]
    /\ Step(t, "guest")
    /\ UNCHANGED <<config, region, freelist, events, worker, pipe, registered, lost>>

\* UffdRegion::drop_alloc: what madvise takes away.
DropPages(s) == Pages

ReturnedNot(s) == freelist
Returned(s) == freelist \cup {s}

DropInstance(t) ==
    LET s == thread[t].slot IN
    /\ Up
    /\ thread[t].at \in {"guest", "faulted"}
    /\ inst' = [inst EXCEPT ![s] = NoInst]
    /\ Put(s, Gone(DropPages(s)))
    /\ freelist' = Returned(s)
    /\ written' = [written EXCEPT ![s] = {}]
    /\ Become(t, Idle)
    /\ UNCHANGED <<config, region, events, worker, pipe, registered, lost>>

-----------------------------------------------------------------------------
(* The worker.                                                             *)

Alive == region # "aborted"

\* Threads that wait for a page in P go on, or get a SIGBUS if it is not there.
Woken(s, P, filled) ==
    [t \in Threads |->
        IF thread[t].at = "blocked" /\ thread[t].slot = s /\ thread[t].page \in P
        THEN [thread[t] EXCEPT !.at = IF thread[t].page \in filled THEN "guest" ELSE "faulted"]
        ELSE thread[t]]

Present(s) == {p \in Pages : page[s][p] # Missing}
WorkerFails(error) == worker' = [worker EXCEPT !.at = "failed", !.error = error]

\* uffd_worker_thread: the pipe ends the thread, an event is read otherwise.  A poll
\* that times out is tried again.  PollFails has the error exits.
PipeReadyAfterFault == pipe /\ events # <<>>
PipeReady == pipe

WorkerPolls ==
    /\ Alive
    /\ worker.at = "poll"
    /\ \/ PipeReady /\ worker' = [worker EXCEPT !.at = "ended"] /\ UNCHANGED events
       \/ /\ ~PipeReady /\ events # <<>>
          /\ worker' = [worker EXCEPT !.at = "handle", !.slot = Head(events).slot,
                                      !.page = Head(events).page]
          /\ events' = Tail(events)
    /\ UNCHANGED <<config, region, freelist, inst, page, thread, pipe, registered, lost, written>>

\* poll fails or is interrupted, the pipe or the userfaultfd has an error or other flags,
\* or what is read is an error, nothing, or an event that is no page fault.
PollFails ==
    /\ Alive
    /\ worker.at = "poll"
    /\ WorkerFails("kernel")
    /\ UNCHANGED <<config, region, freelist, inst, page, thread, events, pipe, registered, lost,
                   written>>

\* The first page that heap_fault fills: the host page, or its wasm page's first.
FirstPage(p) == IF config.heapPage = "Wasm" THEN p - (p % PerWasm) ELSE p

\* Where a fault is answered by waking its thread and nothing else.
Fatal == {"InaccessibleHeap", "StackGuard", "Side"}

\* page_fault_handler, up to the first ioctl that fills a page.
WorkerHandles ==
    LET s == worker.slot
        loc == AddrLocation(s, worker.page)
        FillFrom(p) == worker' = [worker EXCEPT !.at = "fill", !.next = p, !.tries = 0]
    IN
    /\ Alive
    /\ worker.at = "handle"
    /\ \/ /\ s > config.capacity
          /\ WorkerFails("outside region")
          /\ UNCHANGED thread
       \/ /\ s <= config.capacity /\ inst[s] = NoInst
          /\ WorkerFails("magic incorrect")
          /\ UNCHANGED thread
       \/ /\ inst[s] # NoInst /\ loc \in Fatal
          /\ worker' = Polling
          /\ thread' = Woken(s, {worker.page}, {})
       \/ /\ inst[s] # NoInst /\ loc = "Stack"
          /\ IF config.stackInit = "Lazy" THEN FillFrom(Stack) ELSE WorkerFails("eager stack")
          /\ UNCHANGED thread
       \/ /\ inst[s] # NoInst /\ loc = "Heap"
          /\ FillFrom(FirstPage(worker.page))
          /\ UNCHANGED thread
    /\ UNCHANGED <<config, region, freelist, inst, page, events, pipe, registered, lost, written>>

\* Its uffd.wake fails, and nobody is woken.
HandlerWakeFails ==
    /\ Alive
    /\ worker.at = "handle"
    /\ inst[worker.slot] # NoInst /\ AddrLocation(worker.slot, worker.page) \in Fatal
    /\ WorkerFails("kernel")
    /\ UNCHANGED <<config, region, freelist, inst, page, thread, events, pipe, registered, lost,
                   written>>

\* Has heap_fault more pages to fill after p?  A wasm page may end outside the heap.
MoreNever(p) == FALSE
More(p) ==
    /\ AddrLocation(worker.slot, p) = "Heap" /\ config.heapPage = "Wasm"
    /\ (p + 1) % PerWasm # 0
    /\ AddrLocation(worker.slot, p + 1) = "Heap"

\* The pages that are woken at the end of a fault.
Wakes(p) ==
    IF AddrLocation(worker.slot, p) = "Heap" /\ config.heapPage = "Wasm"
    THEN {q \in Pages : FirstPage(q) = FirstPage(p)} ELSE {p}

\* The page that is to be filled next gets its data, or zeroes.
PutNext ==
    LET s == worker.slot IN
    Put(s, [q \in {worker.next} |-> IF q = Stack THEN Zero ELSE Contents(inst[s].module, q)])

\* An attempt of zeropage or copy, and after the last page the wake.
WorkerFills ==
    LET s == worker.slot
        p == worker.next
    IN
    /\ Alive
    /\ worker.at = "fill"
    /\ \/ /\ Fillable(s, {p})
          /\ PutNext
          /\ IF More(p) THEN /\ worker' = [worker EXCEPT !.next = p + 1, !.tries = 0]
                             /\ UNCHANGED thread
                        ELSE /\ worker' = Polling
                             /\ thread' = Woken(s, Wakes(p), Present(s) \cup {p})
       \/ /\ ~GivesUp(worker.tries)
          /\ worker' = [worker EXCEPT !.tries = @ + 1]
          /\ UNCHANGED <<page, thread>>
       \/ /\ GivesUp(worker.tries)
          /\ WorkerFails("ENOENT")
          /\ UNCHANGED <<page, thread>>
       \/ /\ ~Fillable(s, {p})
          /\ WorkerFails("EEXIST")
          /\ UNCHANGED <<page, thread>>
    /\ UNCHANGED <<config, region, freelist, inst, events, pipe, registered, lost, written>>

\* zeropage or copy gets an error other than ENOENT; or the wasm page is there, and the
\* wake of its own fails.
FillFails ==
    LET s == worker.slot
        p == worker.next
    IN
    /\ Alive
    /\ worker.at = "fill"
    /\ \/ UNCHANGED page
       \/ /\ Fillable(s, {p}) /\ ~More(p) /\ p # Stack /\ config.heapPage = "Wasm"
          /\ PutNext
    /\ WorkerFails("kernel")
    /\ UNCHANGED <<config, region, freelist, inst, thread, events, pipe, registered, lost, written>>

\* The end of a worker that failed: abort, or unregister the region, ...
WorkerUnregisters ==
    /\ Alive
    /\ worker.at = "failed"
    /\ \/ config.abort /\ region' = "aborted" /\ UNCHANGED <<registered, worker>>
       \/ /\ ~config.abort
          /\ registered' = FALSE
          /\ worker' = [worker EXCEPT !.at = "unregistered"]
          /\ UNCHANGED region
    /\ UNCHANGED <<config, freelist, inst, page, thread, events, pipe, lost, written>>

\* ... and wake everybody.  Their pages are ordinary memory from then on.
WokenOne == Woken(worker.slot, {worker.page}, Pages)
WokenAll == [t \in Threads |-> IF thread[t].at = "blocked" THEN [thread[t] EXCEPT !.at = "guest"]
                               ELSE thread[t]]

WorkerWakesAll ==
    /\ Alive
    /\ worker.at = "unregistered"
    /\ thread' = WokenAll
    /\ events' = <<>>
    /\ worker' = [worker EXCEPT !.at = "ended"]
    /\ UNCHANGED <<config, region, freelist, inst, page, pipe, registered, lost, written>>

-----------------------------------------------------------------------------

Worker == WorkerPolls \/ WorkerHandles \/ WorkerFills \/ WorkerUnregisters \/ WorkerWakesAll
Refused == PollFails \/ HandlerWakeFails \/ FillFails

Next ==
    \/ Create \/ DropRegion \/ Unmap
    \/ \E t \in Threads :
        \/ \E s \in Slots, m \in Modules : TakeSlot(t, s, m)
        \/ ZeroSide(t) \/ FillHeap(t) \/ Build(t)
        \/ \E p \in Pages : Access(t, p)
        \/ Grow(t) \/ Reset(t) \/ DropInstance(t)
    \/ Worker \/ Refused

Spec == Init /\ [][Next]_vars

\* The kernel runs the worker, and the thread that drops the region.  It need never answer
\* with an error.
FairSpec == Spec /\ WF_vars(Worker) /\ WF_vars(Unmap)

-----------------------------------------------------------------------------

\* While the worker does its job, every heap page that is there and was not written
\* since the instance's creation or last reset holds the module's data for it, and
\* lies in the accessible heap: whatever was created, grown, reset and dropped before.
\* A slot on the freelist has none of its pages, so that the next instance faults them
\* in, and its creation's zeropage does not meet one.
HeapAsInitialised ==
    registered =>
        /\ \A s \in Slots : inst[s] # NoInst =>
              \A p \in Heap : page[s][p] # Missing =>
                  /\ p < inst[s].size
                  /\ p \in written[s] \/ page[s][p] = Contents(inst[s].module, p)
        /\ \A s \in freelist : page[s] = Blank

\* A thread that the worker woke without a page did leave the memory of its instance:
\* its fault is neither in the stack nor in the accessible heap.  And when the worker
\* fails, it is for an error of the kernel's, ENOENT too often or another one, and never
\* for what the region itself did: an event is always for a page of a live instance of the
\* region, a fault in an eager stack is unreachable as its message says, and no page is
\* filled twice.
FaultsOutside ==
    /\ \A t \in Threads : thread[t].at = "faulted" /\ registered =>
          AddrLocation(thread[t].slot, thread[t].page) \notin {"Heap", "Stack"}
    /\ worker.error \notin {"outside region", "magic incorrect", "eager stack", "EEXIST"}

\* Each slot is free, one thread's, or was lost when its creation failed, and never two of
\* these; and a creation fails for no page that an earlier user or the worker left in its
\* slot: what it is about to fill is missing.
Users(s) == {t \in Threads : thread[t].at # "idle" /\ thread[t].slot = s}
SlotsAccounted ==
    /\ region = "up" =>
        \A s \in 1 .. config.capacity :
            /\ \A t, u \in Users(s) : t = u
            /\ s \in freelist => Users(s) = {} /\ s \notin lost
            /\ s \in lost => Users(s) = {}
            /\ s \in freelist \cup lost \/ Users(s) # {}
    /\ registered => \A t \in Threads :
        /\ thread[t].at = "side" => \A p \in InitList : page[thread[t].slot][p] = Missing
        /\ thread[t].at = "heap" =>
              \A p \in HeapOf(thread[t].module) : page[thread[t].slot][p] = Missing

\* Every fault is answered: the thread goes on, gets its SIGBUS, is woken by the end of
\* a worker that failed, or the process aborts.
FaultsAnswered ==
    \A t \in Threads : thread[t].at = "blocked" ~> thread[t].at # "blocked" \/ region = "aborted"

\* The drop of a region ends: its join never waits for a worker that does not look at
\* the pipe.
DropEnds == region = "joining" ~> region \in {"unmapped", "panicked", "aborted"}
=============================================================================
