# A TLA+ development of the Lucet runtime

Lucet compiles WebAssembly modules to native shared objects (`lucetc`) and runs
them in lightweight sandboxes inside a host process (`lucet-runtime`).  Most of
what is hard to get right is in the runtime: a guest runs on its own stack on the
host's thread, can be killed from any other thread, is interrupted by signals,
suspends itself in the middle of a hostcall, and lives in memory that is taken
from and given back to a shared pool.  This directory models those parts in
TLA+, checks them with TLC and proves theorems about them with TLAPS.

Source paths below are relative to `lucet-runtime/lucet-runtime-internals/src/`
unless they name another crate.

- [Inventory](#inventory): the parts of Lucet and what makes each correct
- [Modules](#modules): how the models correspond to the code
- [Runs](#runs): what TLC checks, with which bounds
- [Proofs](#proofs): what TLAPS proves, and along which argument
- [Disagreements](#disagreements-between-code-and-comments)
- [What is not modelled](#what-is-not-modelled)
- [Plan](#plan)

## Inventory

### KillState, KillSwitch and execution domains (`instance/execution.rs`)

State: per call into an instance a `KillState` with the atomic flag `terminable`,
the mutex-guarded `execution_domain` (`Pending`, `Guest`, `Hostcall`,
`Terminated`, `Cancelled`), the mutex-guarded `thread_id` with its condition
variable `tid_change_notifier`, and the atomic flag `ignore_alarm`.  The instance
holds an `Arc` of it, a `KillSwitch` a `Weak`.

Operations: `schedule` and `deschedule` around a run, `enter_guest_region` and
`exit_guest_region` around guest code, `begin_hostcall` and `end_hostcall` around
hostcalls, `disable_termination` and `silence_alarm` in the signal handler, and
`KillSwitch::terminate` on any other thread.

Interactions: `terminate` either cancels a call that has not begun, marks one that
is inside a hostcall, or sends SIGALRM to the thread that runs guest code and
waits until it has left it.  The signal handler, the hostcall wrapper and
`swap_and_return` all look at the same KillState.

Correct when: a SIGALRM interrupts guest code of the call it was meant for and
nothing else; a terminate that reported success is final, and only one does;
terminate returns; none of the "Invalid state" panics can be reached.

### Signal handling (`instance/signals.rs`)

State: the process-wide `LUCET_SIGNAL_STATE` (a count of running instances and the
host's saved handlers), the thread's alternate signal stack, the thread-local
`CURRENT_INSTANCE`.  Operations: `with_signals_on`, `handle_signal`,
`install_lucet_signal_handler`, `remove_lucet_signal_handler`,
`reraise_host_signal_in_handler`, the panic hook.  Correct when: Lucet's handlers
are installed exactly while they are needed, the host's are put back once, and a
fault that is not the guest's reaches the host.

### Instance life cycle and asynchronous runs (`instance.rs`, `instance/state.rs`, `future.rs`, `vmctx.rs`)

State: `State` (`NotStarted`, `Ready`, `Running`, `Faulted`, `Terminating`,
`Terminated`, `Yielding`, `Yielded`, `BoundExpired`, `Transitioning`), `entrypoint`,
`resumed_val`, the guest's stack, the future that `block_on` hands to the host.
Operations: `run`, `run_start`, `resume`, `resume_with_val`, `reset`, `run_async`,
`run_async_start`, `Vmctx::yield_*`, `Vmctx::block_on`, `terminate`.  Correct when: no
other function runs before the start function has run; a resumed guest finds a value
of the type it waits for; a future that borrows from a guest stack is not used after
that guest went on; no call mistakes what an earlier one left behind for its own.

### Instruction counting (`instance.rs`, `lucet-module/src/runtime.rs`, `lucetc/src/function.rs`)

State: the signed 64-bit words `instruction_count_bound` and
`instruction_count_adj`, whose sum is the count, and the register copy of the
latter in generated code.  Operations: `set_instruction_bound_delta`,
`get_instruction_count`, and the load, add, check and store that `lucetc` emits.
Correct when: no instruction is lost or counted twice, a bounded slice ends
soon after its bound and never before.

### Memory: regions, slots and allocations (`region/mmap.rs`, `region/uffd.rs`, `alloc/mod.rs`, `module.rs`)

State: the region's `freelist` of slots, a slot's pages with their protection and
contents, the `Alloc` with `heap_accessible_size`, `heap_inaccessible_size` and
`heap_memory_size_limit`, the reference counts of the region.  The `Instance` is
itself stored in its slot.  Operations: `new_instance_with`, `expand_heap`,
`reset_heap`, `drop_alloc`, the drop of an `InstanceHandle`, and of a region; in
`UffdRegion` also a thread that serves page faults.  Correct when: a slot backs
one instance at a time and is never lost, no data passes from one instance to the
next, the accessible heap is what the `Alloc` says and keeps its guard, memory is
unmapped when nobody needs it and not before.

### Hostcalls, `Vmctx` and embedder contexts (`vmctx.rs`, `embed_ctx.rs`, `hostcall_macros.rs`, `lucet-runtime-macros`)

State: per hostcall a `Vmctx` with a `RefCell` for its view of the heap and one for
the globals; per instance a map of `RefCell`s with embedder contexts.  Operations:
borrowing and dropping these, `grow_memory`, `yield_*`, `block_on`,
`get_func_from_idx` and a call of what it returns, `lucet_hostcall_terminate!`.
Correct when: no hostcall goes on with a reference to something that has moved or
been replaced, a panic gives back what was borrowed, and conflicts terminate the
instance with the documented reason.

### Context switching (`context/`, `val.rs`)

State: the registers and stack pointer in a `Context`, the words that
`Context::init` writes on the guest's stack, the per-thread `HOST_CTX`.
Operations: `init`, `swap`, `set`, and the assembly routines bootstrap, activate and
backstop.  Correct when: a guest function is entered as the calling convention
says, for any number and mix of arguments; whoever is switched to goes on where it
stood; and the host reads the return values of the call it made.

### The rest

| Part | What it is | Here |
| --- | --- | --- |
| C API (`c_api.rs`, `lucet-runtime/src/c_api.rs`) | wrappers for C | what a call reports, and the conversion of arguments |
| Lock testpoints, `lucet-concurrency-tests`, `lucet-runtime-tests` | the runtime's tests | scripts for the models |
| Module loading (`module/`, `lucet-module`) | shared objects, metadata, signatures | `validate_runtime_spec` and heap specs |
| `lucetc` | the compiler | what its counting code does |
| `error.rs`, `sysdeps/` | conversions, system access | not modelled |
| `lucet-wasi`, `lucet-wiggle`, tools, benchmarks | glue, code generation and drivers | not modelled |

`PROJECT.json` lists all of them under `components`, and under `hazards` the
places that tests hardly reach, each with the properties that would notice.

## Modules

| Module | Role | Source |
| --- | --- | --- |
| `KillSwitch` | one host thread, one instance, any number of switches | `execution.rs`, `signals.rs`, `instance.rs`, `vmctx.rs` |
| `TerminationContract` | what remote termination promises a caller | `execution.rs` |
| `KillSwitchTests` | the concurrency tests, as schedules of KillSwitch | `lucet-concurrency-tests`, `lock_testpoints.rs` |
| `KillSwitchProofs`, `ContractProofs` | theorems about the first two | |
| `SignalProofs`, `MmapRegionProofs`, `UffdRegionProofs`, `ContextSwitchProofs` | theorems about the modules so named | |
| `LifecycleProofs` | theorems about Lifecycle, Vmctx and CApi | |
| `MmapRegion` | threads sharing a region of slots | `region/mmap.rs`, `alloc/mod.rs`, `module.rs`, `instance.rs` |
| `UffdRegion` | threads that fault, and the worker that fills their pages | `region/uffd.rs` |
| `SignalState` | the process-wide signal handlers and signals in host code | `signals.rs` |
| `SignalTests` | the signal tests, as scripts for SignalState's threads | `lucet-runtime-tests` |
| `Lifecycle` | API calls and futures on one instance | `instance.rs`, `state.rs`, `future.rs`, `vmctx.rs` |
| `Vmctx` | extends Lifecycle with what hostcalls do | `vmctx.rs`, `embed_ctx.rs`, `lucet-runtime-macros` |
| `CApi` | extends Vmctx with what C is told | both `c_api.rs`, `lucet_types.h` |
| `LifecycleTests` | tests of the runtime, as scripts for Vmctx | `lucet-runtime-tests` |
| `ContextSwitch`, `ContextCases` | registers and stacks; the calls to make with them | `context/`, `val.rs`, `instance.rs`, tests |
| `InstructionCount` | the two counters, with wrap-around | `instance.rs`, `runtime.rs`, `lucetc/src/function.rs` |
| `InstructionCountProofs` | theorems about it | |
| `MC...` | instances for TLC: symmetry sets, configurations and module shapes | |

Each module that models code contains definitions that nothing uses and that
nearly repeat the one after them (`EnterableLoose` before `Enterable`).  They are
slips: the definition with a guard dropped, a reset forgotten, an order swapped.
Every property of a passing run is known to fail when some slip takes the place
of the definition it precedes (`mutants` in `PROJECT.json`).

Three modules run the repository's tests on the models.  A test is a script: the
calls it makes, the guest functions it calls them with, the places where it holds a
thread, and what it asserts.  `TestsPass` says that every script comes to its end
however the rest is scheduled, which shows that the models allow what the tests have
seen the code do and give the outcomes the tests assert.  In KillSwitchTests and
SignalTests the scripts are explored beside the model that no script restrains
(`Free`).  terminate_after_guest_drop is left out, as KillSwitch does not drop
instances, and so are tests that are about computed values only.

### KillSwitch

The host thread has a program counter `pc`; its values are the places between two
accesses to shared state, from the embedder (`host`) through set-up (`schedule`,
`signals_on`, `enter`), guest code (`guest`, `begin`, `exit`, `spin`, `leave`),
hostcalls (`hostcall`, `end`) and the signal handler (`handler`) to the teardown
(`signals_off`, `unset_tid`, `notify`, `settle`, `clear`, `finish`).  Each switch
has its own, `kpc`.  KillStates are numbered by the call they serve, so that a
switch may hold one that is out of date; `target` is the one it was made for.
Mutexes that are held only across one such step are not represented;
`domainLock` is, because `terminate` holds it while it signals the thread and
waits on `tid_change_notifier`.

`crash` records a panic or abort, after which nothing happens: the model is about
what leads there.  Fatal faults and start functions are the subject of Lifecycle,
and nested calls from a hostcall back into the guest are left out.  A signal sent
to a thread is taken before that thread passes its next system call or contended
lock, so the teardown steps wait for a pending alarm; this is how Linux delivers a
directed signal in time, and the code relies on it.  If Lucet's handler is not
installed the alarm goes to the host's disposition, by default the end of the
process.  Whether it stays installed after a call depends on other instances of
the process and on `install_lucet_signal_handler`, and is a free choice.

`TerminationContract` has two variables: the phase of the current call and whether
it is doomed.  A doomed call is not started, does not begin a hostcall, does not
come back from one into the guest, and is not reported as returned; one that is
suspended may be resumed, but only into the rest of its hostcall.  KillSwitch maps to it by
`Phase` (a function of `pc`, `state` and `ctx`) and `Doomed` (a switch holds the
domain lock, or the domain is `Terminated` or `Cancelled`).

### MmapRegion

A slot is a row of pages, each with a protection and contents: the heap, stack
guard, stack, globals, signal stack guard and signal stack.  Threads create an
instance (`TakeSlot`, `WriteInstance`, `FirstReset`), write to it, grow it,
reset it and drop it, and drop their reference to the region at any time.  The drop
of an `InstanceHandle` is a sequence of steps, because the slot is on the freelist
again while the rest of the `Instance` stored in it is still being dropped.  Sizes
are in host pages; growth by a fraction of a page (which `expand_heap` rounds up)
is one by a page.  The model follows the Linux build, in which decommitting is
`mprotect` and `madvise`.  A failing system call whose error is returned is
modelled; one whose result the code `expect`s is not.  The model stops when a slot
holds the Instances of two threads.

### Lifecycle

One thread makes API calls; the guest it runs computes, yields a value, blocks on
a future, reaches its bound, traps, or is terminated; `swap_and_return` turns that
into a new `State` and a result.  The future of `run_async` is a `task` that is
polled between slices and may be dropped between them.  Types of values are kept,
values are not.  Calls that are refused before they change anything (unknown
export, wrong signature) are left out.  Two error paths of `swap_and_return` are
switched by constants: `SetupFails`, for a set-up that fails before the guest is
entered, and `NamesFail`, for the `addr_details(..)?` after a fault
(`instance.rs:1296`), which returns with the state still `Transitioning` when the name
of the file or symbol is not UTF-8 (`module/dl.rs:327`).

### Vmctx, CApi

A hostcall on the guest's stack is a record: what it has borrowed of the heap, the
globals and the embedder context, and the length of its view of the heap.  History
fields say whether a reference has outlived what it refers to, and what was held
when the hostcall called back into the guest; contents are left out, as are further
contexts and further shared borrows by the same hostcall.  A panic unwinds the
hostcall that raised it and no other: the frames below it, and those of a suspended
guest that is reset, are given up with whatever they held.  `CApi` adds no steps: a
function of the C API makes the Rust call and converts its result.

### UffdRegion

The worker polls the shutdown pipe and the userfaultfd, reads one event, decides by
`addr_location`, and fills a host page or a WASM page, page by page, retrying on
ENOENT up to the limit.  Each of its calls may also fail with any other error, which is
an exit of its own: `PollFails` (the poll, the flags of either descriptor, the read, an
event of another kind), `HandlerWakeFails` and `FillFails`; a poll that a signal
interrupts is one of them, as `poll(..)?` does not look for EINTR.  After an error it
aborts the process or unregisters the region and wakes everybody; that these two calls
succeed is assumed (the code logs their errors and goes on).  The drop of a region whose
worker failed ends in a panic, after the unmapping.  Threads create instances, eagerly or lazily
initialised, access pages, grow, reset and drop.  The kernel's part is external: an
access to a missing page of a registered range posts an event and blocks; one that
is woken without a page gets SIGBUS; pages of an unregistered range are zero; a range of
length zero is refused, so that the eager heap of a module whose heap is initially empty
fails and its slot is lost.  Modules have a heap specification; for one without, the
eager initialisation of the heap is skipped, which is not modelled.

### SignalState

Threads enter and leave `with_signals_on`, with and without
`ensure_signal_handler_installed` and `ensure_sigstack_installed`, and call
`install_lucet_signal_handler` and `remove_lucet_signal_handler`.  Installing and
restoring go signal by signal, since a signal may come between two `sigaction`s.  A
signal in host code goes through `handle_signal` to `reraise_host_signal_in_handler`:
the saved handler is called, ignored or reinstated and raised, or the state is gone
and the signal is raised again.  Signals inside the runtime's own code are left out.

### ContextSwitch

A word is a pair of what it is and a number; an address on the guest's stack is the
number of words at or above it, so alignment is parity.  Each step is one assembly
routine or what a compiled function may do between two of them: keep the
callee-saved registers, overwrite the others.  `Calls` has the argument lists of the
repository's tests, through `Context::init` and through `run`, those of the C API,
and a sweep over all ways to fill the registers of each class exactly, to miss that
by one, and to exceed it.  `Clobbered` is what the callback `enter_guest_region` overwrites.
An instance may be terminated from the moment that callback returns to the one in which
`exit_guest_region`, called by the backstop, waits for an alarm; the return values that
the backstop has stored by then are not, in the model, since nobody reads them.

### InstructionCount

`adj`, `bound` and the register `reg` are words of width `2 * Half`, with
wrap-around addition, as in a build without overflow checks.  The guest executes
code of any cost up to `Gap` between two checks.  History variables say what was
really executed.

## Runs

| Run | Instance | Shows |
| --- | --- | --- |
| `kill_safety` | 2 switches, 3 KillStates, faults and failing set-ups; 18 tests | alarms only act on the guest code they were sent to (`AlarmOnlyInGuest`); a kill is final and unique (`KilledStaysKilled`, `OneWinner`); the domain lock pins call and domain (`LockPinsDomain`); spent KillStates stay spent (`NoRevival`); a switch that fires finds its guest (`FiringFindsGuest`); the tests end as they assert (`TestsPass`) |
| `kill_contract` | 2 switches, 3 KillStates, faults, fair scheduling | no domain panic (`NoInvalidState`); KillSwitch implements `TerminationContract` (`KeepsContract`); `terminate` returns (`TerminateReturns`); a guest spinning for the alarm gets it (`SpinEnds`); a guest that was signalled stops, even in an endless loop (`SignalledGuestStops`) |
| `kill_strong_count` | 1 switch | violated: see below |
| `region_safety` | 2 threads, 2 slots of 3 heap pages, 2 modules, random strategy, failing calls | slots are neither lost nor handed out twice (`SlotsAccounted`); nothing passes from one instance to the next (`NoLeftovers`); `Alloc` and page protections agree and the guard stays (`HeapLayout`); memory is mapped exactly while it is used (`MappedWhileUsed`) |
| `region_reuse` | 2 threads, 1 slot | violated: see below |
| `uffd` | 2 threads, up to 2 slots, WASM pages of 2 host pages, both dispositions and page sizes, an empty initial heap, any error of the kernel's | pages hold what the module says (`HeapAsInitialised`); only faults outside of valid memory fail, and the worker never for what the region did (`FaultsOutside`); slots are accounted for and creations meet no page in theirs (`SlotsAccounted`); every fault is answered (`FaultsAnswered`); the region's drop ends (`DropEnds`) |
| `signals` | 3 threads, 2 signals; 9 tests | guests run with Lucet's handlers (`GuestIsCovered`); the host gets its own back and is never saved over (`HostIsRestored`); host signals reach the host (`SignalsReachHost`); the lock is released (`LockIsReleased`); `TestsPass` |
| `life_safety` | 1 function, 2 types, start function, failing set-ups and fault details, dropped futures, 1 hostcall at a time | resumed guests get what they await (`TakesWhatItAwaits`); a future is used only while its guest stands still (`FutureIsFrozen`); nothing runs before the start function (`StartRunsFirst`); the panics about leftovers of earlier calls are not reached, and nothing runs in the state that a fault without details leaves (`ExpectationsHold`); references are to what is there (`RefsValid`); unwinding gives back borrows (`UnwindingReleases`); the C API's report agrees with the instance, its errors included (`CResultAgrees`) |
| `life_asked` | 2 functions, dropped futures | violated: see below |
| `life_tests` | 44 tests | `TestsPass` |
| `count_safety` | four-bit words | the count is exact through every wrap-around (`CountIsExact`); slices end neither too late nor too early (`SliceIsBounded`, `NotCutShort`) |
| `context` | 2 host threads, tests' calls and a sweep | functions are entered as the calling convention says (`EntryMeetsABI`); switches restore (`SwitchesRestore`); results are those of the call that was made (`ResultIsFresh`) |

**Bounds.**  `FreeCalls` = 2 (`MaxCalls` in `kill_contract`) gives an instance three
KillStates: the one a switch was made for, the next, and a third that must not see
traces of either; calls that yield and are resumed share one, so behaviours are
longer than that; the tests need up to six calls.  Two switches compete for one
KillState or sit on different ones; a third adds no new pair, and the proofs hold for
any number.  A heap of three pages has an initial page, one to grow into and one
beyond the limit or in the guard.  Two slots and two threads allow a full region, an
empty one and reuse.  In `uffd` a WASM page of two host pages has a first page and
one that is not, heaps have up to two of them, and two attempts are the fewest that
contain a retry; after the worker has failed one page is accessed, as all behave
alike.  Three threads are a runner, an installer by hand and a thread that is
signalled.  `MaxDepth` = 1 lets a callback run above a hostcall; `MaxHeap` = 1 lets
a growth succeed and a second one fail.  Two runs and two swaps let a guest be
resumed by the other thread and be restarted after that.  `Half` = 8 with counts to
6 makes the bound wrap as an unbounded run makes it wrap at 2^63.

**Deadlock** is checked in the runs of KillSwitch, Vmctx and InstructionCount.  In
KillSwitch an embedder may stop calling (`Stopped`), which is a step of its own, so
that any other halt is reported.  A region ends when all references to it are gone, a
process when a signal kills it, tests when they are over, and contexts at their
bounds.

**Fairness.**  KillSwitch: weak fairness on the runtime's steps on the host thread,
and on each thread's steps inside `terminate`.  UffdRegion: on the worker and on the
drop of the region, and not on the error answers, which need never come.  SignalState:
on threads inside the runtime.  Operating systems schedule every runnable thread, and
these steps wait only for locks, descriptors and the condition variable.  Nothing is
assumed of the embedder, of guest code, which may loop, of hostcalls, which may never
return, or of anybody calling `terminate`; except in tests, whose threads go on when
the script lets them.

## Proofs

Each theorem holds for every value of the constants that meets the assumptions its
module states.  For KillSwitch: any set of switches, any number of calls, both
values of the flags.  For the counters: any word width, with counts below half of it.
For the regions: any threads, slots, modules, page counts and limits; MmapRegion
assumes that somebody holds the region at first (`ThreadsAssumption`), that a module's
data is in its initial heap and what `Limits::validate` sees to; UffdRegion that a wasm
page is at least two host pages and that module names are not page states.  For
SignalState: any finite set of threads and any number of signals.  For Lifecycle, Vmctx
and CApi: any functions and types, any depth of callbacks and any number of borrows.
For ContextSwitch: any number of host threads, calls with any number of arguments of any
types, any number of runs and swaps.

In every proof module `IndInv` (or `IInv`, `LifeInv`) is the inductive invariant, the
conjunction of named parts; TLC has checked it on the instance of the run before it was
proved; `InvInit` and `InvStep` prove that it holds and is preserved, with one lemma or
step per action.

**KillSwitchProofs** proves `TypeOK` (which TLC does not check again),
`AlarmOnlyInGuest`, `KilledStaysKilled`, `OneWinner`, `LockPinsDomain`, `NoRevival`
and `FiringFindsGuest`.  None of them is inductive alone. That an alarm finds guest
code rests on a chain: the sender holds the domain lock (`LockInv`), the domain was
`Guest` when it took it, so the thread is in guest code or in the teardown after a
fault (`DomainInv`, `TailInv`); a guest that returned has taken `terminable`, so
nobody fires at it (`ExitInv`, `FiringInv`); one that faulted has silenced the alarm
(`ExitInv`, `AlarmInv`).  That a kill is final needs the winner's KillState to be in a
final domain (`WinnerInv`), old KillStates to be inert and new ones fresh
(`OtherCallsInv`, `TargetInv`), and suspended calls to be inside their hostcall
(`SuspendInv`).  `IndInv` is the conjunction; `InvInit` and `InvStep` prove that it
holds and is preserved, one step per action and one per conjunct the action disturbs.
`FiringFindsGuest` needs `ReachInv` on top of it: the handler is installed wherever a
guest may run, and a switch that is still about to signal a guest that is being
descheduled has had its alarm silenced.

**ContractProofs** proves, when no set-up fails, that no domain panic is reachable
and that KillSwitch implements `TerminationContract`: initial states map to initial
states and each action to a step or a stutter.  `FreshInv` is the part of the
invariant that a failing set-up breaks, and with it the theorem: a resume that fails
in its set-up is the counterexample (Disagreements).

**InstructionCountProofs** proves `TypeOK`, `CountIsExact`, `SliceIsBounded` and
`NotCutShort`.  `IInv` adds `Distance`, the register's distance from zero in
terms of what the slice was given and has executed, and `AllStored`, which says
when register and memory agree.  `WrapCarries` and `WrapMoves` are the facts about
wrap-around that it needs.

**SignalProofs** proves `GuestIsCovered`, `HostIsRestored` and the action property
`SignalsReachHost`.  The handlers are changed signal by signal under the lock, so what
holds of them depends on how far the lock's holder has come: the invariant says what
`action` and `saved` are on either side of the signal it is at, and that the counter is
the number of users, the runs and an installation by hand, except between the steps of the one that
changes it.  Counting users is where the finite set of threads is needed.

**MmapRegionProofs** proves `SlotsAccounted`, `NoLeftovers`, `HeapLayout` and
`MappedWhileUsed`.  For a slot the invariant has one predicate (`Sound`) of the stage it
is in: free, taken, built, live, or about to be dropped.  It says which pages are
open, that pages outside the accessible heap are clear, and what a reset that gave up
half-way may have left.  That `drop_alloc` leaves a clean slot needs that all dirty
pages are within `heap_accessible_size`, through any growth and failed reset, which is
what `HeapLayout` alone does not say.  The freelist is a sequence without repetitions,
disjoint from the slots that threads own.

**UffdRegionProofs** proves `HeapAsInitialised`, `FaultsOutside` and `SlotsAccounted`, with
a worker that the kernel may refuse anything at any step.
The embedder's threads and the worker share no lock; what orders them is that a thread
that faults stands still until it is answered.  `EventInv` makes that precise: each
event, and the fault being handled, is one that the slot's only user waits for, and no
two are for one slot.  So nothing happens to a slot while the worker is at it.  That the
worker meets no page that is there (EEXIST) needs `Uniform`: the host pages of a
wasm page are there or missing together, except in the slot that is being filled, where
they are there up to the next one (`FillInv`).  It is kept because heaps are of whole wasm
pages, which rests on the facts about division (`BaseNext`, `BaseWithin`).

**LifecycleProofs** first proves `LifeInv` of Lifecycle, from which
`TakesWhatItAwaits`, `FutureIsFrozen`, `StartRunsFirst` and `ExpectationsHold` follow:
it ties the state to the guest's stack for each of the three places control can be
(`HostStackInv`, `GuestStackInv`, `BackStackInv`), the future and its task to both
(`TaskInv`), and what the last call came to, its error in particular, to the state it
left (`ResultInv`, `ErrorInv`).  `HostcallsImplementLifecycle` is a refinement,
VmctxSpec => Spec: every step that Vmctx adds is one of Lifecycle's or leaves its
variables alone, so these four hold with hostcalls as well.  On top of it the
invariant of Vmctx relates the hostcalls on the stack to where the guest stands
(`StandInv`, `CallInv`), the borrows of a `RefCell` to those that hold them
(`BorrowInv`, by counting), and references to what they refer to (`RefsInv`); it gives
`RefsValid`, `UnwindingReleases` and, with `DetailsInv`, `CResultAgrees`.

**ContextSwitchProofs** proves `SwitchesRestore`, `ResultIsFresh` and `EntryMeetsABI`.
What a function finds is computed by the loop of `Context::init` over its arguments, so
the proof has an induction: `Conforms` says that after n turns each of the first n
arguments is in the register or in the place among the spilled ones that the calling
convention gives it, counting the arguments of its class before it (`PlacedConforms`).
The library's induction theorems take an operator as a parameter, which the provers
cannot instantiate; `LeastNumber`, that a set of numbers has a least one, needs only a
set, and the induction is by least counterexample (`UpTo`).  `InitialStackIs` then gives
every word of the stack that is laid out.  The invariant says what a thread's registers,
stack pointer and stack are at each place between the two swaps: at the activator, the
bootstrap, the function's first instruction, in the guest, at the backstop (`GuestInv`);
what a yielded guest has left for its return (`YieldInv`); and that at most one thread is
away, with its registers in its own HOST_CTX, and is the guest's parent (`AwayInv`), on
which rests that a guest resumed on another thread goes home to that thread.
Two theorems have a hypothesis.  `EntryMeetsABI` needs that `Clobbered` has none of xmm0
to xmm7: the activator calls `enter_guest_region` after these are loaded with arguments
and does not save them, so the theorem asks of the compiler what the code leaves to it.
`ResultIsFresh` needs that the calls' `refused`, which is what a test expects, agrees
with their alignment and types.

**Only model-checked**: liveness and everything else under fairness (`TerminateReturns`,
`SpinEnds`, `SignalledGuestStops`, `FaultsAnswered`, `DropEnds`, `LockIsReleased`), which the
prover does not support (nor ENABLED), and the tests (`TestsPass`).  RECURSIVE operators
are out of the prover's reach as well, which is why the modules avoid them.

## Disagreements between code and comments

With a run that exhibits them (`findings` in `PROJECT.json`):

- `kill_strong_count`: a switch that has upgraded its reference but not fired makes
  the `strong_count` assertion of `exit_guest_region` fail (`execution.rs:291`).
- `region_reuse`: a slot is on the freelist before the `Instance` stored in it is
  dropped (`instance.rs:155`); another thread may write over it.
- `life_asked`: after a future of `run_async` is dropped at its bound, `run_async` of
  another function returns the result of the old one (`future.rs:197`).

With a definition that states what the code or its documentation says and that TLC
refutes when it is put into a configuration as INVARIANT:

- `KillSwitch!SwitchFindsThread` (`KillSwitchStrongCount.cfg` with GuestFaults =
  TRUE): a guest that faults while a switch holds the domain lock clears its thread
  id first, and `terminate` panics with "logic error: instance is terminable but not
  actually running" (`execution.rs:648`).
- `KillSwitch!NoInvalidState` with SetupFails = TRUE: a resume that fails in its
  set-up makes a yielded instance `Ready` (`instance.rs:1239`), although `state.rs:67`
  lets it only become `Running`; its next run panics in `enter_guest_region`.
- `InstructionCount!CountFits`: an unbounded run after a count above zero makes the
  sum of the counters overflow, which a build with overflow checks turns into a panic;
  the comment at `instance.rs:929` excludes it.
- `CApi!CReadsTheReason`: `lucet_terminated_reason` has `OtherPanic`,
  `BlockOnNeedsAsync`, `HeapOutOfMemory` in this order in Rust (`c_api.rs:382`) and in
  another in `lucet-runtime/include/lucet_types.h:46`, so C misreads all three.
- `Vmctx!ConflictIsBorrowError`: `heap()` under a live `heap_mut()` terminates the
  instance with `OtherPanic`, since `reconstitute_heap_view_if_needed`
  (`vmctx.rs:208`) meets the borrow first; the documentation says `BorrowError`.
- `Vmctx!NoBorrowAtBound`: a bound may expire in a function that a hostcall called back
  with live borrows; the comment at `vmctx.rs:130` says that no borrows can exist.

Seen while modelling:

- After a fault `with_signals_on` restores the host's SIGALRM disposition
  (`signals.rs:180`) before `deschedule` stops a switch that is firing; its alarm then
  meets that disposition.  `FiringFindsGuest` excludes this case by its premise.
- After a bounded `run_async` is dropped at its bound, one without bound panics in
  `future.rs:199` ("should have bound if guest had expired bound").
- `run_start` discards the result of a start function that yields, although
  `instance.rs:629` promises `Error::StartYielded`, which nothing constructs.
- `run_async_start` fails with `StartAlreadyRun` for a module without start function,
  although `future.rs:141` says that it does nothing.
- Generated code yields when `adj` is zero, while `instance.rs:952` and
  `lucet-module/src/runtime.rs:14` say that it must be greater.
- `state.rs:90` says that "it is an error for this state to appear outside of a
  transition": a fault for which `addr_details` fails leaves the instance `Transitioning`
  (`instance.rs:1296`), without its fatal handler being called if the fault was fatal.
  Only a reset helps, and every other call is refused (`ExpectationsHold`).
- `uffd_worker_thread` ends when a signal interrupts its poll (`region/uffd.rs:175`).
- A failed worker unregisters the region "so that they crash rather than hanging"
  (`region/uffd.rs:572`); the range is readable and writable, so the threads go on with zero
  pages instead.  An eager heap initialisation is undone by the reset at the end of
  `new_instance_handle`, and one that fails loses its slot.
- The conversion of `lucet_signal_behavior` to `SignalBehavior` calls itself for ever
  (`c_api.rs:206`).  A `lucet_val` of type I8 becomes `Val::I16`, one of type I16
  `Val::I32`.  `lucet_instance_resume` always passes a `CYieldedVal`, so that a guest
  that yielded with `yield_()` cannot be resumed from C.
- The diagram in `context/mod.rs:338` has the spilled arguments in the opposite order
  to the code's, which is the calling convention's.
- `enter_guest_region` is called before the bootstrap has loaded the argument registers
  but after xmm registers were loaded: were it compiled to use xmm0, `EntryMeetsABI`
  would fail.

## What is not modelled

- `sysdeps/`, Mac OS and FreeBSD: the models follow Linux on x86-64.
- Shared objects, signatures, serialisation: I/O and data handling without protocol.
- The parts of the C API that only pass a pointer on, and arithmetic conversions of
  values.
- Byte-level sizes in `Alloc`: `expand_heap`'s rounding, `mem_in_heap` and the
  checks of `Limits::validate` beyond the order of the sizes.
- Signals that hit a thread inside the runtime, and page faults of a thread that
  handles a signal.
- `lucetc` beyond counting: a translation whose correctness is about two languages'
  semantics.
- `lucet-wasi`, `lucet-wiggle`, tools: glue and code generation.

## Plan

Done: all modules above and the proofs listed.  Next, in this order:

1. `CountingPass`: the instrumentation of `lucetc/src/function.rs` over small
   structured functions, shown to implement InstructionCount.
2. Pure operators: `expand_heap` in 32 bits, `Limits::validate`, sparse data.
