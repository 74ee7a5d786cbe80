--------------------------- MODULE LifecycleTests ---------------------------
(***************************************************************************)
(* The repository's tests of hostcalls, yields, the start function, faults *)
(* and asynchronous runs, as scripts for Vmctx: each test makes its calls  *)
(* of the instance in its order, with guest functions that do what the     *)
(* test's do, and asserts what every call comes to.                        *)
(*                                                                         *)
(* Tests that are about the values computed, the signal handlers of the    *)
(* host or the thread that runs an instance are left out: Vmctx has none   *)
(* of these.                                                               *)
(*                                                                         *)
(* Sources: lucet-runtime-tests/src/host.rs, start.rs, guest_fault.rs,     *)
(* async_hostcall.rs, entrypoint.rs, stack.rs and memory.rs, and the tests *)
(* in lucet-runtime/src/c_api.rs                                           *)
(***************************************************************************)
EXTENDS Integers, Sequences

CONSTANTS
    Functions, Types, SetupFails, DropsFuture, NamesFail, MaxDepth, MaxHeap, MaxBorrows

VARIABLES
    state, asyncContext, expecting, fatal, entrypoint, resumedVal, bounded,
    frame, pc, call, task, future, result, settled,
    calls, inHost, heapLen, oomTerminates, ctx, details, abandoned,
    test,        \* which test is run
    line,        \* the line of its script that comes next, or is being carried out
    busy,        \* is it being carried out?
    program      \* what the guest function has left to do

\* The modules of the tests have a start function, or have none.
Started == INSTANCE Vmctx WITH HasStart <- TRUE
Plain == INSTANCE Vmctx WITH HasStart <- FALSE

-----------------------------------------------------------------------------
(* Guest functions, as sequences of what they do.                          *)

Do(op, arg) == <<op, arg>>
Returns == <<Do("return", "")>>
Hostcall(body) == <<Do("hostcall", "")>> \o body \o <<Do("end", "")>> \o Returns

Hello == Hostcall(<<Do("heap", "shared"), Do("ctx", "mut")>>)
Hostcall_error == Hostcall(<<Do("panic", "Provided")>>)
Hostcall_error_unwind == Hostcall(<<Do("ctx", "shared"), Do("panic", "Provided")>>)
Hostcall_bad_borrow == Hostcall(<<Do("heap", "shared"), Do("heap", "mut")>>)
Hostcall_missing_embed_ctx == Hostcall(<<Do("ctx", "shared")>>)
Hostcall_multiple_vmctx ==
    Hostcall(<<Do("heap", "mut"), Do("drop heap", ""), Do("heap", "shared"), Do("drop heap", "")>>)
Hostcall_yields_5 == Hostcall(<<Do("yield", "EmptyYieldVal")>>)
Hostcall_yield_expects_5 == Hostcall(<<Do("yield", "u64")>>)
Hostcall_yield_facts == Hostcall([i \in 1 .. 5 |-> Do("yield", "EmptyYieldVal")])
Hostcall_coop_facts ==
    Hostcall([i \in 1 .. 9 |-> Do("yield", IF i % 2 = 0 THEN "u64" ELSE "EmptyYieldVal")])
Hostcall_yield_with(what) == Hostcall(<<Do(what, "shared"), Do("yield", "EmptyYieldVal")>>)
Hostcall_grow_with(what) == Hostcall(<<Do(what, "shared"), Do("grow", 1)>>)
Raise_other_panic == Hostcall(<<Do("panic", "OtherPanic")>>)
Hostcall_block_on == Hostcall(<<Do("block", "")>>)
Grow_memory(pages) == <<Do("memory.grow", pages)>> \o Returns

\* The same function when it runs with a bound of one instruction
Bounded(function) == <<Do("expire", "")>> \o function

Traps == <<Do("fault", "")>>
FatalTrap == <<Do("fault", "fatal")>>

-----------------------------------------------------------------------------
(* Scripts.                                                                *)

\* The lines of a script: the call, what it is given, the guest function that it runs,
\* what it comes to, and the TerminationDetails, if the test looks.
Line(do, arg, guest, want, why) ==
    [do |-> do, arg |-> arg, guest |-> guest, want |-> want, why |-> why]

RunOf(guest, want) == Line("run", "", guest, want, "none")
Terminates(guest, why) == Line("run", "", guest, "terminated", why)
RunAsyncOf(guest, want) == Line("run_async", "", guest, want, "none")
StartOf(want) == Line("run_start", "", Returns, want, "none")
ResumeWith(type, want) == Line("resume", type, <<>>, want, "none")
ResetIt == Line("reset", "", <<>>, "ok", "none")
InsertCtx == Line("insert", "", <<>>, "none", "none")
GrowBy(pages) == Line("grow", pages, <<>>, "none", "none")
SetOom(terminate) == Line("set oom", terminate, <<>>, "none", "none")

Test(start, script) == [start |-> start, script |-> script]
Run_onetwothree == <<ResetIt, RunOf(Returns, "returned")>>

Run_trivial == Test(FALSE, <<RunOf(Returns, "returned")>>)
Run_hello == Test(FALSE, <<InsertCtx, RunOf(Hello, "returned")>>)
Run_hostcall_error == Test(FALSE, <<Terminates(Hostcall_error, "Provided")>>)
Run_hostcall_error_unwind ==
    Test(FALSE, <<InsertCtx, Terminates(Hostcall_error_unwind, "Provided")>>)
Run_fpe == Test(FALSE, <<RunOf(Traps, "fault")>>)
Run_hostcall_bad_borrow == Test(FALSE, <<Terminates(Hostcall_bad_borrow, "heap_mut")>>)
Run_hostcall_missing_embed_ctx ==
    Test(FALSE, <<Terminates(Hostcall_missing_embed_ctx, "CtxNotFound")>>)
Run_hostcall_multiple_vmctx == Test(FALSE, <<RunOf(Hostcall_multiple_vmctx, "returned")>>)
Run_hostcall_yields_5 == Test(FALSE, <<RunOf(Hostcall_yields_5, "yielded")>>)
Run_hostcall_yield_expects_5 ==
    Test(FALSE, <<RunOf(Hostcall_yield_expects_5, "yielded"), ResumeWith("u64", "returned")>>)
Yield_factorials ==
    Test(FALSE, <<RunOf(Hostcall_yield_facts, "yielded")>>
                \o [i \in 1 .. 4 |-> ResumeWith("EmptyYieldVal", "yielded")]
                \o <<ResumeWith("EmptyYieldVal", "returned")>>)
Coop_factorials ==
    Test(FALSE, <<RunOf(Hostcall_coop_facts, "yielded")>>
                \o [i \in 1 .. 8 |->
                       ResumeWith(IF i % 2 = 0 THEN "u64" ELSE "EmptyYieldVal", "yielded")]
                \o <<ResumeWith("EmptyYieldVal", "returned")>>)
Resume_unexpected ==
    Test(FALSE, <<RunOf(Hostcall_yields_5, "yielded"), ResumeWith("u64", "invalid argument")>>)
Missing_resume_val ==
    Test(FALSE, <<RunOf(Hostcall_yield_expects_5, "yielded"),
                  ResumeWith("EmptyYieldVal", "invalid argument")>>)
Resume_wrong_type ==
    Test(FALSE, <<RunOf(Hostcall_yield_expects_5, "yielded"),
                  ResumeWith("bool", "invalid argument")>>)
Yield_with_borrowed_heap_terminates ==
    Test(FALSE, <<Terminates(Hostcall_yield_with("heap"), "heap")>>)
Yield_with_borrowed_globals_terminates ==
    Test(FALSE, <<Terminates(Hostcall_yield_with("globals"), "globals")>>)
Yield_with_borrowed_ctx_terminates ==
    Test(FALSE, <<InsertCtx, Terminates(Hostcall_yield_with("ctx"), "embed_ctx")>>)
Grow_with_borrowed_ctx ==
    Test(FALSE, <<InsertCtx, RunOf(Hostcall_grow_with("ctx"), "returned")>>)
Grow_with_borrowed_heap_terminates ==
    Test(FALSE, <<Terminates(Hostcall_grow_with("heap"), "heap")>>)

Global_init == Test(TRUE, <<StartOf("ok"), RunOf(Returns, "returned")>>)
Start_and_call == Test(TRUE, <<StartOf("ok"), RunOf(Returns, "returned")>>)
Start_is_required == Test(TRUE, <<RunOf(Returns, "needs start")>>)
No_start_without_reset == Test(TRUE, <<StartOf("ok"), StartOf("start already run")>>)
Start_and_reset ==
    Test(TRUE, <<StartOf("ok"), RunOf(Returns, "returned"), ResetIt,
                 StartOf("ok"), RunOf(Returns, "returned")>>)
No_start == Test(FALSE, <<StartOf("ok"), RunOf(Returns, "returned")>>)

Illegal_instr == Test(FALSE, <<RunOf(Traps, "fault")>> \o Run_onetwothree)
Oob == Test(FALSE, <<RunOf(Traps, "fault")>> \o Run_onetwothree)
Guest_after_fault_without_reset ==
    Test(FALSE, <<RunOf(Traps, "fault"), RunOf(Returns, "returned")>>)
Hostcall_insufficient_stack == Test(FALSE, <<RunOf(Traps, "fault")>> \o Run_onetwothree)
Hostcall_error_and_reset ==
    Test(FALSE, <<Terminates(Hostcall_error, "Provided")>> \o Run_onetwothree)
Raise_other_panic_and_reset ==
    Test(FALSE, <<Terminates(Raise_other_panic, "OtherPanic")>> \o Run_onetwothree)
Fatal_continue_signal_handler == Test(FALSE, <<RunOf(Returns, "returned")>>)
Fatal_terminate_signal_handler ==
    Test(FALSE, <<Terminates(<<Do("signal", "")>>, "none")>>)

\* The fatal handlers of these end the process before run returns.
Fatal_abort == Test(FALSE, <<RunOf(FatalTrap, "panic: fatal")>>)
Hit_sigstack_guard_page == Test(FALSE, <<RunOf(FatalTrap, "panic: fatal")>>)
Fatal_handler == Test(FALSE, <<RunOf(FatalTrap, "panic: fatal")>>)

Hostcall_yield ==
    Test(FALSE, <<StartOf("ok"), RunAsyncOf(Bounded(Hostcall_block_on), "returned"),
                  Terminates(Hostcall_block_on, "BlockOnNeedsAsync"), ResetIt,
                  RunAsyncOf(Bounded(Hostcall_block_on), "returned")>>)

\* The C API's test: a hostcall in C that yields nine times to a C program
Yield_resume ==
    Test(FALSE, <<RunOf(Hostcall([i \in 1 .. 9 |-> Do("yield", "CYieldedVal")]), "yielded")>>
                \o [i \in 1 .. 8 |-> ResumeWith("CYieldedVal", "yielded")]
                \o <<ResumeWith("CYieldedVal", "returned")>>)

\* The heap may have two pages more, and three are asked for.
Allocator_terminate_on_heap_oom ==
    Test(FALSE, <<GrowBy(1), RunOf(Grow_memory(3), "returned"), ResetIt, SetOom(TRUE),
                  Terminates(Grow_memory(3), "HeapOutOfMemory"), ResetIt, SetOom(FALSE),
                  GrowBy(1), RunOf(Grow_memory(1), "returned")>>)

\* localpalooza, with little enough recursion, and with too much
Expect_ok == Test(FALSE, <<RunOf(Returns, "returned")>>)
Expect_stack_overflow == Test(FALSE, <<RunOf(Traps, "fault")>>)

Current_memory_hostcall == Test(FALSE, <<RunOf(Returns, "returned")>>)
Grow_memory_hostcall == Test(FALSE, <<RunOf(Grow_memory(1), "returned")>>)

Tests ==
    << Run_trivial, Run_hello, Run_hostcall_error, Run_hostcall_error_unwind, Run_fpe,
       Run_hostcall_bad_borrow, Run_hostcall_missing_embed_ctx, Run_hostcall_multiple_vmctx,
       Run_hostcall_yields_5, Run_hostcall_yield_expects_5, Yield_factorials, Coop_factorials,
       Resume_unexpected, Missing_resume_val, Resume_wrong_type,
       Yield_with_borrowed_heap_terminates, Yield_with_borrowed_globals_terminates,
       Yield_with_borrowed_ctx_terminates, Grow_with_borrowed_ctx,
       Grow_with_borrowed_heap_terminates, Global_init, Start_and_call, Start_is_required,
       No_start_without_reset, Start_and_reset, No_start, Illegal_instr, Oob,
       Guest_after_fault_without_reset, Hostcall_insufficient_stack, Hostcall_error_and_reset,
       Raise_other_panic_and_reset, Fatal_continue_signal_handler,
       Fatal_terminate_signal_handler, Fatal_abort, Hit_sigstack_guard_page, Fatal_handler,
       Hostcall_yield, Yield_resume, Allocator_terminate_on_heap_oom, Expect_ok,
       Expect_stack_overflow, Current_memory_hostcall, Grow_memory_hostcall >>

-----------------------------------------------------------------------------
(* Carrying out a script.                                                  *)

Script == Tests[test].script
Ended == line > Len(Script)
Now == Script[line]

TestInit ==
    /\ test \in DOMAIN Tests
    /\ IF Tests[test].start THEN Started!VmctxInit ELSE Plain!VmctxInit
    /\ line = 1
    /\ busy = FALSE
    /\ program = <<>>

\* A call of the test.  A guest function goes on where it stood when it is resumed.
CallOf(l) ==
    IF Tests[test].start
    THEN \/ l.do = "run" /\ (\E f \in Functions : Started!Run(f)) /\ Started!HostStep
         \/ l.do = "run_start" /\ Started!RunStart /\ Started!HostStep
         \/ l.do = "reset" /\ Started!ResetStep
    ELSE \/ l.do = "run" /\ (\E f \in Functions : Plain!Run(f)) /\ Plain!HostStep
         \/ l.do = "run_start" /\ Plain!RunStart /\ Plain!HostStep
         \/ l.do = "run_async" /\ (\E f \in Functions : Plain!RunAsync(f, TRUE)) /\ Plain!HostStep
         \/ l.do = "resume" /\ Plain!Resume(l.arg) /\ Plain!HostStep
         \/ l.do = "reset" /\ Plain!ResetStep
         \/ l.do = "insert" /\ Plain!SetCtx(TRUE)
         \/ l.do = "grow" /\ Plain!HostGrows(l.arg)
         \/ l.do = "set oom" /\ Plain!SetTerminateOnHeapOom(l.arg)

Starts ==
    /\ ~busy
    /\ CallOf(Now)
    /\ program' = IF Now.guest = <<>> THEN program ELSE Now.guest

\* The guest function's next operation
GuestDoes(op, arg) ==
    \/ op = "hostcall" /\ Plain!HostcallBegins
    \/ op = "end" /\ Plain!HostcallEnds
    \/ op = "heap" /\ Plain!BorrowHeap(arg)
    \/ op = "drop heap" /\ Plain!DropsHeap
    \/ op = "globals" /\ Plain!BorrowGlobals(arg)
    \/ op = "ctx" /\ Plain!BorrowCtx(arg)
    \/ op = "yield" /\ Plain!HostcallYields(arg)
    \/ op = "block" /\ Plain!HostcallBlocks
    \/ op = "grow" /\ Plain!HostcallGrows(arg)
    \/ op = "panic" /\ Plain!HostcallPanics(arg)
    \/ op = "memory.grow" /\ Plain!GuestGrows(arg)
    \/ op = "return" /\ Plain!GuestReturns /\ Plain!GuestStep
    \/ op = "expire" /\ Plain!GuestExpires /\ Plain!GuestStep
    \/ op = "fault" /\ Plain!GuestFaults /\ (fatal' = (arg = "fatal")) /\ Plain!GuestStep
    \/ op = "signal" /\ Plain!GuestTerminates /\ Plain!GuestStep /\ details'.kind = "Signal"

GuestFunction ==
    /\ program # <<>>
    /\ GuestDoes(Head(program)[1], Head(program)[2])
    /\ program' = Tail(program)

\* What the runtime and the executor of the test do by themselves
Goes(step) == step /\ Plain!HostStep /\ UNCHANGED program

TestStep ==
    \/ Starts
    \/ busy /\ (GuestFunction \/ Goes(Plain!SwapBack) \/ Goes(Plain!TakeResumedVal)
                \/ Goes(Plain!Poll))

\* What the test asserts of a call that has come back: its result, and the
\* TerminationDetails where the test looks at them.  A test that fails goes no further.
Asserted(l) ==
    /\ l.want # "none" => l.want = result'.kind
    /\ l.why # "none" => l.why \in {details'.kind, details'.by}

TestNext ==
    /\ ~Ended
    /\ TestStep
    /\ busy' = (pc' # "host" \/ task'.on)
    /\ \/ busy' /\ UNCHANGED line
       \/ ~busy' /\ Asserted(Now) /\ line' = line + 1
    /\ UNCHANGED test

testVars == <<Plain!allVars, test, line, busy, program>>

TestSpec == TestInit /\ [][TestNext]_testVars /\ WF_testVars(TestNext)

-----------------------------------------------------------------------------

\* Every test comes to its end: every call comes to what the test asserts, no call of it
\* is one that the code does not allow, and no guest of it hangs.
TestsPass == <>Ended
=============================================================================
