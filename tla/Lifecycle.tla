----------------------------- MODULE Lifecycle -----------------------------
(***************************************************************************)
(* The life cycle of an instance as its embedder sees it: run, resume,     *)
(* run_start, reset, and the asynchronous run_async and run_async_start,   *)
(* whose futures are polled, and may be dropped, between slices of guest   *)
(* execution.                                                              *)
(*                                                                         *)
(* The model is about one thread.  The types of yielded and resumed values *)
(* are kept, their contents are not; whether a slice of guest execution    *)
(* has an instruction bound is kept, the count is in InstructionCount.     *)
(* Calls that get_export_func, the signature check or a null entrypoint    *)
(* refuse change nothing and are left out.  A definition that directly     *)
(* precedes one of nearly the same name and is used nowhere is that        *)
(* definition with a slip in it.                                           *)
(*                                                                         *)
(* Sources: lucet-runtime-internals/src/instance.rs, instance/state.rs,    *)
(* future.rs and vmctx.rs.                                                 *)
(***************************************************************************)
EXTENDS Naturals

CONSTANTS
    Functions,   \* the exported functions that are run
    Types,       \* the types with which guests are resumed, EmptyYieldVal among them
    HasStart,    \* has the module a start function?
    SetupFails,  \* may with_current_instance or with_signals_on return an error?
    DropsFuture, \* may the embedder drop the future of run_async before its end?
    NamesFail    \* may addr_details fail: is a file's or a symbol's name no UTF-8?

Start == "start"
ResumeVal == "ResumeVal"

ASSUME LifecycleAssumption ==
    /\ Start \notin Functions /\ ResumeVal \notin Types
    /\ HasStart \in BOOLEAN /\ SetupFails \in BOOLEAN /\ DropsFuture \in BOOLEAN
    /\ NamesFail \in BOOLEAN

VARIABLES
    state,       \* Instance::state
    asyncContext,\* Running's async_context
    expecting,   \* what Yielding and Yielded expect
    fatal,       \* is the fault of Faulted fatal?
    entrypoint,  \* Instance::entrypoint
    resumedVal,  \* the type in Instance::resumed_val, or None
    bounded,     \* has the present slice an instruction bound?
    frame,       \* the guest's stack: which function, and where it stands
    pc,          \* who runs: the embedder, the guest, or swap_and_return's end
    call,        \* the API call that is being made
    task,        \* the future of run_async
    future,      \* who holds the YieldedFuture of a block_on
    result,      \* what the last API call came to, while no other is made
    settled      \* history: has the start function returned or faulted since the
                 \* instance was created or reset?

instVars == <<state, asyncContext, expecting, fatal, entrypoint, resumedVal, bounded>>
vars == <<instVars, frame, pc, call, task, future, result, settled>>

None == "none"
NoFrame == [func |-> None, at |-> "gone", waits |-> None]
NoCall == [api |-> None, func |-> None]
NoResult == [api |-> None, kind |-> None, func |-> None, ran |-> None]

\* The function and bound a future of run_async was created with, what it awaits,
\* and its `resume_val`.
NoTask == [on |-> FALSE, func |-> None, bound |-> FALSE, awaits |-> None, val |-> FALSE]

Unstarted == IF HasStart THEN "NotStarted" ELSE "Ready"

\* new_instance_handle ends with a reset.
Init ==
    /\ state = Unstarted
    /\ asyncContext = FALSE
    /\ expecting = None
    /\ fatal = FALSE
    /\ entrypoint = None
    /\ resumedVal = None
    /\ bounded = FALSE
    /\ frame = NoFrame
    /\ pc = "host"
    /\ call = NoCall
    /\ task = NoTask
    /\ future = None
    /\ result = NoResult
    /\ settled = ~HasStart

-----------------------------------------------------------------------------

\* An API call ends.  A future that is ready, or has panicked, is not polled again.
Outcome(c, kind, ran) == [api |-> c.api, kind |-> kind, func |-> c.func, ran |-> ran]

Refuse(c, kind) ==
    /\ result' = Outcome(c, kind, None)
    /\ pc' = "host"
    /\ call' = NoCall
    /\ task' = NoTask
    /\ UNCHANGED <<instVars, frame, settled>>

\* swap_and_return's error path: with_current_instance or with_signals_on failed.
StateAlwaysReady(f) == "Ready"
StateOnError(f) == IF f = Start THEN "NotStarted" ELSE "Ready"

\* The first half of swap_and_return: switch to the guest's stack `fr`, for the
\* call `c` on behalf of the future `tk`.
SwapIn(c, f, fr, inAsync, bound, tk) ==
    /\ entrypoint' = f
    /\ bounded' = bound
    /\ asyncContext' = inAsync
    /\ \/ /\ state' = "Running"
          /\ frame' = fr
          /\ pc' = "guest"
          /\ call' = c
          /\ task' = tk
          /\ result' = NoResult
       \/ /\ SetupFails
          /\ state' = StateOnError(f)
          /\ frame' = NoFrame
          /\ pc' = "host"
          /\ call' = NoCall
          /\ task' = NoTask
          /\ result' = Outcome(c, "setup error", None)
    /\ UNCHANGED <<expecting, fatal, settled>>

\* Instance::run_func's conditions.
NeedsStart(f) == state = "NotStarted" /\ f # Start
Runnable(f) ==
    \/ state = "Ready"
    \/ state = "NotStarted" /\ f = Start
    \/ state = "Faulted" /\ ~fatal

RunFunc(c, f, inAsync, bound, tk) ==
    \/ NeedsStart(f) /\ Refuse(c, "needs start")
    \/ ~NeedsStart(f) /\ ~Runnable(f) /\ Refuse(c, "invalid argument")
    \/ /\ Runnable(f)
       /\ SwapIn(c, f, [func |-> f, at |-> "running", waits |-> None], inAsync, bound, tk)
       /\ UNCHANGED resumedVal

\* Instance::resume_with_val_impl: the value is typechecked, and the slice gets the
\* bound of this call, or none.
SliceBoundKept(bound) == bounded
SliceBound(bound) == bound

AcceptsAny(type) == state = "Yielded"
Accepts(type) == state = "Yielded" /\ expecting = type

ResumeWithVal(c, type, inAsync, bound, tk) ==
    \/ ~Accepts(type) /\ Refuse(c, "invalid argument")
    \/ /\ Accepts(type)
       /\ resumedVal' = type
       /\ SwapIn(c, entrypoint, frame, inAsync, SliceBound(bound), tk)

\* Instance::resume_bounded, in a state that is BoundExpired.
WhereItGoesOn == [frame EXCEPT !.at = "running"]

ResumeBounded(c, tk) ==
    /\ SwapIn(c, entrypoint, WhereItGoesOn, TRUE, TRUE, tk)
    /\ UNCHANGED resumedVal

-----------------------------------------------------------------------------
(* The embedder.  A future of run_async borrows the instance: while there is *)
(* one, it can only be polled or dropped.                                    *)

Idle == pc = "host" /\ ~task.on

\* Instance::run and run_func_idx
Run(f) ==
    /\ Idle
    /\ RunFunc([api |-> "run", func |-> f], f, FALSE, FALSE, NoTask)
    /\ UNCHANGED future

\* Instance::run_start
RunStart ==
    LET c == [api |-> "run_start", func |-> Start] IN
    /\ Idle
    /\ \/ state # "NotStarted" /\ Refuse(c, IF HasStart THEN "start already run" ELSE "ok")
       \/ state = "NotStarted" /\ RunFunc(c, Start, FALSE, FALSE, NoTask)
    /\ UNCHANGED future

\* Instance::resume and resume_with_val
Resume(type) ==
    /\ Idle
    /\ ResumeWithVal([api |-> "resume", func |-> entrypoint], type, FALSE, FALSE, NoTask)
    /\ UNCHANGED future

\* Instance::reset.  What it does to the heap is in MmapRegion, what it does to the
\* KillState in KillSwitch.
Reset ==
    /\ Idle
    /\ state' = Unstarted
    /\ frame' = NoFrame
    /\ settled' = ~HasStart
    /\ result' = Outcome([api |-> "reset", func |-> None], "ok", None)
    /\ UNCHANGED <<asyncContext, expecting, fatal, entrypoint, resumedVal, bounded,
                   pc, call, task, future>>

\* The loop of run_async_internal, from its head to the next switch to the guest,
\* for a future with the fields `tk`.
Iterate(c, tk) ==
    \/ /\ state = "Yielded"
       /\ IF tk.val THEN ResumeWithVal(c, ResumeVal, TRUE, tk.bound, [tk EXCEPT !.val = FALSE])
          ELSE Refuse(c, "panic: no resume value")
    \/ /\ state = "BoundExpired"
       /\ IF tk.bound THEN ResumeBounded(c, tk) ELSE Refuse(c, "panic: no bound")
    \/ /\ state \notin {"Yielded", "BoundExpired"}
       /\ RunFunc(c, tk.func, TRUE, tk.bound, tk)

\* run_async_internal's refusal of a yielded instance.
IsYielded == state = "Yielded"

\* The first poll of run_async_internal.
RunAsyncInternal(c, bound) ==
    \/ IsYielded /\ Refuse(c, "unsupported")
    \/ /\ ~IsYielded
       /\ Iterate(c, [NoTask EXCEPT !.on = TRUE, !.func = c.func, !.bound = bound])

\* InstanceHandle::run_async
RunAsync(f, bound) ==
    /\ Idle
    /\ RunAsyncInternal([api |-> "run_async", func |-> f], bound)
    /\ UNCHANGED future

\* InstanceHandle::run_async_start
RunAsyncStart(bound) ==
    LET c == [api |-> "run_async_start", func |-> Start] IN
    /\ Idle
    /\ \/ state # "NotStarted" /\ Refuse(c, "start already run")
       \/ state = "NotStarted" /\ RunAsyncInternal(c, bound)
    /\ UNCHANGED future

\* The executor polls the future, and what it awaits is ready: the future given to
\* block_on, or YieldNow at its second poll.
Poll ==
    LET c == [api |-> IF task.func = Start THEN "run_async_start" ELSE "run_async",
              func |-> task.func]
    IN
    /\ pc = "host" /\ task.on
    /\ \/ /\ task.awaits = "future"
          /\ future' = None
          /\ Iterate(c, [task EXCEPT !.val = TRUE, !.awaits = None])
       \/ /\ task.awaits = "turn"
          /\ UNCHANGED future
          /\ Iterate(c, [task EXCEPT !.awaits = None])

\* The embedder drops the future of run_async, and with it the one it awaits.
DropFuture ==
    /\ DropsFuture
    /\ pc = "host" /\ task.on
    /\ task' = NoTask
    /\ future' = None
    /\ UNCHANGED <<instVars, frame, pc, call, result, settled>>

-----------------------------------------------------------------------------
(* The guest.                                                              *)

Executing == pc = "guest" /\ frame.at = "running"

\* Switch to the host with the instance in state `s` and the stack in `fr`.
SwapOut(s, fr) ==
    /\ state' = s
    /\ frame' = fr
    /\ pc' = "back"
    /\ UNCHANGED <<asyncContext, entrypoint, resumedVal, bounded, call, task, result>>

\* The end of yield_val_expecting_val or of block_on: take_resumed_val, which
\* terminates the instance if the value is missing or has another type.
TakeResumedVal ==
    LET taken == resumedVal = frame.waits IN
    /\ pc = "guest" /\ frame.at = "yield"
    /\ resumedVal' = IF taken THEN None ELSE resumedVal
    /\ frame' = IF taken THEN [frame EXCEPT !.at = "running", !.waits = None] ELSE NoFrame
    /\ state' = IF taken THEN state ELSE "Terminating"
    /\ pc' = IF taken THEN pc ELSE "back"
    /\ UNCHANGED <<asyncContext, expecting, fatal, entrypoint, bounded, call, task,
                   future, result, settled>>

\* The entrypoint returns.
GuestReturns ==
    /\ Executing
    /\ SwapOut("Running", [frame EXCEPT !.at = "returned"])
    /\ settled' = (settled \/ frame.func = Start)
    /\ UNCHANGED <<expecting, fatal, future>>

\* Vmctx::yield_ and its relatives: yield_impl with a type to resume with.
GuestYields(type) ==
    /\ Executing
    /\ SwapOut("Yielding", [frame EXCEPT !.at = "yield", !.waits = type])
    /\ expecting' = type
    /\ UNCHANGED <<fatal, future, settled>>

\* Vmctx::block_on outside of run_async terminates the instance.
MayAlwaysBlock == TRUE
MayBlock == asyncContext

GuestBlocks ==
    /\ Executing
    /\ \/ /\ MayBlock
          /\ SwapOut("Yielding", [frame EXCEPT !.at = "yield", !.waits = ResumeVal])
          /\ expecting' = ResumeVal
          /\ future' = "yielding"
       \/ /\ ~MayBlock
          /\ SwapOut("Terminating", NoFrame)
          /\ UNCHANGED <<expecting, future>>
    /\ UNCHANGED <<fatal, settled>>

\* Generated code finds the bound exceeded: yield_at_bound_expiration.
GuestExpires ==
    /\ Executing
    /\ bounded
    /\ SwapOut("BoundExpired", [frame EXCEPT !.at = "bound"])
    /\ UNCHANGED <<expecting, fatal, future, settled>>

\* A trap: the signal handler records the fault.
GuestFaults ==
    /\ Executing
    /\ fatal' \in BOOLEAN
    /\ SwapOut("Faulted", NoFrame)
    /\ settled' = (settled \/ frame.func = Start)
    /\ UNCHANGED <<expecting, future>>

\* A hostcall panics, a KillSwitch fires, or the signal handler terminates.
GuestTerminates ==
    /\ Executing
    /\ SwapOut("Terminating", NoFrame)
    /\ UNCHANGED <<expecting, fatal, future, settled>>

-----------------------------------------------------------------------------
(* The second half of swap_and_return, and what its caller does with the     *)
(* result: the embedder's call returns, or run_async_internal goes on.       *)

FutureFrom(s) == s = "Yielding" /\ future = "yielding"

\* run_async_internal awaits.
Await(s, what) ==
    /\ state' = s
    /\ pc' = "host"
    /\ call' = NoCall
    /\ task' = [task EXCEPT !.awaits = what]
    /\ future' = IF what = "future" THEN "task" ELSE future
    /\ UNCHANGED <<frame, result>>

\* The call returns.  run_start looks for errors only.
Return(s, kind) ==
    /\ state' = s
    /\ pc' = "host"
    /\ call' = NoCall
    /\ task' = NoTask
    /\ frame' = IF s \in {"Yielded", "BoundExpired"} THEN frame ELSE NoFrame
    /\ future' = IF FutureFrom(state) THEN "embedder" ELSE future
    /\ result' = Outcome(call,
                         IF call.api = "run_start" /\ kind \in {"returned", "yielded", "panic: bound"}
                         THEN "ok" ELSE kind,
                         IF kind = "returned" THEN frame.func ELSE None)

\* When addr_details fails, the state that was taken out is not put back, and no fatal
\* handler is called.
SwapBack ==
    /\ pc = "back"
    /\ \/ state = "Running" /\ Return("Ready", "returned")
       \/ state = "Terminating" /\ Return("Terminated", "terminated")
       \/ state = "Faulted" /\ Return("Faulted", IF fatal THEN "panic: fatal" ELSE "fault")
       \/ state = "Faulted" /\ NamesFail /\ Return("Transitioning", "details error")
       \/ state = "Yielding" /\ ~task.on /\ Return("Yielded", "yielded")
       \/ state = "Yielding" /\ task.on /\ FutureFrom(state) /\ Await("Yielded", "future")
       \/ state = "Yielding" /\ task.on /\ ~FutureFrom(state) /\ Return("Yielded", "unsupported")
       \/ /\ state = "BoundExpired"
          /\ IF task.on THEN Await("BoundExpired", "turn")
             ELSE Return("BoundExpired", "panic: bound")
    /\ UNCHANGED <<asyncContext, expecting, fatal, entrypoint, resumedVal, bounded, settled>>

Next ==
    \/ \E f \in Functions : Run(f)
    \/ RunStart
    \/ \E type \in Types : Resume(type)
    \/ Reset
    \/ \E f \in Functions, bound \in BOOLEAN : RunAsync(f, bound)
    \/ \E bound \in BOOLEAN : RunAsyncStart(bound)
    \/ Poll
    \/ DropFuture
    \/ TakeResumedVal
    \/ GuestReturns
    \/ \E type \in Types : GuestYields(type)
    \/ GuestBlocks
    \/ GuestExpires
    \/ GuestFaults
    \/ GuestTerminates
    \/ SwapBack

Spec == Init /\ [][Next]_vars

-----------------------------------------------------------------------------

Resting == {"NotStarted", "Ready", "Faulted", "Terminated", "Yielded", "BoundExpired"}

\* A resumed guest finds a value of the type it waits for: take_resumed_val never
\* terminates with YieldTypeMismatch.
TakesWhatItAwaits ==
    pc = "guest" /\ frame.at = "yield" => resumedVal = frame.waits

\* A future given to block_on borrows from the guest's stack.  Whoever holds it, the
\* stack stays frozen in that very block_on until the future is gone: this is what
\* makes block_on's extension of its lifetime sound.
FutureIsFrozen ==
    future # None => state \in {"Yielding", "Yielded"} /\ frame.waits = ResumeVal

\* An exported function runs only after the start function has run to an end, however
\* the calls before it failed, were resumed or were abandoned.
StartRunsFirst ==
    pc = "guest" /\ frame.func # Start => settled

\* What the code expects.  The embedder finds a state that only swap_and_return should see
\* in one case, Transitioning after a fault whose addr_details failed: then the guest's
\* stack is gone, and since that fault calls have only been refused, or found no start
\* function to run.  And the code does not panic because a synchronous call is stopped by
\* an instruction bound left over from run_async ("should not have had a runtime bound"),
\* or because run_async_internal has no value to resume with ("is_yielded implies
\* resume_value is some").
ExpectationsHold ==
    /\ pc = "host" /\ state \notin Resting =>
          /\ NamesFail /\ state = "Transitioning"
          /\ frame = NoFrame
          /\ result.kind \in {"details error", "invalid argument", "start already run", "ok"}
    /\ result.kind \notin {"panic: bound", "panic: no resume value"}

\* A call that returns a value returns that of the function it was asked to run.
RunsWhatItIsAsked ==
    result.kind = "returned" => result.ran = result.func
=============================================================================
