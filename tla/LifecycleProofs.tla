-------------------------- MODULE LifecycleProofs --------------------------
(***************************************************************************)
(* Theorems about Lifecycle, Vmctx and CApi, for any functions and types,  *)
(* any depth of hostcalls and callbacks, any heap size and any number of   *)
(* borrows.                                                                *)
(*                                                                         *)
(* Every step of Vmctx is a step of Lifecycle or leaves its variables      *)
(* alone, so that what is proved of Lifecycle holds of Vmctx as well.      *)
(***************************************************************************)
EXTENDS CApi, SequenceTheorems, FiniteSetTheorems, TLAPS

-----------------------------------------------------------------------------
(* The inductive invariant of Lifecycle.                                   *)

Funcs == Functions \cup {Start, None}
Waits == Types \cup {ResumeVal, None}
States == Resting \cup {"Transitioning", "Running", "Yielding", "Terminating"}
Frame == [func : Funcs, at : {"gone", "running", "yield", "returned", "bound"},
          waits : Waits]
Task == [on : BOOLEAN, func : Funcs, bound : BOOLEAN, awaits : {None, "future", "turn"},
         val : BOOLEAN]

TypeOK ==
    /\ state \in States
    /\ frame \in Frame
    /\ task \in Task
    /\ pc \in {"host", "guest", "back"}
    /\ asyncContext \in BOOLEAN /\ bounded \in BOOLEAN /\ fatal \in BOOLEAN
    /\ settled \in BOOLEAN
    /\ entrypoint \in Funcs
    /\ expecting \in Waits /\ resumedVal \in Waits
    /\ future \in {None, "yielding", "task"}

\* Where the guest's stack stands, as the state and the one who runs tell.
HostStackInv ==
    pc = "host" =>
        /\ state \in Resting \/ (state = "Transitioning" /\ NamesFail = TRUE)
        /\ state = "Yielded" => frame.at = "yield" /\ frame.waits = expecting
        /\ state = "BoundExpired" => frame.at = "bound"
        /\ state \notin {"Yielded", "BoundExpired"} => frame = NoFrame

GuestStackInv ==
    pc = "guest" =>
        /\ state = "Running"
        /\ frame.at \in {"running", "yield"}
        /\ frame.at = "yield" => resumedVal = frame.waits

BackStackInv ==
    pc = "back" =>
        /\ state \in {"Running", "Yielding", "BoundExpired", "Faulted", "Terminating"}
        /\ state = "Running" => frame.at = "returned" /\ settled = TRUE
        /\ state = "Yielding" => frame.at = "yield" /\ frame.waits = expecting
        /\ state = "BoundExpired" => frame.at = "bound" /\ bounded = TRUE
        /\ state \in {"Faulted", "Terminating"} => frame = NoFrame

\* A bound and an async context are run_async's; while its future waits, it waits for
\* what the guest was suspended for; and the future of a block_on is only ever passed
\* from the guest to the one that polls it.
TaskInv ==
    /\ pc # "host" /\ (bounded = TRUE \/ asyncContext = TRUE) => task.on = TRUE
    /\ pc = "host" /\ task.on = TRUE =>
          \/ task.awaits = "future" /\ state = "Yielded" /\ future = "task"
          \/ task.awaits = "turn" /\ state = "BoundExpired" /\ future = None
    /\ future = "task" =>
          pc = "host" /\ task.on = TRUE /\ state = "Yielded" /\ expecting = ResumeVal
    /\ future = "yielding" =>
          pc = "back" /\ task.on = TRUE /\ state = "Yielding" /\ expecting = ResumeVal

\* A function has a stack, or the instance is ready for one, only after the start function.
StartInv ==
    /\ frame.at # "gone" => entrypoint = frame.func
    /\ frame.at # "gone" /\ frame.func # Start => settled = TRUE
    /\ frame.at = "gone" => frame = NoFrame
    /\ state \in {"Ready", "Faulted"} => settled = TRUE

\* A call that failed has failed for a reason that is still there; the state that a fault
\* without details leaves is not run in; and the future's refusals are not run's.
ErrorInv ==
    /\ result.kind = "needs start" => state = "NotStarted"
    /\ result.kind = "invalid argument" /\ result.api = "run" => ~Runnable(result.func)
    /\ result.kind = "setup error" => state \in {"NotStarted", "Ready"}
    /\ result.kind = "details error" => state = "Transitioning"
    /\ pc = "host" /\ state = "Transitioning" =>
          result.kind \in {"details error", "invalid argument", "start already run", "ok"}
    /\ result.kind \in {"start already run", "unsupported"} =>
          result.api \notin {"run", "resume"}
    /\ pc # "host" /\ task.on = TRUE => call.api \notin {"run", "resume"}

\* What the last call came to is still so.
ResultInv ==
    /\ pc # "host" => result = NoResult
    /\ result.kind \notin {"panic: bound", "panic: no resume value"}
    /\ result.kind = "ok" => result.api \notin {"run", "resume"}
    /\ result.kind = "returned" => state = "Ready"
    /\ result.kind = "yielded" => state = "Yielded"
    /\ result.kind = "fault" => state = "Faulted" /\ fatal = FALSE
    /\ result.kind = "terminated" => state = "Terminated"
    /\ ErrorInv

LifeInv ==
    /\ TypeOK
    /\ HostStackInv /\ GuestStackInv /\ BackStackInv
    /\ TaskInv
    /\ StartInv
    /\ ResultInv

-----------------------------------------------------------------------------
(* The inductive invariant of Vmctx.                                       *)

Holds == {"free", "shared", "mut"}
Hostcall == [heap : Holds, globals : Holds, ctx : Holds, view : Nat,
             back : SUBSET {"heap", "ctx"}, stale : BOOLEAN, gone : BOOLEAN]

CallTypeOK ==
    /\ calls \in Seq(Hostcall)
    /\ inHost \in BOOLEAN /\ abandoned \in BOOLEAN
    /\ heapLen \in Nat
    /\ ctx \in [present : BOOLEAN, borrows : Int]

\* There are hostcalls only on the stack of a guest; a guest that yielded or blocked
\* stands in one, a guest whose bound expired does not.
StandInv ==
    /\ frame.at = "gone" => calls = <<>>
    /\ inHost = TRUE => calls # <<>>
    /\ frame.at = "yield" => inHost = TRUE
    /\ frame.at = "bound" => inHost = FALSE
    /\ frame.at = "gone" => inHost = FALSE

\* What a hostcall refers to it has taken before it last called back.
Backed(h) ==
    /\ h.heap # "free" => "heap" \in h.back
    /\ h.ctx # "free" => "ctx" \in h.back

\* Every hostcall but the one that runs has called back with all that it holds, and the
\* one that yielded holds nothing.
CallInv ==
    \A i \in DOMAIN calls :
        /\ calls[i].stale = TRUE => calls[i].heap # "free"
        /\ calls[i].gone = TRUE => calls[i].ctx # "free"
        /\ i # Len(calls) \/ inHost = FALSE => Backed(calls[i])
        /\ frame.at = "yield" /\ frame.waits # ResumeVal => Backed(calls[i])

\* A guest that blocked and whose future is gone can never be resumed.
Lost == state = "Yielded" /\ expecting = ResumeVal /\ task.on = FALSE

RefsInv ==
    ~Lost =>
        \A i \in DOMAIN calls :
            /\ calls[i].stale = TRUE => "heap" \in calls[i].back
            /\ calls[i].gone = TRUE => "ctx" \in calls[i].back

\* The hostcalls that hold the embedder context, and its RefCell: the borrows are theirs,
\* and those of hostcalls that were given up.
Holders(cs, mode) == {i \in DOMAIN cs : cs[i].ctx = mode /\ cs[i].gone = FALSE}

Counted(muts, shares, n, given) ==
    /\ \A i \in muts : n = -1 /\ muts = {i}
    /\ n = -1 => shares = {}
    /\ n # -1 => n >= Cardinality(shares)
    /\ given = FALSE /\ muts = {} => n = Cardinality(shares)

BorrowInv ==
    Counted(Holders(calls, "mut"), Holders(calls, "shared"), ctx.borrows, abandoned)

\* A terminated guest has left a reason.
Reasons == {RustReasons[n] : n \in DOMAIN RustReasons}
DetailsInv == state \in {"Terminating", "Terminated"} => details.kind \in Reasons

IndInv ==
    /\ LifeInv
    /\ CallTypeOK /\ StandInv /\ CallInv /\ RefsInv /\ BorrowInv /\ DetailsInv

-----------------------------------------------------------------------------
(* Lifecycle: the calls of the embedder.                                   *)

USE LifecycleAssumption
USE DEF None, Start, ResumeVal, NoCall, NoResult, Resting

\* The constant records are of the types of the variables.
LEMMA Constants ==
    /\ NoFrame \in Frame /\ NoFrame.at = "gone" /\ NoFrame.waits = None
    /\ NoTask \in Task /\ NoTask.on = FALSE /\ NoTask.val = FALSE
  BY DEF NoFrame, Frame, NoTask, Task, Funcs, Waits

\* A call that is refused changes nothing of the instance.
LEMMA Refused ==
    ASSUME LifeInv, pc = "host", NEW c, NEW kind, Refuse(c, kind), future' = None,
           kind \in {"needs start", "invalid argument", "start already run", "ok",
                     "unsupported", "panic: no bound"},
           kind \in {"start already run", "ok", "unsupported"} =>
              c.api \notin {"run", "resume"},
           kind = "needs start" => state = "NotStarted",
           kind = "invalid argument" /\ c.api = "run" => ~Runnable(c.func),
           kind \in {"unsupported", "panic: no bound"} => state # "Transitioning"
    PROVE  LifeInv'
  <1>1. /\ result'.kind = kind /\ result'.api = c.api /\ result'.func = c.func
        /\ pc' = "host" /\ task' = NoTask
        /\ state' = state /\ asyncContext' = asyncContext /\ expecting' = expecting
        /\ fatal' = fatal /\ entrypoint' = entrypoint /\ resumedVal' = resumedVal
        /\ bounded' = bounded /\ frame' = frame /\ settled' = settled
    BY DEF Refuse, Outcome, instVars
  <1>2. TypeOK'
    BY <1>1, Constants DEF LifeInv, TypeOK
  <1>3. HostStackInv' /\ GuestStackInv' /\ BackStackInv'
    BY <1>1 DEF LifeInv, HostStackInv, GuestStackInv, BackStackInv
  <1>4. TaskInv'
    BY <1>1, Constants DEF TaskInv
  <1>5. StartInv'
    BY <1>1 DEF LifeInv, StartInv
  <1>6. kind = "invalid argument" /\ c.api = "run" => ~Runnable(c.func)'
    BY <1>1 DEF Runnable
  <1>7. ErrorInv'
    BY <1>1, <1>6 DEF ErrorInv, Runnable
  <1>8. ResultInv'
    BY <1>1, <1>7 DEF ResultInv
  <1> QED
    BY <1>2, <1>3, <1>4, <1>5, <1>8 DEF LifeInv

\* A switch to the guest, or one that fails: a stack with its entrypoint, for a function
\* that may run, and a bound or an async context only on behalf of a future.
LEMMA SwappedIn ==
    ASSUME LifeInv, pc = "host", NEW c, NEW f \in Funcs, NEW fr \in Frame,
           NEW inAsync \in BOOLEAN, NEW bound \in BOOLEAN, NEW tk \in Task,
           SwapIn(c, f, fr, inAsync, bound, tk), future' = None, resumedVal' \in Waits,
           inAsync = TRUE \/ bound = TRUE => tk.on = TRUE,
           tk.on = TRUE => c.api \notin {"run", "resume"},
           fr.func = f, fr.at \in {"running", "yield"},
           fr.at = "yield" => resumedVal' = fr.waits,
           f # Start => settled = TRUE
    PROVE  LifeInv'
  <1>1. /\ entrypoint' = f /\ bounded' = bound /\ asyncContext' = inAsync
        /\ expecting' = expecting /\ fatal' = fatal /\ settled' = settled
    BY DEF SwapIn
  <1>2. CASE /\ state' = "Running" /\ frame' = fr /\ pc' = "guest" /\ task' = tk
             /\ call' = c /\ result' = NoResult
    <2>1. TypeOK'
      BY <1>1, <1>2 DEF LifeInv, TypeOK, States
    <2>2. HostStackInv' /\ GuestStackInv' /\ BackStackInv'
      BY <1>2 DEF HostStackInv, GuestStackInv, BackStackInv
    <2>3. TaskInv'
      BY <1>1, <1>2 DEF TaskInv
    <2>4. StartInv'
      BY <1>1, <1>2 DEF StartInv
    <2>5. ResultInv'
      BY <1>2 DEF ResultInv, ErrorInv
    <2> QED
      BY <2>1, <2>2, <2>3, <2>4, <2>5 DEF LifeInv
  <1>3. CASE /\ state' = StateOnError(f) /\ frame' = NoFrame /\ pc' = "host"
             /\ task' = NoTask /\ result' = Outcome(c, "setup error", None)
    <2>1. state' = IF f = Start THEN "NotStarted" ELSE "Ready"
      BY <1>3 DEF StateOnError
    <2>2. TypeOK'
      BY <1>1, <1>3, <2>1, Constants DEF LifeInv, TypeOK, States
    <2>3. HostStackInv' /\ GuestStackInv' /\ BackStackInv'
      BY <1>3, <2>1 DEF HostStackInv, GuestStackInv, BackStackInv
    <2>4. TaskInv'
      BY <1>3, Constants DEF TaskInv
    <2>5. StartInv'
      BY <1>1, <1>3, <2>1, Constants DEF StartInv
    <2>6. result'.kind = "setup error"
      BY <1>3 DEF Outcome
    <2>7. ResultInv'
      BY <1>3, <2>1, <2>6 DEF ResultInv, ErrorInv
    <2> QED
      BY <2>2, <2>3, <2>4, <2>5, <2>7 DEF LifeInv
  <1> QED
    BY <1>2, <1>3 DEF SwapIn

\* run_func: an exported function finds the start function settled.
LEMMA RunFuncStep ==
    ASSUME LifeInv, pc = "host", NEW c, NEW f \in Funcs, NEW inAsync \in BOOLEAN,
           NEW bound \in BOOLEAN, NEW tk \in Task, RunFunc(c, f, inAsync, bound, tk),
           future' = None, inAsync = TRUE \/ bound = TRUE => tk.on = TRUE,
           tk.on = TRUE => c.api \notin {"run", "resume"}, c.api = "run" => c.func = f
    PROVE  LifeInv'
  <1>1. CASE NeedsStart(f) /\ Refuse(c, "needs start")
    BY <1>1, Refused DEF NeedsStart
  <1>2. CASE ~Runnable(f) /\ Refuse(c, "invalid argument")
    BY <1>2, Refused
  <1>3. CASE Runnable(f) /\ UNCHANGED resumedVal
             /\ SwapIn(c, f, [func |-> f, at |-> "running", waits |-> None], inAsync,
                       bound, tk)
    <2> DEFINE fr == [func |-> f, at |-> "running", waits |-> None]
    <2>1. fr \in Frame /\ fr.func = f /\ fr.at = "running"
      BY DEF Frame, Waits
    <2>2. f # Start => settled = TRUE
      BY <1>3 DEF Runnable, LifeInv, StartInv
    <2>3. resumedVal' \in Waits
      BY <1>3 DEF LifeInv, TypeOK
    <2>4. SwapIn(c, f, fr, inAsync, bound, tk)
      BY <1>3
    <2> HIDE DEF fr
    <2> QED
      BY <2>1, <2>2, <2>3, <2>4, SwappedIn
  <1> QED
    BY <1>1, <1>2, <1>3 DEF RunFunc

\* resume_with_val_impl: the guest is resumed with what it expects.
LEMMA ResumeWithValStep ==
    ASSUME LifeInv, pc = "host", NEW c, NEW type \in Waits, NEW inAsync \in BOOLEAN,
           NEW bound \in BOOLEAN, NEW tk \in Task,
           ResumeWithVal(c, type, inAsync, bound, tk),
           future' = None, inAsync = TRUE \/ bound = TRUE => tk.on = TRUE,
           tk.on = TRUE => c.api \notin {"run", "resume"}, c.api # "run"
    PROVE  LifeInv'
  <1>1. CASE Refuse(c, "invalid argument")
    BY <1>1, Refused
  <1>2. CASE Accepts(type) /\ resumedVal' = type
             /\ SwapIn(c, entrypoint, frame, inAsync, bound, tk)
    <2>1. /\ frame.at = "yield" /\ frame.waits = type
          /\ frame \in Frame /\ entrypoint \in Funcs
      BY <1>2 DEF Accepts, LifeInv, TypeOK, HostStackInv
    <2>2. frame.func = entrypoint /\ (entrypoint # Start => settled = TRUE)
      BY <2>1 DEF LifeInv, StartInv
    <2> QED
      BY <1>2, <2>1, <2>2, SwappedIn
  <1> QED
    BY <1>1, <1>2 DEF ResumeWithVal, SliceBound

\* resume_bounded: the guest goes on where its bound expired.
LEMMA ResumeBoundedStep ==
    ASSUME LifeInv, pc = "host", state = "BoundExpired", NEW c, NEW tk \in Task,
           tk.on = TRUE, ResumeBounded(c, tk), future' = None,
           c.api \notin {"run", "resume"}
    PROVE  LifeInv'
  <1> DEFINE fr == WhereItGoesOn
  <1>1. frame.at = "bound" /\ frame \in Frame /\ entrypoint \in Funcs
    BY DEF LifeInv, TypeOK, HostStackInv
  <1>2. fr \in Frame /\ fr.at = "running" /\ fr.func = frame.func
    BY <1>1 DEF WhereItGoesOn, Frame
  <1>3. frame.func = entrypoint /\ (entrypoint # Start => settled = TRUE)
    BY <1>1 DEF LifeInv, StartInv
  <1>4. SwapIn(c, entrypoint, fr, TRUE, TRUE, tk) /\ resumedVal' \in Waits
    BY DEF ResumeBounded, LifeInv, TypeOK
  <1> HIDE DEF fr
  <1> QED
    BY <1>1, <1>2, <1>3, <1>4, SwappedIn

\* run_async_internal's loop, in a future that has a value to resume a yielded guest with.
LEMMA IterateStep ==
    ASSUME LifeInv, pc = "host", NEW c, NEW tk \in Task, tk.on = TRUE,
           state = "Yielded" => tk.val = TRUE, Iterate(c, tk), future' = None,
           c.api \notin {"run", "resume"}
    PROVE  LifeInv'
  <1>1. /\ tk.func \in Funcs /\ tk.bound \in BOOLEAN
        /\ [tk EXCEPT !.val = FALSE] \in Task /\ [tk EXCEPT !.val = FALSE].on = TRUE
    BY DEF Task
  <1>2. CASE state = "Yielded"
    <2>1. ResumeWithVal(c, ResumeVal, TRUE, tk.bound, [tk EXCEPT !.val = FALSE])
      BY <1>2 DEF Iterate
    <2>2. ResumeVal \in Waits
      BY DEF Waits
    <2> QED
      BY <1>1, <2>1, <2>2, ResumeWithValStep
  <1>3. CASE state = "BoundExpired"
    <2>1. CASE tk.bound = TRUE
      BY <1>3, <2>1, ResumeBoundedStep DEF Iterate
    <2>2. CASE tk.bound = FALSE
      <3>1. Refuse(c, "panic: no bound")
        BY <1>3, <2>2 DEF Iterate
      <3> QED
        BY <1>3, <3>1, Refused
    <2> QED
      BY <1>1, <2>1, <2>2
  <1>4. CASE state \notin {"Yielded", "BoundExpired"}
    <2>1. RunFunc(c, tk.func, TRUE, tk.bound, tk)
      BY <1>4 DEF Iterate
    <2> QED
      BY <1>1, <2>1, RunFuncStep
  <1> QED
    BY <1>2, <1>3, <1>4

\* An idle embedder holds no future.
LEMMA IdleHoldsNone == LifeInv /\ Idle => pc = "host" /\ task.on = FALSE /\ future = None
  BY DEF Idle, LifeInv, TypeOK, TaskInv, Task

\* run_async_internal makes its task and goes through its loop once.
LEMMA RunAsyncInternalStep ==
    ASSUME LifeInv, Idle, NEW c, c.func \in Funcs, NEW bound \in BOOLEAN,
           RunAsyncInternal(c, bound), UNCHANGED future, c.api \notin {"run", "resume"}
    PROVE  LifeInv'
  <1>1. pc = "host" /\ future' = None
    BY IdleHoldsNone
  <1> DEFINE tk == [NoTask EXCEPT !.on = TRUE, !.func = c.func, !.bound = bound]
  <1>2. tk \in Task /\ tk.on = TRUE
    BY Constants DEF Task
  <1>3. CASE IsYielded /\ Refuse(c, "unsupported")
    BY <1>1, <1>3, Refused DEF IsYielded
  <1>4. CASE ~IsYielded /\ Iterate(c, tk)
    <2> HIDE DEF tk
    <2> QED
      BY <1>1, <1>2, <1>4, IterateStep DEF IsYielded
  <1> QED
    BY <1>3, <1>4 DEF RunAsyncInternal

\* The calls of the embedder.
LEMMA EmbedderStep ==
    ASSUME LifeInv,
           \/ \E f \in Functions : Run(f)
           \/ RunStart
           \/ \E type \in Types : Resume(type)
           \/ \E f \in Functions, bound \in BOOLEAN : RunAsync(f, bound)
           \/ \E bound \in BOOLEAN : RunAsyncStart(bound)
    PROVE  LifeInv'
  <1>1. Start \in Funcs /\ Functions \subseteq Funcs /\ Types \subseteq Waits
        /\ entrypoint \in Funcs
    BY DEF Funcs, Waits, LifeInv, TypeOK
  <1>2. ASSUME NEW f \in Functions, Run(f) PROVE LifeInv'
    <2>1. pc = "host" /\ future' = None
      BY <1>2, IdleHoldsNone DEF Run
    <2>2. PICK c : /\ c.api = "run" /\ c.func = f
                   /\ RunFunc(c, f, FALSE, FALSE, NoTask)
      BY <1>2 DEF Run
    <2> QED
      BY <1>1, <2>1, <2>2, Constants, RunFuncStep
  <1>3. ASSUME RunStart PROVE LifeInv'
    <2> DEFINE c == [api |-> "run_start", func |-> Start]
    <2>1. pc = "host" /\ future' = None
      BY <1>3, IdleHoldsNone DEF RunStart
    <2>2. c.api = "run_start"
      OBVIOUS
    <2>3. CASE Refuse(c, IF HasStart THEN "start already run" ELSE "ok")
      <3> HIDE DEF c
      <3>1. Refuse(c, "start already run") \/ Refuse(c, "ok")
        BY <2>3
      <3>2. CASE Refuse(c, "start already run")
        BY <2>1, <2>2, <3>2, Refused
      <3>3. CASE Refuse(c, "ok")
        BY <2>1, <2>2, <3>3, Refused
      <3> QED
        BY <3>1, <3>2, <3>3
    <2>4. CASE RunFunc(c, Start, FALSE, FALSE, NoTask)
      BY <1>1, <2>1, <2>4, Constants, RunFuncStep
    <2> QED
      BY <1>3, <2>3, <2>4 DEF RunStart
  <1>4. ASSUME NEW type \in Types, Resume(type) PROVE LifeInv'
    <2>1. pc = "host" /\ future' = None
      BY <1>4, IdleHoldsNone DEF Resume
    <2>2. PICK c : c.api = "resume" /\ ResumeWithVal(c, type, FALSE, FALSE, NoTask)
      BY <1>4 DEF Resume
    <2> QED
      BY <1>1, <2>1, <2>2, Constants, ResumeWithValStep
  <1>5. ASSUME NEW f \in Functions, NEW bound \in BOOLEAN, RunAsync(f, bound) PROVE LifeInv'
    <2> DEFINE c == [api |-> "run_async", func |-> f]
    <2>1. Idle /\ RunAsyncInternal(c, bound) /\ UNCHANGED future
      BY <1>5 DEF RunAsync
    <2>2. c.func \in Funcs /\ c.api = "run_async"
      BY <1>1
    <2> QED
      BY <2>1, <2>2, RunAsyncInternalStep
  <1>6. ASSUME NEW bound \in BOOLEAN, RunAsyncStart(bound) PROVE LifeInv'
    <2> DEFINE c == [api |-> "run_async_start", func |-> Start]
    <2>1. Idle /\ pc = "host" /\ future' = None /\ UNCHANGED future
      BY <1>6, IdleHoldsNone DEF RunAsyncStart
    <2>4. c.api = "run_async_start"
      OBVIOUS
    <2>2. CASE Refuse(c, "start already run")
      <3> HIDE DEF c
      <3> QED
        BY <2>1, <2>2, <2>4, Refused
    <2>3. CASE RunAsyncInternal(c, bound)
      <3>1. c.func \in Funcs
        BY <1>1
      <3> QED
        BY <2>1, <2>3, <2>4, <3>1, RunAsyncInternalStep
    <2> QED
      BY <1>6, <2>2, <2>3 DEF RunAsyncStart
  <1> QED
    BY <1>2, <1>3, <1>4, <1>5, <1>6

\* A future that is polled has what it waited for, and the value for a guest that blocked.
LEMMA PollStep ==
    ASSUME LifeInv, Poll
    PROVE  LifeInv'
  <1>1. pc = "host" /\ task.on = TRUE /\ task \in Task
    BY DEF Poll, LifeInv, TypeOK, Task
  <1>2. PICK c : /\ c.api \in {"run_async", "run_async_start"}
                 /\ \/ /\ task.awaits = "future" /\ future' = None
                       /\ Iterate(c, [task EXCEPT !.val = TRUE, !.awaits = None])
                    \/ /\ task.awaits = "turn" /\ UNCHANGED future
                       /\ Iterate(c, [task EXCEPT !.awaits = None])
    BY DEF Poll
  <1>3. CASE task.awaits = "future" /\ future' = None
             /\ Iterate(c, [task EXCEPT !.val = TRUE, !.awaits = None])
    <2> DEFINE tk == [task EXCEPT !.val = TRUE, !.awaits = None]
    <2>1. tk \in Task /\ tk.on = TRUE /\ tk.val = TRUE
      BY <1>1 DEF Task
    <2>2. Iterate(c, tk) /\ future' = None
      BY <1>3
    <2> HIDE DEF tk
    <2> QED
      BY <1>1, <1>2, <2>1, <2>2, IterateStep
  <1>4. CASE task.awaits = "turn" /\ UNCHANGED future
             /\ Iterate(c, [task EXCEPT !.awaits = None])
    <2> DEFINE tk == [task EXCEPT !.awaits = None]
    <2>1. tk \in Task /\ tk.on = TRUE
      BY <1>1 DEF Task
    <2>2. Iterate(c, tk) /\ state = "BoundExpired" /\ future' = None
      BY <1>1, <1>4 DEF LifeInv, TaskInv
    <2> HIDE DEF tk
    <2> QED
      BY <1>1, <1>2, <2>1, <2>2, IterateStep
  <1> QED
    BY <1>2, <1>3, <1>4

\* A future may be dropped wherever it is suspended.
LEMMA DropFutureStep ==
    ASSUME LifeInv, DropFuture
    PROVE  LifeInv'
  <1>1. /\ pc = "host" /\ pc' = "host" /\ task' = NoTask /\ future' = None
        /\ UNCHANGED <<state, asyncContext, expecting, fatal, entrypoint, resumedVal,
                       bounded, frame, result, settled>>
    BY DEF DropFuture, instVars
  <1>2. TypeOK'
    BY <1>1, Constants DEF LifeInv, TypeOK
  <1>3. TaskInv'
    BY <1>1, Constants DEF TaskInv
  <1>4. ErrorInv'
    BY <1>1 DEF LifeInv, ResultInv, ErrorInv, Runnable
  <1>5. ResultInv'
    BY <1>1, <1>4 DEF LifeInv, ResultInv
  <1> QED
    BY <1>1, <1>2, <1>3, <1>5 DEF LifeInv, HostStackInv, GuestStackInv, BackStackInv,
                                  StartInv

\* Instance::reset, as it is seen in the life cycle.
LEMMA LifeResetStep ==
    ASSUME LifeInv, Reset
    PROVE  LifeInv'
  <1>1. /\ pc = "host" /\ pc' = "host" /\ task' = task /\ task.on = FALSE /\ future = None
        /\ state' = (IF HasStart THEN "NotStarted" ELSE "Ready") /\ frame' = NoFrame
        /\ settled' = ~HasStart
        /\ result'.api = "reset" /\ result'.kind = "ok"
        /\ UNCHANGED <<asyncContext, expecting, fatal, entrypoint, resumedVal, bounded,
                       future>>
    BY IdleHoldsNone DEF Reset, Idle, Unstarted, Outcome
  <1>2. TypeOK'
    BY <1>1, Constants DEF LifeInv, TypeOK, States
  <1>3. HostStackInv' /\ GuestStackInv' /\ BackStackInv'
    BY <1>1 DEF HostStackInv, GuestStackInv, BackStackInv
  <1>4. TaskInv'
    BY <1>1 DEF TaskInv
  <1>5. StartInv'
    BY <1>1, Constants DEF StartInv
  <1>6. ResultInv'
    BY <1>1 DEF ResultInv, ErrorInv
  <1> QED
    BY <1>2, <1>3, <1>4, <1>5, <1>6 DEF LifeInv

-----------------------------------------------------------------------------
(* Lifecycle: the guest.                                                   *)

\* What an executing guest leaves to the host.
LEMMA SwappedOut ==
    ASSUME LifeInv, Executing, NEW s, NEW fr \in Frame, SwapOut(s, fr),
           s \in {"Running", "Yielding", "BoundExpired", "Faulted", "Terminating"},
           s = "Running" => fr.at = "returned" /\ settled' = TRUE,
           s = "Yielding" => fr.at = "yield" /\ fr.waits = expecting',
           s = "BoundExpired" => fr.at = "bound" /\ bounded = TRUE,
           s = "Faulted" => settled' = TRUE,
           s \in {"Faulted", "Terminating"} => fr = NoFrame,
           fr.at # "gone" => fr.func = frame.func, fr.at = "gone" => fr = NoFrame,
           settled = TRUE => settled' = TRUE, settled' \in BOOLEAN, fatal' \in BOOLEAN,
           expecting' \in Waits, future' \in {None, "yielding"},
           future' = "yielding" =>
              s = "Yielding" /\ expecting' = ResumeVal /\ asyncContext = TRUE
    PROVE  LifeInv'
  <1>1. /\ pc = "guest" /\ pc' = "back" /\ state' = s /\ frame' = fr
        /\ asyncContext' = asyncContext /\ entrypoint' = entrypoint
        /\ resumedVal' = resumedVal /\ bounded' = bounded
        /\ task' = task /\ call' = call /\ result' = result
    BY DEF SwapOut, Executing
  <1>2. frame.at = "running" /\ result = NoResult
    BY <1>1 DEF Executing, LifeInv, ResultInv
  <1>3. TypeOK'
    BY <1>1 DEF LifeInv, TypeOK, States
  <1>4. HostStackInv' /\ GuestStackInv' /\ BackStackInv'
    BY <1>1 DEF HostStackInv, GuestStackInv, BackStackInv
  <1>5. TaskInv'
    BY <1>1 DEF LifeInv, TaskInv
  <1>6. StartInv'
    BY <1>1, <1>2 DEF LifeInv, StartInv
  <1>7. ResultInv'
    BY <1>1, <1>2 DEF LifeInv, ResultInv, ErrorInv
  <1> QED
    BY <1>3, <1>4, <1>5, <1>6, <1>7 DEF LifeInv

\* What holds of an executing guest.
LEMMA GuestExecutes ==
    ASSUME LifeInv, Executing
    PROVE  /\ pc = "guest" /\ state = "Running" /\ future = None
           /\ frame \in Frame /\ frame.at = "running"
           /\ frame.func # Start => settled = TRUE
           /\ settled \in BOOLEAN /\ fatal \in BOOLEAN /\ expecting \in Waits
           /\ bounded \in BOOLEAN /\ asyncContext \in BOOLEAN
  BY DEF Executing, LifeInv, TypeOK, TaskInv, StartInv, GuestStackInv

\* take_resumed_val finds the value of the type that it waits for.
LEMMA TakeResumedValStep ==
    ASSUME LifeInv, TakeResumedVal
    PROVE  /\ LifeInv'
           /\ pc' = "guest" /\ state' = state /\ frame' # NoFrame
           /\ frame'.at = "running"
  <1>1. /\ pc = "guest" /\ frame.at = "yield" /\ resumedVal = frame.waits
        /\ state = "Running" /\ frame \in Frame
    BY DEF TakeResumedVal, LifeInv, TypeOK, GuestStackInv
  <1> DEFINE fr == [frame EXCEPT !.at = "running", !.waits = None]
  <1>2. /\ resumedVal' = None /\ frame' = fr
        /\ state' = state /\ pc' = pc
        /\ UNCHANGED <<asyncContext, expecting, fatal, entrypoint, bounded, call, task,
                       future, result, settled>>
    BY <1>1 DEF TakeResumedVal
  <1>3. fr \in Frame /\ fr.at = "running" /\ fr.func = frame.func
    BY <1>1 DEF Frame, Waits
  <1> HIDE DEF fr
  <1>4. TypeOK'
    BY <1>2, <1>3 DEF LifeInv, TypeOK, Waits
  <1>5. HostStackInv' /\ GuestStackInv' /\ BackStackInv'
    BY <1>1, <1>2, <1>3 DEF HostStackInv, GuestStackInv, BackStackInv
  <1>6. TaskInv'
    BY <1>2 DEF LifeInv, TaskInv
  <1>7. StartInv'
    BY <1>1, <1>2, <1>3 DEF LifeInv, StartInv
  <1>8. ResultInv'
    <2>1. result = NoResult /\ result' = NoResult /\ pc' = "guest"
      BY <1>1, <1>2 DEF LifeInv, ResultInv
    <2>2. task.on = TRUE => call.api \notin {"run", "resume"}
      BY <1>1 DEF LifeInv, ResultInv, ErrorInv
    <2>3. ErrorInv'
      BY <1>2, <2>1, <2>2 DEF ErrorInv
    <2> QED
      BY <2>1, <2>3 DEF ResultInv
  <1>9. frame' # NoFrame
    BY <1>2, <1>3, Constants
  <1> QED
    BY <1>1, <1>2, <1>3, <1>4, <1>5, <1>6, <1>7, <1>8, <1>9 DEF LifeInv

\* The ways in which a guest that executes gives way to the host.
LEMMA GuestStops ==
    ASSUME LifeInv,
           \/ GuestReturns
           \/ \E type \in Types : GuestYields(type)
           \/ GuestBlocks
           \/ GuestExpires
           \/ GuestFaults
           \/ GuestTerminates
    PROVE  LifeInv'
  <1>1. Types \subseteq Waits /\ ResumeVal \in Waits /\ Executing
    BY DEF Waits, GuestReturns, GuestYields, GuestBlocks, GuestExpires, GuestFaults,
           GuestTerminates
  <1>2. ASSUME NEW at \in {"returned", "bound"}
        PROVE  /\ [frame EXCEPT !.at = at] \in Frame
               /\ [frame EXCEPT !.at = at].at = at
               /\ [frame EXCEPT !.at = at].func = frame.func
    BY <1>1, GuestExecutes DEF Frame
  <1>3. ASSUME NEW type \in Waits
        PROVE  /\ [frame EXCEPT !.at = "yield", !.waits = type] \in Frame
               /\ [frame EXCEPT !.at = "yield", !.waits = type].at = "yield"
               /\ [frame EXCEPT !.at = "yield", !.waits = type].waits = type
               /\ [frame EXCEPT !.at = "yield", !.waits = type].func = frame.func
    BY <1>1, GuestExecutes DEF Frame
  <1>4. CASE GuestReturns
    <2>1. SwapOut("Running", [frame EXCEPT !.at = "returned"])
      BY <1>4 DEF GuestReturns
    <2>2. settled' = TRUE /\ UNCHANGED <<expecting, fatal, future>>
      BY <1>1, <1>4, GuestExecutes DEF GuestReturns
    <2> QED
      BY <1>1, <1>2, <2>1, <2>2, GuestExecutes, SwappedOut
  <1>5. ASSUME NEW type \in Types, GuestYields(type) PROVE LifeInv'
    <2>1. PICK fr \in Frame : /\ fr.at = "yield" /\ fr.waits = type /\ fr.func = frame.func
                              /\ SwapOut("Yielding", fr)
      BY <1>1, <1>3, <1>5 DEF GuestYields
    <2>2. expecting' = type /\ UNCHANGED <<fatal, future, settled>>
      BY <1>5 DEF GuestYields
    <2> QED
      BY <1>1, <2>1, <2>2, GuestExecutes, SwappedOut
  <1>6. CASE GuestBlocks
    <2>1. UNCHANGED <<fatal, settled>>
      BY <1>6 DEF GuestBlocks
    <2>2. CASE MayBlock
      <3>1. /\ expecting' = ResumeVal /\ future' = "yielding"
            /\ \E fr \in Frame :
                  /\ fr.at = "yield" /\ fr.waits = ResumeVal /\ fr.func = frame.func
                  /\ SwapOut("Yielding", fr)
        BY <1>1, <1>3, <1>6, <2>2 DEF GuestBlocks
      <3>2. asyncContext = TRUE
        BY <1>1, <2>2, GuestExecutes DEF MayBlock
      <3> QED
        BY <1>1, <2>1, <3>1, <3>2, GuestExecutes, SwappedOut
    <2>3. CASE ~MayBlock
      <3>1. SwapOut("Terminating", NoFrame) /\ UNCHANGED <<expecting, future>>
        BY <1>6, <2>3 DEF GuestBlocks
      <3> QED
        BY <1>1, <2>1, <3>1, Constants, GuestExecutes, SwappedOut
    <2> QED
      BY <2>2, <2>3
  <1>7. CASE GuestExpires
    <2>1. PICK fr \in Frame : /\ fr.at = "bound" /\ fr.func = frame.func
                              /\ SwapOut("BoundExpired", fr)
      BY <1>2, <1>7 DEF GuestExpires
    <2>2. bounded = TRUE /\ UNCHANGED <<expecting, fatal, future, settled>>
      BY <1>1, <1>7, GuestExecutes DEF GuestExpires
    <2> QED
      BY <1>1, <2>1, <2>2, GuestExecutes, SwappedOut
  <1>8. CASE GuestFaults
    <2>1. SwapOut("Faulted", NoFrame)
      BY <1>8 DEF GuestFaults
    <2>2. settled' = TRUE /\ fatal' \in BOOLEAN /\ UNCHANGED <<expecting, future>>
      BY <1>1, <1>8, GuestExecutes DEF GuestFaults
    <2> QED
      BY <1>1, <2>1, <2>2, Constants, GuestExecutes, SwappedOut
  <1>9. CASE GuestTerminates
    <2>1. SwapOut("Terminating", NoFrame) /\ UNCHANGED <<expecting, fatal, future, settled>>
      BY <1>9 DEF GuestTerminates
    <2> QED
      BY <1>1, <2>1, Constants, GuestExecutes, SwappedOut
  <1> QED
    BY <1>4, <1>5, <1>6, <1>7, <1>8, <1>9

-----------------------------------------------------------------------------
(* Lifecycle: the return to the host, and the invariant.                   *)

\* The call returns.
LEMMA Returned ==
    ASSUME LifeInv, pc = "back", NEW s \in Resting \cup {"Transitioning"}, NEW kind,
           Return(s, kind), future' = None,
           UNCHANGED <<asyncContext, expecting, fatal, entrypoint, resumedVal, bounded,
                       settled>>,
           kind \in {"returned", "yielded", "fault", "terminated", "panic: fatal",
                     "unsupported", "details error"},
           kind = "unsupported" => task.on = TRUE,
           s = "Transitioning" <=> kind = "details error",
           s = "Transitioning" => NamesFail = TRUE,
           s = "Yielded" => state = "Yielding", s # "BoundExpired",
           s \in {"Ready", "Faulted"} => settled = TRUE,
           kind = "returned" => s = "Ready", kind = "yielded" => s = "Yielded",
           kind = "fault" => s = "Faulted" /\ fatal = FALSE,
           kind = "terminated" => s = "Terminated"
    PROVE  LifeInv'
  <1>1. /\ state' = s /\ pc' = "host" /\ task' = NoTask
        /\ frame' = IF s = "Yielded" THEN frame ELSE NoFrame
    BY DEF Return
  <1>2. /\ result'.kind \in {kind, "ok"}
        /\ result'.kind = "ok" => result'.api = "run_start" /\ kind # "details error"
        /\ result'.api = call.api
    BY DEF Return, Outcome
  <1>0. kind = "unsupported" => call.api \notin {"run", "resume"}
    BY DEF LifeInv, ResultInv, ErrorInv
  <1>3. TypeOK'
    BY <1>1, Constants DEF LifeInv, TypeOK, States
  <1>4. HostStackInv' /\ GuestStackInv' /\ BackStackInv'
    BY <1>1 DEF LifeInv, HostStackInv, GuestStackInv, BackStackInv
  <1>5. TaskInv'
    BY <1>1, Constants DEF TaskInv
  <1>6. StartInv'
    BY <1>1, Constants DEF LifeInv, StartInv
  <1>7. ResultInv'
    BY <1>0, <1>1, <1>2 DEF ResultInv, ErrorInv
  <1> QED
    BY <1>3, <1>4, <1>5, <1>6, <1>7 DEF LifeInv

\* run_async_internal waits for what the guest was suspended for.
LEMMA Awaited ==
    ASSUME LifeInv, pc = "back", task.on = TRUE,
           NEW s \in {"Yielded", "BoundExpired"}, NEW what, Await(s, what),
           UNCHANGED <<asyncContext, expecting, fatal, entrypoint, resumedVal, bounded,
                       settled>>,
           s = "Yielded" => what = "future" /\ state = "Yielding" /\ future = "yielding",
           s = "BoundExpired" => what = "turn" /\ state = "BoundExpired"
    PROVE  LifeInv'
  <1>1. /\ state' = s /\ pc' = "host" /\ frame' = frame /\ result' = result
        /\ task' = [task EXCEPT !.awaits = what]
        /\ future' = IF what = "future" THEN "task" ELSE future
    BY DEF Await
  <1>2. task' \in Task /\ task'.on = TRUE /\ task'.awaits = what
    BY <1>1 DEF LifeInv, TypeOK, Task
  <1>3. TypeOK'
    BY <1>1, <1>2 DEF LifeInv, TypeOK, States
  <1>4. HostStackInv' /\ GuestStackInv' /\ BackStackInv'
    BY <1>1 DEF LifeInv, HostStackInv, GuestStackInv, BackStackInv
  <1>5. TaskInv'
    BY <1>1, <1>2 DEF LifeInv, TaskInv, TypeOK
  <1>6. StartInv'
    BY <1>1 DEF LifeInv, StartInv
  <1>7. ResultInv'
    <2>1. result' = NoResult
      BY <1>1 DEF LifeInv, ResultInv
    <2> QED
      BY <1>1, <2>1 DEF ResultInv, ErrorInv
  <1> QED
    BY <1>3, <1>4, <1>5, <1>6, <1>7 DEF LifeInv

\* Back on the host, swap_and_return or the future takes the state that was left.
LEMMA SwapBackStep ==
    ASSUME LifeInv, SwapBack
    PROVE  LifeInv'
  <1>1. /\ pc = "back"
        /\ UNCHANGED <<asyncContext, expecting, fatal, entrypoint, resumedVal, bounded,
                       settled>>
    BY DEF SwapBack
  <1>2. /\ future \in {None, "yielding"} /\ task.on \in BOOLEAN /\ fatal \in BOOLEAN
        /\ future = "yielding" <=> FutureFrom(state)
        /\ state # "Yielding" => future = None
        /\ task.on = FALSE => future = None /\ bounded = FALSE
    BY <1>1 DEF LifeInv, TypeOK, TaskInv, FutureFrom, Task
  <1>3. CASE state = "Running"
    <2>1. Return("Ready", "returned") /\ future' = None
      BY <1>2, <1>3 DEF SwapBack, Return
    <2>2. settled = TRUE
      BY <1>1, <1>3 DEF LifeInv, BackStackInv
    <2> QED
      BY <1>1, <2>1, <2>2, Returned
  <1>4. CASE state = "Terminating"
    <2>1. Return("Terminated", "terminated") /\ future' = None
      BY <1>2, <1>4 DEF SwapBack, Return
    <2> QED
      BY <1>1, <2>1, Returned
  <1>5. CASE state = "Faulted"
    <2>1. /\ future' = None
          /\ \/ Return("Faulted", IF fatal THEN "panic: fatal" ELSE "fault")
             \/ NamesFail = TRUE /\ Return("Transitioning", "details error")
      BY <1>2, <1>5 DEF SwapBack, Return
    <2>2. settled = TRUE
      BY <1>5 DEF LifeInv, StartInv
    <2>3. CASE fatal = TRUE /\ Return("Faulted", "panic: fatal")
      BY <1>1, <2>1, <2>2, <2>3, Returned
    <2>4. CASE fatal = FALSE /\ Return("Faulted", "fault")
      BY <1>1, <2>1, <2>2, <2>4, Returned
    <2>5. CASE NamesFail = TRUE /\ Return("Transitioning", "details error")
      BY <1>1, <2>1, <2>5, Returned
    <2> QED
      BY <1>2, <2>1, <2>3, <2>4, <2>5
  <1>6. CASE state = "Yielding"
    <2>1. CASE task.on = FALSE
      <3>1. Return("Yielded", "yielded") /\ future' = None
        BY <1>2, <1>6, <2>1 DEF SwapBack, Return
      <3> QED
        BY <1>1, <1>6, <3>1, Returned
    <2>2. CASE task.on = TRUE /\ FutureFrom(state)
      <3>1. Await("Yielded", "future")
        BY <1>6, <2>2 DEF SwapBack
      <3> QED
        BY <1>1, <1>2, <1>6, <2>2, <3>1, Awaited
    <2>3. CASE task.on = TRUE /\ ~FutureFrom(state)
      <3>1. Return("Yielded", "unsupported") /\ future' = None
        BY <1>2, <1>6, <2>3 DEF SwapBack, Return
      <3> QED
        BY <1>1, <1>6, <2>3, <3>1, Returned
    <2> QED
      BY <1>2, <2>1, <2>2, <2>3
  <1>7. CASE state = "BoundExpired"
    <2>1. task.on = TRUE
      BY <1>1, <1>2, <1>7 DEF LifeInv, BackStackInv
    <2>2. Await("BoundExpired", "turn")
      BY <1>7, <2>1 DEF SwapBack
    <2> QED
      BY <1>1, <1>7, <2>1, <2>2, Awaited
  <1> QED
    BY <1>1, <1>3, <1>4, <1>5, <1>6, <1>7 DEF LifeInv, BackStackInv

\* A new instance, which new_instance_handle has reset.
LEMMA LifeInit == Init => LifeInv
  <1> SUFFICES ASSUME Init PROVE LifeInv
    OBVIOUS
  <1> USE Constants DEF Init, Unstarted
  <1>1. TypeOK
    BY DEF TypeOK, States, Funcs, Waits
  <1>2. HostStackInv /\ GuestStackInv /\ BackStackInv
    BY DEF HostStackInv, GuestStackInv, BackStackInv
  <1>3. TaskInv
    BY DEF TaskInv
  <1>4. StartInv
    BY DEF StartInv
  <1>5. ResultInv
    BY DEF ResultInv, ErrorInv
  <1> QED
    BY <1>1, <1>2, <1>3, <1>4, <1>5 DEF LifeInv

\* Every step of Lifecycle keeps its invariant.
LEMMA LifeStep == LifeInv /\ [Next]_vars => LifeInv'
  <1> SUFFICES ASSUME LifeInv, [Next]_vars PROVE LifeInv'
    OBVIOUS
  <1>1. CASE UNCHANGED vars
    <2>1. UNCHANGED <<state, asyncContext, expecting, fatal, entrypoint, resumedVal,
                      bounded,
                      frame, pc, call, task, future, result, settled>>
      BY <1>1 DEF vars, instVars
    <2>2. TypeOK'
      BY <2>1 DEF LifeInv, TypeOK
    <2>3. HostStackInv' /\ GuestStackInv' /\ BackStackInv'
      BY <2>1 DEF LifeInv, HostStackInv, GuestStackInv, BackStackInv
    <2>4. TaskInv' /\ StartInv'
      BY <2>1 DEF LifeInv, TaskInv, StartInv
    <2>5. ErrorInv'
      BY <2>1 DEF LifeInv, ResultInv, ErrorInv, Runnable
    <2>6. ResultInv'
      BY <2>1, <2>5 DEF LifeInv, ResultInv
    <2> QED
      BY <2>2, <2>3, <2>4, <2>6 DEF LifeInv
  <1>2. CASE Next
    BY <1>2, EmbedderStep, PollStep, DropFutureStep, LifeResetStep, TakeResumedValStep,
       GuestStops, SwapBackStep DEF Next
  <1> QED
    BY <1>1, <1>2

\* The invariant implies the properties of Lifecycle.
LEMMA LifeProperties ==
    LifeInv => TakesWhatItAwaits /\ FutureIsFrozen /\ StartRunsFirst /\ ExpectationsHold
  <1> SUFFICES ASSUME LifeInv
               PROVE  TakesWhatItAwaits /\ FutureIsFrozen /\ StartRunsFirst /\ ExpectationsHold
    OBVIOUS
  <1>1. TakesWhatItAwaits
    BY DEF LifeInv, GuestStackInv, TakesWhatItAwaits
  <1>2. FutureIsFrozen
    BY DEF LifeInv, TypeOK, TaskInv, HostStackInv, BackStackInv, FutureIsFrozen
  <1>3. StartRunsFirst
    BY DEF LifeInv, GuestStackInv, StartInv, StartRunsFirst
  <1>4. ExpectationsHold
    BY DEF LifeInv, HostStackInv, ResultInv, ErrorInv, ExpectationsHold
  <1> QED
    BY <1>1, <1>2, <1>3, <1>4

\* The invariant of Lifecycle holds of every behaviour.
THEOREM LifeAlways == Spec => []LifeInv
  BY LifeInit, LifeStep, PTL DEF Spec

\* take_resumed_val never terminates a guest with YieldTypeMismatch.
THEOREM ResumedAsAwaited == Spec => []TakesWhatItAwaits
  BY LifeAlways, LifeProperties, PTL

\* The future that block_on has given a longer lifetime never outlives the guest's stack
\* that it borrows from, whoever polls or drops it.
THEOREM FutureStaysFrozen == Spec => []FutureIsFrozen
  BY LifeAlways, LifeProperties, PTL

\* run_func and run_async let no exported function run before the start function has come
\* to its end.
THEOREM StartComesFirst == Spec => []StartRunsFirst
  BY LifeAlways, LifeProperties, PTL

\* The panics that the comments of swap_and_return and run_async_internal rule out do not
\* happen.
THEOREM NoUnexpectedPanic == Spec => []ExpectationsHold
  BY LifeAlways, LifeProperties, PTL

-----------------------------------------------------------------------------
(* Vmctx implements Lifecycle.                                             *)

\* A hostcall that unwinds is a guest that terminates.
LEMMA UnwindTerminates ==
    ASSUME NEW payload, InHostcall, Unwind(payload)
    PROVE  GuestTerminates
  BY DEF InHostcall, Unwind, GuestTerminates

\* Every step of Vmctx is one of Lifecycle, or none.
LEMMA StepIsLifecycle == [VmctxNext]_allVars => [Next]_vars
  <1> SUFFICES ASSUME [VmctxNext]_allVars PROVE Next \/ UNCHANGED vars
    OBVIOUS
  <1>1. CASE UNCHANGED allVars
    BY <1>1 DEF allVars
  <1>2. CASE HostStep \/ ResetStep \/ GuestStep
    <2>1. CASE HostStep
      BY <2>1 DEF HostStep, Next
    <2>2. CASE ResetStep
      BY <2>2 DEF ResetStep, Next
    <2>3. CASE GuestStep
      BY <2>3 DEF GuestStep, Next
    <2> QED
      BY <1>2, <2>1, <2>2, <2>3
  <1>3. CASE \/ \E present \in BOOLEAN : SetCtx(present)
             \/ \E terminate \in BOOLEAN : SetTerminateOnHeapOom(terminate)
             \/ HostWritesHeap \/ HostcallBegins \/ HostcallEnds \/ CallsBack
             \/ CallbackReturns \/ DropsHeap \/ DropsGlobals \/ DropsCtx
    BY <1>3 DEF SetCtx, SetTerminateOnHeapOom, HostWritesHeap, HostcallBegins, HostcallEnds,
                CallsBack, CallbackReturns, DropsHeap, DropsGlobals, DropsCtx, Within
  <1>4. CASE \E kind \in {"Provided", "OtherPanic"} : HostcallPanics(kind)
    BY <1>4, UnwindTerminates DEF HostcallPanics, Next
  <1>5. ASSUME NEW mode \in Modes,
     BorrowHeap(mode) \/ BorrowGlobals(mode) \/ BorrowCtx(mode)
        PROVE  Next \/ UNCHANGED vars
    <2>1. CASE BorrowHeap(mode)
      BY <2>1, UnwindTerminates DEF BorrowHeap, Within, Next
    <2>2. CASE BorrowGlobals(mode)
      BY <2>2, UnwindTerminates DEF BorrowGlobals, Within, Next
    <2>3. CASE BorrowCtx(mode)
      BY <2>3, UnwindTerminates DEF BorrowCtx, Within, Next
    <2> QED
      BY <1>5, <2>1, <2>2, <2>3
  <1>6. CASE (\E type \in Types : HostcallYields(type)) \/ HostcallBlocks
    BY <1>6, UnwindTerminates DEF HostcallYields, HostcallBlocks, Next
  <1>7. ASSUME NEW pages \in Pages,
               HostGrows(pages) \/ HostcallGrows(pages) \/ GuestGrows(pages)
        PROVE  Next \/ UNCHANGED vars
    <2>1. CASE HostGrows(pages)
      BY <2>1 DEF HostGrows, Grow, allVars
    <2>2. CASE HostcallGrows(pages)
      BY <2>2, UnwindTerminates DEF HostcallGrows, Grow, GrowRefused, allVars, Next
    <2>3. CASE GuestGrows(pages)
      BY <2>3 DEF GuestGrows, Grow, GrowRefused, allVars, Next
    <2> QED
      BY <1>7, <2>1, <2>2, <2>3
  <1> QED
    BY <1>1, <1>2, <1>3, <1>4, <1>5, <1>6, <1>7 DEF VmctxNext

\* Hostcalls take no liberties with the life cycle: whatever they borrow, grow, block on,
\* call back or panic with, the instance goes through states that Lifecycle allows.
THEOREM HostcallsImplementLifecycle == VmctxSpec => Spec
  <1>1. VmctxInit => Init
    BY DEF VmctxInit
  <1> QED
    BY <1>1, StepIsLifecycle, PTL DEF VmctxSpec, Spec

-----------------------------------------------------------------------------
(* Vmctx: the RefCell of the embedder context.                             *)

\* What a Vmctx records.
LEMMA HostcallFields ==
    ASSUME NEW h \in Hostcall
    PROVE  /\ h.heap \in Holds /\ h.globals \in Holds /\ h.ctx \in Holds /\ h.view \in Nat
           /\ h.back \subseteq {"heap", "ctx"} /\ h.stale \in BOOLEAN /\ h.gone \in BOOLEAN
  BY DEF Hostcall

\* There are finitely many holders.
LEMMA HoldersFinite ==
    ASSUME NEW cs \in Seq(Hostcall), NEW mode
    PROVE  IsFiniteSet(Holders(cs, mode))
  <1>1. IsFiniteSet(1 .. Len(cs)) /\ DOMAIN cs = 1 .. Len(cs)
    BY FS_Interval, LenProperties
  <1>2. Holders(cs, mode) \subseteq 1 .. Len(cs)
    BY <1>1 DEF Holders
  <1> QED
    BY <1>1, <1>2, FS_Subset

\* No hostcalls, no holders.
LEMMA NoHolders == \A mode : Holders(<<>>, mode) = {}
  BY DEF Holders

\* Whoever does not hold the context mutably or shared does not hold it.
LEMMA HoldingMeans ==
    ASSUME NEW cs \in Seq(Hostcall)
    PROVE  ~Holding(cs) => Holders(cs, "mut") = {} /\ Holders(cs, "shared") = {}
  <1>1. \A i \in DOMAIN cs : cs[i] \in Hostcall
    BY LenProperties
  <1>2. \A i \in DOMAIN cs : cs[i].gone \in BOOLEAN
    BY <1>1, HostcallFields
  <1> QED
    BY <1>2 DEF Holding, Holders

\* A borrow is granted to one that holds nothing.
LEMMA BorrowCounts ==
    ASSUME NEW muts, NEW shares, IsFiniteSet(shares), NEW n \in Int, NEW given,
           NEW i, i \notin muts, i \notin shares, Counted(muts, shares, n, given)
    PROVE  /\ n = 0 => Counted(muts \cup {i}, shares, -1, given)
           /\ n >= 0 => Counted(muts, shares \cup {i}, n + 1, given)
  <1>1. Cardinality(shares) \in Nat /\ (Cardinality(shares) = 0 <=> shares = {})
    BY FS_CardinalityType, FS_EmptySet
  <1>2. Cardinality(shares \cup {i}) = Cardinality(shares) + 1
    BY FS_AddElement
  <1>3. ASSUME n = 0 PROVE muts = {} /\ shares = {}
    BY <1>1, <1>3 DEF Counted
  <1>4. ASSUME n >= 0 PROVE muts = {} /\ n >= Cardinality(shares) /\ n + 1 # -1
    BY <1>4 DEF Counted
  <1>5. n = 0 => Counted(muts \cup {i}, shares, -1, given)
    BY <1>3 DEF Counted
  <1>6. ASSUME n >= 0 PROVE Counted(muts, shares \cup {i}, n + 1, given)
    <2>1. given = FALSE => n + 1 = Cardinality(shares \cup {i})
      BY <1>2, <1>4, <1>6 DEF Counted
    <2>2. n + 1 >= Cardinality(shares \cup {i})
      BY <1>1, <1>2, <1>4, <1>6
    <2> QED
      BY <1>4, <1>6, <2>1, <2>2 DEF Counted
  <1> QED
    BY <1>5, <1>6

\* A borrow is given back.
LEMMA ReleaseCounts ==
    ASSUME NEW muts, NEW shares, IsFiniteSet(shares), NEW n \in Int, NEW given,
           NEW i, Counted(muts, shares, n, given)
    PROVE  /\ i \in muts => Counted(muts \ {i}, shares \ {i}, 0, given)
           /\ i \in shares => Counted(muts \ {i}, shares \ {i}, n - 1, given)
           /\ i \notin muts /\ i \notin shares => Counted(muts \ {i}, shares \ {i}, n,
                                                          given)
  <1>1. Cardinality(shares) \in Nat /\ (Cardinality(shares) = 0 <=> shares = {})
    BY FS_CardinalityType, FS_EmptySet
  <1>2. ASSUME i \in muts PROVE Counted(muts \ {i}, shares \ {i}, 0, given)
    <2>1. muts \ {i} = {} /\ shares \ {i} = {} /\ Cardinality({}) = 0
      BY <1>2, FS_EmptySet DEF Counted
    <2>2. Counted({}, {}, 0, given)
      BY <2>1 DEF Counted
    <2> QED
      BY <2>1, <2>2
  <1>3. ASSUME i \in shares PROVE Counted(muts \ {i}, shares \ {i}, n - 1, given)
    <2>1. Cardinality(shares \ {i}) = Cardinality(shares) - 1
      BY <1>3, FS_RemoveElement
    <2>2. n # -1 /\ muts = {} /\ n >= Cardinality(shares) /\ Cardinality(shares) # 0
      BY <1>1, <1>3 DEF Counted
    <2>3. n - 1 # -1 /\ n - 1 >= Cardinality(shares \ {i}) /\ muts \ {i} = {}
      BY <1>1, <2>1, <2>2
    <2>4. given = FALSE => n - 1 = Cardinality(shares \ {i})
      BY <1>1, <2>1, <2>2 DEF Counted
    <2> QED
      BY <2>3, <2>4 DEF Counted
  <1>4. ASSUME i \notin muts, i \notin shares
        PROVE  Counted(muts \ {i}, shares \ {i}, n, given)
    <2>1. muts \ {i} = muts /\ shares \ {i} = shares
      BY <1>4
    <2> QED
      BY <2>1
  <1> QED
    BY <1>2, <1>3, <1>4

\* Hostcalls are given up: without holders among them, nothing stays borrowed for it.
LEMMA GivenUpCounts ==
    ASSUME NEW cs \in Seq(Hostcall), NEW n \in Int, NEW given \in BOOLEAN,
           NEW now \in BOOLEAN, now = FALSE => given = FALSE /\ ~Holding(cs),
           Counted(Holders(cs, "mut"), Holders(cs, "shared"), n, given)
    PROVE  Counted({}, {}, n, now)
  <1>1. Cardinality({}) = 0 /\ Cardinality(Holders(cs, "shared")) \in Nat
    BY FS_EmptySet, HoldersFinite, FS_CardinalityType
  <1>2. n # -1 => n >= 0
    BY <1>1 DEF Counted
  <1>3. now = FALSE => n = 0
    BY <1>1, HoldingMeans DEF Counted
  <1> QED
    BY <1>1, <1>2, <1>3 DEF Counted

\* What a hostcall that ends, unwinds or drops its reference gives back.
LEMMA TopReleases ==
    ASSUME NEW cs \in Seq(Hostcall), NEW n \in DOMAIN cs,
           NEW c \in [present : BOOLEAN, borrows : Int], NEW given,
           Counted(Holders(cs, "mut"), Holders(cs, "shared"), c.borrows, given)
    PROVE  /\ Released(c, cs[n]) \in [present : BOOLEAN, borrows : Int]
           /\ Counted(Holders(cs, "mut") \ {n}, Holders(cs, "shared") \ {n},
                      Released(c, cs[n]).borrows, given)
  <1>1. cs[n].ctx \in Holds /\ cs[n].gone \in BOOLEAN
    BY LenProperties, HostcallFields
  <1>2. IsFiniteSet(Holders(cs, "shared")) /\ c.borrows \in Int
    BY HoldersFinite
  <1>3. CASE cs[n].gone = TRUE \/ cs[n].ctx = "free"
    <2>1. Released(c, cs[n]) = c
      BY <1>3 DEF Released
    <2>2. n \notin Holders(cs, "mut") /\ n \notin Holders(cs, "shared")
      BY <1>3 DEF Holders
    <2> QED
      BY <1>2, <2>1, <2>2, ReleaseCounts
  <1>4. CASE cs[n].gone = FALSE /\ cs[n].ctx = "shared"
    <2>1. Released(c, cs[n]) = [c EXCEPT !.borrows = c.borrows - 1]
      BY <1>4 DEF Released
    <2>2. n \in Holders(cs, "shared")
      BY <1>4 DEF Holders
    <2>3. /\ Released(c, cs[n]) \in [present : BOOLEAN, borrows : Int]
          /\ Released(c, cs[n]).borrows = c.borrows - 1
      BY <1>2, <2>1
    <2>4. Counted(Holders(cs, "mut") \ {n}, Holders(cs, "shared") \ {n}, c.borrows - 1,
                  given)
      BY <1>2, <2>2, ReleaseCounts
    <2> QED
      BY <2>3, <2>4
  <1>5. CASE cs[n].gone = FALSE /\ cs[n].ctx = "mut"
    <2>1. Released(c, cs[n]) = [c EXCEPT !.borrows = 0]
      BY <1>5 DEF Released
    <2>2. n \in Holders(cs, "mut")
      BY <1>5 DEF Holders
    <2>3. /\ Released(c, cs[n]) \in [present : BOOLEAN, borrows : Int]
          /\ Released(c, cs[n]).borrows = 0
      BY <1>2, <2>1
    <2>4. Counted(Holders(cs, "mut") \ {n}, Holders(cs, "shared") \ {n}, 0, given)
      BY <1>2, <2>2, ReleaseCounts
    <2> QED
      BY <2>3, <2>4
  <1> QED
    BY <1>1, <1>3, <1>4, <1>5 DEF Holds

-----------------------------------------------------------------------------
(* Vmctx: steps of Lifecycle that the hostcalls follow.                    *)

\* The stack is given up, or the guest stands no deeper in a hostcall than before.
FrameKept ==
    \/ frame' = NoFrame
    \/ /\ frame'.at # "gone"
       /\ frame'.at = "yield" => frame.at = "yield" /\ frame'.waits = frame.waits
       /\ frame'.at = "bound" => frame.at = "bound" \/ inHost = FALSE

\* A guest that cannot be resumed is not.
StaysLost == Lost => frame' = NoFrame \/ Lost'

\* What has not been terminated is not.
StaysUnterminated ==
    state' \in {"Terminating", "Terminated"} =>
        state \in {"Terminating", "Terminated"} /\ pc' # "guest"

\* A call that is refused is nothing the hostcalls notice.
LEMMA RefusedKeeps ==
    ASSUME LifeInv, NEW c, NEW kind, Refuse(c, kind), pc = "host"
    PROVE  FrameKept /\ StaysLost /\ StaysUnterminated
  <1>1. /\ frame' = frame /\ state' = state /\ expecting' = expecting
        /\ task' = NoTask /\ pc' = "host"
    BY DEF Refuse, instVars
  <1>2. frame.at = "gone" => frame = NoFrame
    BY DEF LifeInv, StartInv
  <1> QED
    BY <1>1, <1>2, Constants DEF FrameKept, StaysLost, StaysUnterminated, Lost

\* What entering the guest does to the frame is nothing the hostcalls depend on.
LEMMA SwapInKeeps ==
    ASSUME LifeInv, ~Lost, state' \in {"Running", "NotStarted", "Ready"},
           \/ frame' = NoFrame
           \/ frame'.at = "running"
           \/ frame' = frame /\ frame.at = "yield"
    PROVE  FrameKept /\ StaysLost /\ StaysUnterminated
  BY DEF FrameKept, StaysLost, StaysUnterminated

\* Neither is Instance::run_func.
LEMMA RunFuncKeeps ==
    ASSUME LifeInv, pc = "host", NEW c, NEW f, NEW inAsync, NEW bound, NEW tk,
           RunFunc(c, f, inAsync, bound, tk)
    PROVE  FrameKept /\ StaysLost /\ StaysUnterminated
  <1>1. CASE Refuse(c, "needs start") \/ Refuse(c, "invalid argument")
    BY <1>1, RefusedKeeps
  <1>2. CASE Runnable(f)
             /\ SwapIn(c, f, [func |-> f, at |-> "running", waits |-> None], inAsync,
                       bound, tk)
    <2>1. ~Lost
      BY <1>2 DEF Runnable, Lost
    <2>2. PICK fr : fr.at = "running" /\ SwapIn(c, f, fr, inAsync, bound, tk)
      BY <1>2
    <2>3. /\ state' \in {"Running", "NotStarted", "Ready"}
          /\ frame' = NoFrame \/ frame' = fr
      BY <2>2 DEF SwapIn, StateOnError
    <2> QED
      BY <2>1, <2>2, <2>3, SwapInKeeps
  <1> QED
    BY <1>1, <1>2 DEF RunFunc

\* Only a future that is polled resumes with a ResumeVal.
LEMMA ResumeKeeps ==
    ASSUME LifeInv, pc = "host", NEW c, NEW type, NEW inAsync, NEW bound, NEW tk,
           ResumeWithVal(c, type, inAsync, bound, tk), type = ResumeVal => task.on = TRUE
    PROVE  FrameKept /\ StaysLost /\ StaysUnterminated
  <1>1. CASE Refuse(c, "invalid argument")
    BY <1>1, RefusedKeeps
  <1>2. CASE Accepts(type) /\ SwapIn(c, entrypoint, frame, inAsync, SliceBound(bound), tk)
    <2>1. ~Lost /\ frame.at = "yield"
      BY <1>2 DEF Accepts, Lost, LifeInv, HostStackInv
    <2> QED
      BY <1>2, <2>1, SwapInKeeps DEF SwapIn, StateOnError
  <1> QED
    BY <1>1, <1>2 DEF ResumeWithVal

\* Neither is one iteration of the loop in run_async_internal.
LEMMA IterateKeeps ==
    ASSUME LifeInv, pc = "host", NEW c, NEW tk, Iterate(c, tk),
           state = "Yielded" => task.on = TRUE
    PROVE  FrameKept /\ StaysLost /\ StaysUnterminated
  <1>1. CASE Refuse(c, "panic: no resume value") \/ Refuse(c, "panic: no bound")
    BY <1>1, RefusedKeeps
  <1>2. CASE state = "Yielded"
             /\ ResumeWithVal(c, ResumeVal, TRUE, tk.bound, [tk EXCEPT !.val = FALSE])
    BY <1>2, ResumeKeeps
  <1>3. CASE state = "BoundExpired" /\ ResumeBounded(c, tk)
    <2>1. ~Lost
      BY <1>3 DEF Lost
    <2>2. WhereItGoesOn.at = "running"
      BY DEF WhereItGoesOn, LifeInv, TypeOK, Frame
    <2>3. /\ state' \in {"Running", "NotStarted", "Ready"}
          /\ frame' = NoFrame \/ frame'.at = "running"
      BY <1>3, <2>2 DEF ResumeBounded, SwapIn, StateOnError
    <2> QED
      BY <2>1, <2>3, SwapInKeeps
  <1>4. CASE RunFunc(c, tk.func, TRUE, tk.bound, tk)
    BY <1>4, RunFuncKeeps
  <1> QED
    BY <1>1, <1>2, <1>3, <1>4 DEF Iterate

\* The embedder's calls, and the way back to it, leave the hostcalls as they are.
LEMMA HostKeeps ==
    ASSUME LifeInv, LifeInv',
           \/ \E f \in Functions : Run(f)
           \/ RunStart
           \/ \E type \in Types : Resume(type)
           \/ \E f \in Functions, bound \in BOOLEAN : RunAsync(f, bound)
           \/ \E bound \in BOOLEAN : RunAsyncStart(bound)
           \/ Poll
           \/ DropFuture
           \/ SwapBack
           \/ TakeResumedVal
    PROVE  FrameKept /\ StaysLost /\ StaysUnterminated
  <1>1. ASSUME NEW f \in Functions, Run(f) PROVE FrameKept /\ StaysLost /\ StaysUnterminated
    BY <1>1, RunFuncKeeps DEF Run, Idle
  <1>2. ASSUME RunStart PROVE FrameKept /\ StaysLost /\ StaysUnterminated
    BY <1>2, RunFuncKeeps, RefusedKeeps DEF RunStart, Idle
  <1>3. ASSUME NEW type \in Types, Resume(type)
        PROVE  FrameKept /\ StaysLost /\ StaysUnterminated
    BY <1>3, ResumeKeeps DEF Resume, Idle
  <1>4. ASSUME NEW c, NEW bound, pc = "host", RunAsyncInternal(c, bound)
        PROVE  FrameKept /\ StaysLost /\ StaysUnterminated
    BY <1>4, IterateKeeps, RefusedKeeps DEF RunAsyncInternal, IsYielded
  <1>5. ASSUME NEW f \in Functions, NEW bound \in BOOLEAN, RunAsync(f, bound)
        PROVE  FrameKept /\ StaysLost /\ StaysUnterminated
    BY <1>4, <1>5 DEF RunAsync, Idle
  <1>6. ASSUME NEW bound \in BOOLEAN, RunAsyncStart(bound)
        PROVE  FrameKept /\ StaysLost /\ StaysUnterminated
    BY <1>4, <1>6, RefusedKeeps DEF RunAsyncStart, Idle
  <1>7. ASSUME Poll PROVE FrameKept /\ StaysLost /\ StaysUnterminated
    <2>1. pc = "host" /\ task.on = TRUE
      BY <1>7 DEF Poll, LifeInv, TypeOK, Task
    <2>2. \E c, tk : Iterate(c, tk)
      BY <1>7 DEF Poll
    <2> QED
      BY <2>1, <2>2, IterateKeeps
  <1>8. frame.at = "gone" => frame = NoFrame
    BY DEF LifeInv, StartInv
  <1>9. ASSUME DropFuture PROVE FrameKept /\ StaysLost /\ StaysUnterminated
    <2>1. pc' = "host" /\ task.on = TRUE /\ frame' = frame /\ state' = state
      BY <1>9 DEF DropFuture, instVars, LifeInv, TypeOK, Task
    <2> QED
      BY <1>8, <2>1 DEF FrameKept, StaysLost, StaysUnterminated, Lost
  <1>10. ASSUME SwapBack PROVE FrameKept /\ StaysLost /\ StaysUnterminated
    <2>1. pc = "back" /\ ~Lost /\ pc' = "host"
      BY <1>10 DEF SwapBack, LifeInv, BackStackInv, Lost, Return, Await
    <2>2. frame' = NoFrame \/ frame' = frame
      BY <1>10 DEF SwapBack, Return, Await
    <2>3. state' = "Terminated" => state = "Terminating"
      BY <1>10 DEF SwapBack, Return, Await
    <2>4. state' # "Terminating"
      BY <2>1 DEF LifeInv, HostStackInv
    <2> QED
      BY <1>8, <2>1, <2>2, <2>3, <2>4 DEF FrameKept, StaysLost, StaysUnterminated
  <1>11. ASSUME TakeResumedVal PROVE FrameKept /\ StaysLost /\ StaysUnterminated
    <2>1. ~Lost /\ state = "Running"
      BY <1>11 DEF TakeResumedVal, Lost, LifeInv, GuestStackInv
    <2> QED
      BY <1>11, <2>1, TakeResumedValStep DEF FrameKept, StaysLost, StaysUnterminated
  <1> QED
    BY <1>1, <1>2, <1>3, <1>5, <1>6, <1>7, <1>9, <1>10, <1>11

\* Hostcalls follow a step of Lifecycle: they stay as they are, or are given up as they
\* are.
LEMMA FollowStep ==
    ASSUME IndInv, LifeInv', Follow, FrameKept, StaysLost, heapLen' \in Nat, DetailsInv'
    PROVE  IndInv'
  <1> USE DEF IndInv
  <1>1. ctx' = ctx /\ abandoned' \in BOOLEAN /\ abandoned \in BOOLEAN
    BY DEF Follow, CallTypeOK
  <1>2. CASE frame' = NoFrame
    <2>1. calls' = <<>> /\ inHost' = FALSE /\ frame'.at = "gone"
      BY <1>2, Constants DEF Follow, CallsLeft
    <2>2. abandoned' = FALSE => abandoned = FALSE /\ ~Holding(calls)
      BY <1>1, <1>2 DEF Follow
    <2>3. CallTypeOK'
      <3>1. calls' \in Seq(Hostcall) /\ inHost' \in BOOLEAN
        BY <2>1, EmptySeq
      <3> QED
        BY <1>1, <3>1, Zenon DEF CallTypeOK
    <2>4. StandInv'
      BY <2>1 DEF StandInv
    <2>5. CallInv' /\ RefsInv'
      BY <2>1 DEF CallInv, RefsInv
    <2>6. BorrowInv'
      <3>1. Counted({}, {}, ctx.borrows, abandoned')
        BY <1>1, <2>2, GivenUpCounts DEF BorrowInv, CallTypeOK
      <3> QED
        BY <1>1, <2>1, <3>1, NoHolders DEF BorrowInv
    <2> QED
      BY <2>3, <2>4, <2>5, <2>6
  <1>3. CASE frame' # NoFrame
    <2>1. calls' = calls /\ inHost' = inHost /\ abandoned' = abandoned
      BY <1>1, <1>3 DEF Follow, CallsLeft, CallTypeOK
    <2>2. /\ frame'.at # "gone"
          /\ frame'.at = "yield" => frame.at = "yield" /\ frame'.waits = frame.waits
          /\ frame'.at = "bound" => inHost = FALSE
      BY <1>3 DEF FrameKept, StandInv
    <2>3. CallTypeOK'
      <3>1. inHost \in BOOLEAN /\ calls \in Seq(Hostcall)
            /\ ctx \in [present : BOOLEAN, borrows : Int]
        BY DEF CallTypeOK
      <3> QED
        BY <1>1, <2>1, <3>1, Zenon DEF CallTypeOK
    <2>4. StandInv'
      BY <2>1, <2>2 DEF StandInv
    <2>5. CallInv'
      BY <2>1, <2>2 DEF CallInv, Backed
    <2>6. RefsInv'
      BY <1>3, <2>1 DEF RefsInv, StaysLost
    <2>7. BorrowInv'
      BY <1>1, <2>1 DEF BorrowInv
    <2> QED
      BY <2>3, <2>4, <2>5, <2>6, <2>7
  <1> QED
    BY <1>2, <1>3

\* A step of the host's that is not a reset keeps the invariant.
LEMMA HostStepKeeps ==
    ASSUME IndInv, LifeInv', HostStep
    PROVE  IndInv'
  <1>1. FrameKept /\ StaysLost /\ StaysUnterminated
    BY HostKeeps DEF HostStep, IndInv
  <1>2. DetailsInv'
    BY <1>1 DEF HostStep, StaysUnterminated, DetailsInv, IndInv
  <1>3. heapLen' \in Nat /\ Follow
    BY DEF HostStep, IndInv, CallTypeOK
  <1> QED
    BY <1>1, <1>2, <1>3, FollowStep

\* A reset keeps the invariant.
LEMMA ResetStepKeeps ==
    ASSUME IndInv, LifeInv', ResetStep
    PROVE  IndInv'
  <1>1. frame' = NoFrame /\ state' \in {"NotStarted", "Ready"} /\ heapLen' = 0 /\ Follow
    BY DEF ResetStep, Reset, Unstarted
  <1> QED
    BY <1>1, FollowStep DEF FrameKept, StaysLost, DetailsInv

\* The reasons that the model names are those of TerminationDetails.
LEMMA ReasonsAre ==
    Reasons = {"Signal", "CtxNotFound", "YieldTypeMismatch", "BorrowError", "Provided",
               "Remote", "OtherPanic", "BlockOnNeedsAsync", "HeapOutOfMemory"}
  <1>1. DOMAIN RustReasons = 1 .. 9
    BY DEF RustReasons
  <1>2. /\ RustReasons[1] = "Signal" /\ RustReasons[2] = "CtxNotFound"
        /\ RustReasons[3] = "YieldTypeMismatch" /\ RustReasons[4] = "BorrowError"
        /\ RustReasons[5] = "Provided" /\ RustReasons[6] = "Remote"
        /\ RustReasons[7] = "OtherPanic" /\ RustReasons[8] = "BlockOnNeedsAsync"
        /\ RustReasons[9] = "HeapOutOfMemory"
    BY DEF RustReasons
  <1>3. \A n \in 1 .. 9 : n \in {1, 2, 3, 4, 5, 6, 7, 8, 9}
    OBVIOUS
  <1>4. 1 \in 1 .. 9 /\ 2 \in 1 .. 9 /\ 3 \in 1 .. 9 /\ 4 \in 1 .. 9 /\ 5 \in 1 .. 9
        /\ 6 \in 1 .. 9 /\ 7 \in 1 .. 9 /\ 8 \in 1 .. 9 /\ 9 \in 1 .. 9
    OBVIOUS
  <1> QED
    BY <1>1, <1>2, <1>3, <1>4 DEF Reasons

\* A step of guest code keeps the invariant.
LEMMA GuestStepKeeps ==
    ASSUME IndInv, LifeInv', GuestStep
    PROVE  IndInv'
  <1>1. Executing /\ Follow /\ heapLen' = heapLen
    BY DEF GuestStep, InGuest, InHostcall
  <1>2. state = "Running" /\ frame \in Frame /\ frame.at = "running"
    BY <1>1, GuestExecutes DEF IndInv
  <1>3. heapLen' \in Nat /\ StaysLost
    BY <1>1, <1>2 DEF IndInv, CallTypeOK, StaysLost, Lost
  <1>4. FrameKept
    <2>1. CASE GuestReturns
      BY <1>2, <2>1 DEF GuestReturns, SwapOut, FrameKept, Frame
    <2>2. CASE InGuest /\ GuestExpires
      <3>1. frame'.at = "bound" /\ inHost = FALSE
        BY <1>2, <2>2 DEF GuestExpires, SwapOut, Frame, InGuest, IndInv, CallTypeOK
      <3> QED
        BY <3>1 DEF FrameKept
    <2>3. CASE GuestFaults \/ GuestTerminates
      BY <2>3 DEF GuestFaults, GuestTerminates, SwapOut, FrameKept
    <2> QED
      BY <2>1, <2>2, <2>3 DEF GuestStep
  <1>5. DetailsInv'
    <2>1. CASE GuestReturns \/ GuestExpires \/ GuestFaults
      BY <2>1 DEF GuestReturns, GuestExpires, GuestFaults, SwapOut, DetailsInv
    <2>2. CASE \E kind \in {"Remote", "Signal"} : details' = Payload(kind)
      BY <2>2, ReasonsAre DEF Payload, DetailsInv
    <2> QED
      BY <2>1, <2>2 DEF GuestStep
  <1> QED
    BY <1>1, <1>3, <1>4, <1>5, FollowStep

-----------------------------------------------------------------------------
(* Vmctx: steps of hostcalls.                                              *)

\* What holds of a hostcall that runs.
LEMMA HostcallRuns ==
    ASSUME IndInv, InHostcall
    PROVE  /\ Executing /\ ~Lost /\ frame.at = "running" /\ inHost = TRUE
           /\ calls \in Seq(Hostcall) /\ Last \in DOMAIN calls /\ Last \in Nat
           /\ DOMAIN calls = 1 .. Last /\ Top \in Hostcall
           /\ state = "Running"
  <1>1. Executing /\ inHost = TRUE /\ state = "Running" /\ frame.at = "running"
    BY GuestExecutes DEF InHostcall, IndInv, CallTypeOK
  <1>2. calls \in Seq(Hostcall) /\ calls # <<>>
    BY <1>1 DEF IndInv, CallTypeOK, StandInv
  <1>3. Last \in Nat /\ DOMAIN calls = 1 .. Last /\ Last # 0
    BY <1>2, LenProperties, EmptySeq DEF Last
  <1>4. Last \in DOMAIN calls
    BY <1>3
  <1> QED
    BY <1>1, <1>2, <1>3, <1>4, LenProperties DEF Lost, Top

\* A panic of a hostcall: what it holds is given back, what is below it is given up.
LEMMA UnwindStep ==
    ASSUME IndInv, LifeInv', InHostcall, NEW payload, Unwind(payload),
           payload.kind \in Reasons
    PROVE  IndInv'
  <1> USE DEF IndInv
  <1>1. /\ frame' = NoFrame /\ calls' = <<>> /\ inHost' = FALSE /\ details' = payload
        /\ heapLen' = heapLen /\ ctx' = Released(ctx, Top)
        /\ abandoned' = (abandoned \/ Holding(SubSeq(calls, 1, Last - 1)))
    BY DEF Unwind, SwapOut, Unwound
  <1> DEFINE below == SubSeq(calls, 1, Last - 1)
  <1>2. /\ below \in Seq(Hostcall)
        /\ \A mode : Holders(below, mode) = Holders(calls, mode) \ {Last}
    <2>1. /\ Last \in Nat /\ Last \in 1 .. Last /\ calls \in Seq(Hostcall)
          /\ DOMAIN calls = 1 .. Last
      BY HostcallRuns
    <2>2. below \in Seq(Hostcall) /\ DOMAIN below = 1 .. Last - 1
          /\ \A i \in 1 .. Last - 1 : below[i] = calls[i]
      BY <2>1, SubSeqProperties DEF Last
    <2>3. \A i : i \in 1 .. Last - 1 <=> i \in 1 .. Last /\ i # Last
      BY <2>1
    <2> HIDE DEF below
    <2> QED
      BY <2>1, <2>2, <2>3 DEF Holders
  <1> HIDE DEF below
  <1>3. /\ ctx' \in [present : BOOLEAN, borrows : Int]
        /\ Counted(Holders(below, "mut"), Holders(below, "shared"), ctx'.borrows, abandoned)
    <2>1. /\ Released(ctx, calls[Last]) \in [present : BOOLEAN, borrows : Int]
          /\ Counted(Holders(calls, "mut") \ {Last}, Holders(calls, "shared") \ {Last},
                     Released(ctx, calls[Last]).borrows, abandoned)
      BY HostcallRuns, TopReleases DEF BorrowInv, CallTypeOK
    <2> QED
      BY <1>1, <1>2, <2>1 DEF Top
  <1>4. /\ abandoned' \in BOOLEAN /\ abandoned \in BOOLEAN
        /\ abandoned' = FALSE => abandoned = FALSE /\ ~Holding(below)
    BY <1>1 DEF CallTypeOK, below
  <1>5. CallTypeOK'
    <2>1. heapLen' \in Nat /\ calls' \in Seq(Hostcall) /\ inHost' \in BOOLEAN
      BY <1>1, EmptySeq DEF CallTypeOK
    <2> QED
      BY <1>3, <1>4, <2>1, Zenon DEF CallTypeOK
  <1>6. StandInv' /\ CallInv' /\ RefsInv'
    BY <1>1, Constants DEF StandInv, CallInv, RefsInv
  <1>7. BorrowInv'
    <2>1. Counted({}, {}, ctx'.borrows, abandoned')
      BY <1>2, <1>3, <1>4, GivenUpCounts
    <2> QED
      BY <1>1, <2>1, NoHolders DEF BorrowInv
  <1>8. DetailsInv'
    BY <1>1 DEF DetailsInv
  <1> QED
    BY <1>5, <1>6, <1>7, <1>8

\* The hostcall that runs changes what it holds.
LEMMA TopChanges ==
    ASSUME IndInv, InHostcall, NEW r \in Hostcall, calls' = [calls EXCEPT ![Last] = r]
    PROVE  /\ calls' \in Seq(Hostcall) /\ calls' # <<>>
           /\ Len(calls') = Last /\ DOMAIN calls' = DOMAIN calls
           /\ calls'[Last] = r
           /\ \A i \in DOMAIN calls : i # Last => calls'[i] = calls[i]
  <1>1. /\ calls \in Seq(Hostcall) /\ Last \in DOMAIN calls /\ Last \in Nat
        /\ DOMAIN calls = 1 .. Last
    BY HostcallRuns
  <1>2. calls' \in Seq(Hostcall) /\ Len(calls') = Last
    BY <1>1, ExceptSeq DEF Last
  <1>3. DOMAIN calls' = DOMAIN calls
    BY <1>1
  <1>4. Last # 0
    BY <1>1
  <1>5. calls' # <<>>
    BY <1>2, <1>4, EmptySeq
  <1> QED
    BY <1>1, <1>2, <1>3, <1>5

\* Then all but the count of the context's borrows is as it should be.
LEMMA TopStep ==
    ASSUME IndInv, InHostcall, NEW r \in Hostcall, calls' = [calls EXCEPT ![Last] = r],
           UNCHANGED <<vars, inHost, heapLen, details, abandoned>>,
           ctx' \in [present : BOOLEAN, borrows : Int],
           r.stale = TRUE => r.heap # "free" /\ "heap" \in r.back,
           r.gone = TRUE => r.ctx # "free" /\ "ctx" \in r.back,
           BorrowInv'
    PROVE  IndInv'
  <1> USE DEF IndInv
  <1>1. /\ calls' \in Seq(Hostcall) /\ calls' # <<>>
        /\ Len(calls') = Last /\ DOMAIN calls' = DOMAIN calls
        /\ calls'[Last] = r
        /\ \A i \in DOMAIN calls : i # Last => calls'[i] = calls[i]
    BY TopChanges
  <1>2. LifeInv'
    BY LifeStep
  <1>3. /\ frame' = frame /\ state' = state /\ expecting' = expecting /\ task' = task
        /\ frame.at = "running" /\ inHost' = TRUE /\ inHost = TRUE /\ state = "Running"
    BY HostcallRuns DEF vars, instVars
  <1>4. CallTypeOK'
    <2>1. heapLen' \in Nat /\ inHost' \in BOOLEAN /\ abandoned' \in BOOLEAN
      BY DEF CallTypeOK
    <2> QED
      BY <1>1, <2>1, Zenon DEF CallTypeOK
  <1>5. StandInv'
    BY <1>1, <1>3 DEF StandInv
  <1>6. CallInv'
    <2> SUFFICES ASSUME NEW i \in DOMAIN calls'
                 PROVE  /\ calls'[i].stale = TRUE => calls'[i].heap # "free"
                        /\ calls'[i].gone = TRUE => calls'[i].ctx # "free"
                        /\ i # Len(calls') => Backed(calls'[i])
      BY <1>3 DEF CallInv, Backed
    <2>1. CASE i = Last
      BY <1>1, <2>1
    <2>2. CASE i # Last
      BY <1>1, <2>2 DEF CallInv, Last
    <2> QED
      BY <2>1, <2>2
  <1>7. RefsInv'
    <2> SUFFICES ASSUME NEW i \in DOMAIN calls'
                 PROVE  /\ calls'[i].stale = TRUE => "heap" \in calls'[i].back
                        /\ calls'[i].gone = TRUE => "ctx" \in calls'[i].back
      BY DEF RefsInv
    <2>1. CASE i = Last
      BY <1>1, <2>1
    <2>2. CASE i # Last
      BY <1>1, <2>2, HostcallRuns DEF RefsInv
    <2> QED
      BY <2>1, <2>2
  <1>8. DetailsInv'
    BY <1>3 DEF DetailsInv
  <1> QED
    BY <1>2, <1>4, <1>5, <1>6, <1>7, <1>8

\* The holders are the same but for the hostcall that runs.
LEMMA TopHolders ==
    ASSUME IndInv, InHostcall, NEW r \in Hostcall, calls' = [calls EXCEPT ![Last] = r],
           NEW mode
    PROVE  /\ r.ctx = mode /\ r.gone = FALSE =>
                 Holders(calls', mode) = Holders(calls, mode) \cup {Last}
           /\ ~(r.ctx = mode /\ r.gone = FALSE) =>
                 Holders(calls', mode) = Holders(calls, mode) \ {Last}
           /\ Last \in Holders(calls, mode) <=> Top.ctx = mode /\ Top.gone = FALSE
  BY TopChanges, HostcallRuns DEF Holders, Top

\* It keeps the context as it was.
LEMMA TopKeepsCtx ==
    ASSUME IndInv, InHostcall, NEW r \in Hostcall, calls' = [calls EXCEPT ![Last] = r],
           r.ctx = Top.ctx, r.gone = Top.gone, UNCHANGED <<ctx, abandoned>>
    PROVE  BorrowInv' /\ ctx' \in [present : BOOLEAN, borrows : Int]
  <1>1. ASSUME NEW mode PROVE Holders(calls', mode) = Holders(calls, mode)
    <2>1. CASE Last \in Holders(calls, mode)
      <3>1. Holders(calls', mode) = Holders(calls, mode) \cup {Last}
        BY <2>1, TopHolders
      <3> QED
        BY <2>1, <3>1
    <2>2. CASE Last \notin Holders(calls, mode)
      <3>1. Holders(calls', mode) = Holders(calls, mode) \ {Last}
        BY <2>2, TopHolders
      <3> QED
        BY <2>2, <3>1
    <2> QED
      BY <2>1, <2>2
  <1> QED
    BY <1>1 DEF BorrowInv, IndInv, CallTypeOK

\* What holds of what the running hostcall refers to.
LEMMA TopIsValid ==
    ASSUME IndInv, InHostcall
    PROVE  /\ Top \in Hostcall
           /\ Top.stale = TRUE => Top.heap # "free" /\ "heap" \in Top.back
           /\ Top.gone = TRUE => Top.ctx # "free" /\ "ctx" \in Top.back
  BY HostcallRuns DEF IndInv, CallInv, RefsInv, Top

\* Vmctx::heap and heap_mut: a borrow more, or a panic.
LEMMA BorrowHeapStep ==
    ASSUME IndInv, LifeInv', NEW mode \in Modes, BorrowHeap(mode)
    PROVE  IndInv'
  <1>1. InHostcall
    BY DEF BorrowHeap
  <1>2. CASE \E payload : Unwind(payload) /\ payload.kind \in {"OtherPanic", "BorrowError"}
    BY <1>1, <1>2, UnwindStep, ReasonsAre
  <1>3. CASE /\ Within([calls EXCEPT ![Last].heap = mode, ![Last].view = heapLen])
             /\ UNCHANGED ctx
    <2> DEFINE r == [[Top EXCEPT !.heap = mode] EXCEPT !.view = heapLen]
    <2>1. mode \in Holds /\ mode # "free" /\ heapLen \in Nat
      BY DEF Modes, Holds, IndInv, CallTypeOK
    <2>2. /\ r \in Hostcall /\ r.heap = mode /\ r.back = Top.back /\ r.stale = Top.stale
          /\ r.ctx = Top.ctx /\ r.gone = Top.gone
      BY <1>1, <2>1, TopIsValid DEF Hostcall
    <2>3. calls' = [calls EXCEPT ![Last] = r]
      BY <1>1, <1>3, HostcallRuns DEF Within, Top
    <2>4. UNCHANGED <<vars, inHost, heapLen, details, abandoned, ctx>>
      BY <1>3 DEF Within
    <2> HIDE DEF r
    <2>5. BorrowInv' /\ ctx' \in [present : BOOLEAN, borrows : Int]
      BY <1>1, <2>2, <2>3, <2>4, TopKeepsCtx
    <2> QED
      BY <1>1, <2>1, <2>2, <2>3, <2>4, <2>5, TopIsValid, TopStep
  <1>4. ASSUME NEW name PROVE BorrowError(name).kind = "BorrowError"
    BY DEF BorrowError
  <1> QED
    BY <1>2, <1>3, <1>4 DEF BorrowHeap

\* Vmctx::globals and globals_mut: a borrow more, or a panic.
LEMMA BorrowGlobalsStep ==
    ASSUME IndInv, LifeInv', NEW mode \in Modes, BorrowGlobals(mode)
    PROVE  IndInv'
  <1>1. InHostcall
    BY DEF BorrowGlobals
  <1>2. CASE \E payload : Unwind(payload) /\ payload.kind = "BorrowError"
    BY <1>1, <1>2, UnwindStep, ReasonsAre
  <1>3. CASE Within([calls EXCEPT ![Last].globals = mode]) /\ UNCHANGED ctx
    <2> DEFINE r == [Top EXCEPT !.globals = mode]
    <2>1. mode \in Holds
      BY DEF Modes, Holds
    <2>2. /\ r \in Hostcall /\ r.heap = Top.heap /\ r.back = Top.back
          /\ r.stale = Top.stale /\ r.ctx = Top.ctx /\ r.gone = Top.gone
      BY <1>1, <2>1, TopIsValid DEF Hostcall
    <2>3. calls' = [calls EXCEPT ![Last] = r]
      BY <1>1, <1>3, HostcallRuns DEF Within, Top
    <2>4. UNCHANGED <<vars, inHost, heapLen, details, abandoned, ctx>>
      BY <1>3 DEF Within
    <2> HIDE DEF r
    <2>5. BorrowInv' /\ ctx' \in [present : BOOLEAN, borrows : Int]
      BY <1>1, <2>2, <2>3, <2>4, TopKeepsCtx
    <2> QED
      BY <1>1, <2>2, <2>3, <2>4, <2>5, TopIsValid, TopStep
  <1>4. ASSUME NEW name PROVE BorrowError(name).kind = "BorrowError"
    BY DEF BorrowError
  <1> QED
    BY <1>2, <1>3, <1>4 DEF BorrowGlobals

\* Vmctx::get_embed_ctx and get_embed_ctx_mut: a borrow more, or a panic.
LEMMA BorrowCtxStep ==
    ASSUME IndInv, LifeInv', NEW mode \in Modes, BorrowCtx(mode)
    PROVE  IndInv'
  <1>1. InHostcall
    BY DEF BorrowCtx
  <1>2. CASE \E payload : Unwind(payload) /\ payload.kind \in {"CtxNotFound", "BorrowError"}
    BY <1>1, <1>2, UnwindStep, ReasonsAre
  <1>3. CASE /\ CellFree(mode) /\ Top.ctx = "free" /\ ctx' = Borrowed(ctx, mode)
             /\ Within([calls EXCEPT ![Last].ctx = mode])
    <2> DEFINE r == [Top EXCEPT !.ctx = mode]
    <2>1. mode \in Holds /\ mode \in {"shared", "mut"}
      BY DEF Modes, Holds
    <2>2. Top.gone = FALSE
      BY <1>1, <1>3, TopIsValid, HostcallFields
    <2>3. /\ r \in Hostcall /\ r.heap = Top.heap /\ r.back = Top.back
          /\ r.stale = Top.stale /\ r.ctx = mode /\ r.gone = FALSE
      BY <1>1, <2>1, <2>2, TopIsValid DEF Hostcall
    <2>4. calls' = [calls EXCEPT ![Last] = r]
      BY <1>1, <1>3, HostcallRuns DEF Within, Top
    <2>5. UNCHANGED <<vars, inHost, heapLen, details, abandoned>>
      BY <1>3 DEF Within
    <2> HIDE DEF r
    <2>6. /\ ctx \in [present : BOOLEAN, borrows : Int] /\ ctx.borrows \in Int
          /\ IsFiniteSet(Holders(calls, "shared"))
          /\ Counted(Holders(calls, "mut"), Holders(calls, "shared"), ctx.borrows,
                     abandoned)
      BY HoldersFinite DEF IndInv, CallTypeOK, BorrowInv
    <2>7. Last \notin Holders(calls, "mut") /\ Last \notin Holders(calls, "shared")
      BY <1>3 DEF Holders, Top
    <2>8. CASE mode = "mut"
      <3>1. /\ Holders(calls', "mut") = Holders(calls, "mut") \cup {Last}
            /\ Holders(calls', "shared") = Holders(calls, "shared")
        <4>1. Holders(calls', "shared") = Holders(calls, "shared") \ {Last}
          BY <1>1, <2>3, <2>4, <2>8, TopHolders
        <4>2. Holders(calls', "mut") = Holders(calls, "mut") \cup {Last}
          BY <1>1, <2>3, <2>4, <2>8, TopHolders
        <4> QED
          BY <2>7, <4>1, <4>2
      <3>2. ctx' = [ctx EXCEPT !.borrows = -1] /\ ctx.borrows = 0
        BY <1>3, <2>8 DEF Borrowed, CellFree
      <3>3. ctx' \in [present : BOOLEAN, borrows : Int] /\ ctx'.borrows = -1
        BY <2>6, <3>2
      <3>4. Counted(Holders(calls, "mut") \cup {Last}, Holders(calls, "shared"), -1,
                    abandoned)
        BY <2>6, <2>7, <3>2, BorrowCounts
      <3>5. BorrowInv'
        BY <2>5, <3>1, <3>3, <3>4 DEF BorrowInv
      <3> QED
        BY <1>1, <2>2, <2>3, <2>4, <2>5, <3>3, <3>5, TopIsValid, TopStep
    <2>9. CASE mode = "shared"
      <3>1. /\ Holders(calls', "shared") = Holders(calls, "shared") \cup {Last}
            /\ Holders(calls', "mut") = Holders(calls, "mut")
        <4>1. Holders(calls', "mut") = Holders(calls, "mut") \ {Last}
          BY <1>1, <2>3, <2>4, <2>9, TopHolders
        <4>2. Holders(calls', "shared") = Holders(calls, "shared") \cup {Last}
          BY <1>1, <2>3, <2>4, <2>9, TopHolders
        <4> QED
          BY <2>7, <4>1, <4>2
      <3>2. ctx' = [ctx EXCEPT !.borrows = ctx.borrows + 1] /\ ctx.borrows >= 0
        BY <1>3, <2>6, <2>9 DEF Borrowed, CellFree
      <3>3. ctx' \in [present : BOOLEAN, borrows : Int] /\ ctx'.borrows = ctx.borrows + 1
        BY <2>6, <3>2
      <3>4. Counted(Holders(calls, "mut"), Holders(calls, "shared") \cup {Last},
                    ctx.borrows + 1, abandoned)
        BY <2>6, <2>7, <3>2, BorrowCounts
      <3>5. BorrowInv'
        BY <2>5, <3>1, <3>3, <3>4 DEF BorrowInv
      <3> QED
        BY <1>1, <2>2, <2>3, <2>4, <2>5, <3>3, <3>5, TopIsValid, TopStep
    <2> QED
      BY <2>1, <2>8, <2>9
  <1>4. /\ \A name : BorrowError(name).kind = "BorrowError"
        /\ Payload("CtxNotFound").kind = "CtxNotFound"
    BY DEF BorrowError, Payload
  <1> QED
    BY <1>2, <1>3, <1>4 DEF BorrowCtx

\* Dropping a Ref to the heap gives its borrow back.
LEMMA DropsHeapStep ==
    ASSUME IndInv, DropsHeap
    PROVE  IndInv'
  <1>1. InHostcall
    BY DEF DropsHeap
  <1> DEFINE r == [[[Top EXCEPT !.heap = "free"] EXCEPT !.back = @ \ {"heap"}]
                      EXCEPT !.stale = FALSE]
  <1>2. Top \in Hostcall /\ "free" \in Holds /\ Top.back \subseteq {"heap", "ctx"}
    BY <1>1, TopIsValid, HostcallFields DEF Holds
  <1>3. /\ r \in Hostcall /\ r.back = Top.back \ {"heap"} /\ r.stale = FALSE
        /\ r.ctx = Top.ctx /\ r.gone = Top.gone
    BY <1>2 DEF Hostcall
  <1>4. calls' = [calls EXCEPT ![Last] = r]
    BY <1>1, HostcallRuns DEF DropsHeap, Within, Top
  <1>5. UNCHANGED <<vars, inHost, heapLen, details, abandoned, ctx>>
    BY DEF DropsHeap, Within
  <1> HIDE DEF r
  <1>6. BorrowInv' /\ ctx' \in [present : BOOLEAN, borrows : Int]
    BY <1>1, <1>3, <1>4, <1>5, TopKeepsCtx
  <1>7. r.gone = TRUE => r.ctx # "free" /\ "ctx" \in r.back
    BY <1>1, <1>3, TopIsValid
  <1> QED
    BY <1>1, <1>3, <1>4, <1>5, <1>6, <1>7, TopStep

\* Dropping a Ref to the globals gives its borrow back.
LEMMA DropsGlobalsStep ==
    ASSUME IndInv, DropsGlobals
    PROVE  IndInv'
  <1>1. InHostcall
    BY DEF DropsGlobals
  <1> DEFINE r == [Top EXCEPT !.globals = "free"]
  <1>2. Top \in Hostcall /\ "free" \in Holds
    BY <1>1, TopIsValid DEF Holds
  <1>3. /\ r \in Hostcall /\ r.heap = Top.heap /\ r.back = Top.back
        /\ r.stale = Top.stale /\ r.ctx = Top.ctx /\ r.gone = Top.gone
    BY <1>2 DEF Hostcall
  <1>4. calls' = [calls EXCEPT ![Last] = r]
    BY <1>1, HostcallRuns DEF DropsGlobals, Within, Top
  <1>5. UNCHANGED <<vars, inHost, heapLen, details, abandoned, ctx>>
    BY DEF DropsGlobals, Within
  <1> HIDE DEF r
  <1>6. BorrowInv' /\ ctx' \in [present : BOOLEAN, borrows : Int]
    BY <1>1, <1>3, <1>4, <1>5, TopKeepsCtx
  <1> QED
    BY <1>1, <1>3, <1>4, <1>5, <1>6, TopIsValid, TopStep

\* Dropping a Ref to an embedder context gives its borrow back.
LEMMA DropsCtxStep ==
    ASSUME IndInv, DropsCtx
    PROVE  IndInv'
  <1>1. InHostcall
    BY DEF DropsCtx
  <1> DEFINE r == [[[Top EXCEPT !.ctx = "free"] EXCEPT !.back = @ \ {"ctx"}]
                      EXCEPT !.gone = FALSE]
  <1>2. Top \in Hostcall /\ "free" \in Holds /\ Top.back \subseteq {"heap", "ctx"}
    BY <1>1, TopIsValid, HostcallFields DEF Holds
  <1>3. /\ r \in Hostcall /\ r.back = Top.back \ {"ctx"} /\ r.stale = Top.stale
        /\ r.heap = Top.heap /\ r.ctx = "free" /\ r.gone = FALSE
    BY <1>2 DEF Hostcall
  <1>4. calls' = [calls EXCEPT ![Last] = r]
    BY <1>1, HostcallRuns DEF DropsCtx, Within, Top
  <1>5. /\ UNCHANGED <<vars, inHost, heapLen, details, abandoned>>
        /\ ctx' = Released(ctx, calls[Last])
    BY DEF DropsCtx, Within, Top
  <1> HIDE DEF r
  <1>6. /\ Released(ctx, calls[Last]) \in [present : BOOLEAN, borrows : Int]
        /\ Counted(Holders(calls, "mut") \ {Last}, Holders(calls, "shared") \ {Last},
                   Released(ctx, calls[Last]).borrows, abandoned)
    BY <1>1, HostcallRuns, TopReleases DEF BorrowInv, CallTypeOK, IndInv
  <1>7. /\ Holders(calls', "mut") = Holders(calls, "mut") \ {Last}
        /\ Holders(calls', "shared") = Holders(calls, "shared") \ {Last}
    BY <1>1, <1>3, <1>4, TopHolders
  <1>8. BorrowInv'
    BY <1>5, <1>6, <1>7 DEF BorrowInv
  <1>9. r.stale = TRUE => r.heap # "free" /\ "heap" \in r.back
    BY <1>1, <1>3, TopIsValid
  <1> QED
    BY <1>1, <1>3, <1>4, <1>5, <1>6, <1>8, <1>9, TopStep

\* The hostcall calls back with all that it holds.
LEMMA CallsBackStep ==
    ASSUME IndInv, CallsBack
    PROVE  IndInv'
  <1> USE DEF IndInv
  <1>1. InHostcall
    BY DEF CallsBack
  <1> DEFINE held == {x \in {"heap", "ctx"} : Top[x] # "free"}
             r == [Top EXCEPT !.back = @ \cup held]
  <1>2. /\ Top \in Hostcall /\ Top.back \subseteq {"heap", "ctx"}
        /\ held \subseteq {"heap", "ctx"}
        /\ Top.heap # "free" => "heap" \in held
        /\ Top.ctx # "free" => "ctx" \in held
    BY <1>1, TopIsValid, HostcallFields
  <1>3. /\ r \in Hostcall /\ r.back = Top.back \cup held /\ r.stale = Top.stale
        /\ r.heap = Top.heap /\ r.ctx = Top.ctx /\ r.gone = Top.gone
    BY <1>2 DEF Hostcall
  <1>4. calls' = [calls EXCEPT ![Last] = r]
    BY <1>1, HostcallRuns DEF CallsBack, Top
  <1>5. /\ UNCHANGED <<vars, heapLen, details, abandoned, ctx>>
        /\ inHost' = FALSE
    BY DEF CallsBack
  <1> HIDE DEF r, held
  <1>6. BorrowInv' /\ ctx' \in [present : BOOLEAN, borrows : Int]
    BY <1>1, <1>3, <1>4, <1>5, TopKeepsCtx
  <1>7. /\ calls' \in Seq(Hostcall) /\ calls' # <<>>
        /\ Len(calls') = Last /\ DOMAIN calls' = DOMAIN calls
        /\ calls'[Last] = r
        /\ \A i \in DOMAIN calls : i # Last => calls'[i] = calls[i]
    BY <1>1, <1>3, <1>4, TopChanges
  <1>8. LifeInv'
    BY <1>5, LifeStep
  <1>9. frame' = frame /\ state' = state /\ frame.at = "running" /\ state = "Running"
    BY <1>1, <1>5, HostcallRuns DEF vars, instVars
  <1>10. Backed(r)
    BY <1>2, <1>3 DEF Backed
  <1>11. CallTypeOK'
    <2>1. heapLen' \in Nat /\ inHost' \in BOOLEAN /\ abandoned' \in BOOLEAN
      BY <1>5 DEF CallTypeOK
    <2> QED
      BY <1>6, <1>7, <2>1, Zenon DEF CallTypeOK
  <1>12. StandInv'
    BY <1>5, <1>7, <1>9 DEF StandInv
  <1>13. CallInv' /\ RefsInv'
    <2> SUFFICES ASSUME NEW i \in DOMAIN calls'
                 PROVE  /\ calls'[i].stale = TRUE =>
                              calls'[i].heap # "free" /\ "heap" \in calls'[i].back
                        /\ calls'[i].gone = TRUE =>
                              calls'[i].ctx # "free" /\ "ctx" \in calls'[i].back
                        /\ Backed(calls'[i])
      BY DEF CallInv, RefsInv, Backed
    <2>1. CASE i = Last
      BY <1>1, <1>2, <1>3, <1>7, <1>10, <2>1, TopIsValid
    <2>2. CASE i # Last
      BY <1>1, <1>7, <2>2, HostcallRuns DEF CallInv, RefsInv, Last
    <2> QED
      BY <2>1, <2>2
  <1>14. DetailsInv'
    BY <1>9 DEF DetailsInv
  <1> QED
    BY <1>6, <1>8, <1>11, <1>12, <1>13, <1>14

\* A hostcall begins with nothing borrowed.
LEMMA HostcallBeginsStep ==
    ASSUME IndInv, HostcallBegins
    PROVE  IndInv'
  <1> USE DEF IndInv
  <1> DEFINE r == NewVmctx(heapLen)
             n == Len(calls)
  <1>1. /\ calls \in Seq(Hostcall) /\ heapLen \in Nat /\ inHost = FALSE /\ Executing
        /\ n \in Nat /\ DOMAIN calls = 1 .. n
    BY LenProperties DEF HostcallBegins, InGuest, CallTypeOK
  <1>2. /\ r \in Hostcall /\ r.stale = FALSE /\ r.gone = FALSE /\ r.ctx = "free"
    BY <1>1 DEF NewVmctx, Hostcall, Holds
  <1> HIDE DEF r
  <1>3. /\ calls' = Append(calls, r) /\ inHost' = TRUE
        /\ UNCHANGED <<vars, heapLen, ctx, details, abandoned>>
    BY DEF HostcallBegins, r
  <1>4. /\ calls' \in Seq(Hostcall) /\ Len(calls') = n + 1 /\ DOMAIN calls' = 1 .. n + 1
        /\ calls'[n + 1] = r /\ \A i \in 1 .. n : calls'[i] = calls[i]
    BY <1>1, <1>2, <1>3
  <1> HIDE DEF n
  <1>5. /\ \A i \in 1 .. n + 1 : i = n + 1 \/ i \in 1 .. n
        /\ \A i \in 1 .. n : i \in 1 .. n + 1 /\ i # n + 1
        /\ n + 1 # 0
    BY <1>1
  <1>6. calls' # <<>>
    BY <1>4, <1>5, EmptySeq
  <1>7. LifeInv'
    BY <1>3, LifeStep
  <1>8. frame' = frame /\ state' = state /\ frame.at = "running" /\ state = "Running"
    BY <1>1, <1>3, GuestExecutes DEF vars, instVars
  <1>9. CallTypeOK'
    <2>1. /\ heapLen' \in Nat /\ inHost' \in BOOLEAN /\ abandoned' \in BOOLEAN
          /\ ctx' \in [present : BOOLEAN, borrows : Int]
      BY <1>3 DEF CallTypeOK
    <2> QED
      BY <1>4, <2>1, Zenon DEF CallTypeOK
  <1>10. StandInv'
    BY <1>3, <1>6, <1>8 DEF StandInv
  <1>11. CallInv' /\ RefsInv'
    <2>1. \A i \in 1 .. n : /\ Backed(calls[i])
                            /\ calls[i].stale = TRUE => calls[i].heap # "free"
                            /\ calls[i].gone = TRUE => calls[i].ctx # "free"
      BY <1>1 DEF CallInv
    <2> SUFFICES ASSUME NEW i \in 1 .. n + 1
                 PROVE  /\ calls'[i].stale = TRUE =>
                              calls'[i].heap # "free" /\ "heap" \in calls'[i].back
                        /\ calls'[i].gone = TRUE =>
                              calls'[i].ctx # "free" /\ "ctx" \in calls'[i].back
                        /\ i # n + 1 => Backed(calls'[i])
      BY <1>3, <1>4, <1>8 DEF CallInv, RefsInv, Backed
    <2>2. CASE i = n + 1
      BY <1>2, <1>4, <2>2
    <2>3. CASE i \in 1 .. n
      BY <1>4, <2>1, <2>3 DEF Backed
    <2> QED
      BY <1>5, <2>2, <2>3
  <1>12. BorrowInv'
    <2>1. ASSUME NEW mode, mode # "free" PROVE Holders(calls', mode) = Holders(calls, mode)
      BY <1>1, <1>2, <1>4, <1>5, <2>1 DEF Holders
    <2> QED
      BY <1>3, <2>1 DEF BorrowInv
  <1>13. DetailsInv'
    BY <1>8 DEF DetailsInv
  <1> QED
    BY <1>7, <1>9, <1>10, <1>11, <1>12, <1>13

\* A hostcall ends and gives back what it borrowed.
LEMMA HostcallEndsStep ==
    ASSUME IndInv, HostcallEnds
    PROVE  IndInv'
  <1> USE DEF IndInv
  <1>1. InHostcall
    BY DEF HostcallEnds
  <1>2. /\ calls' = SubSeq(calls, 1, Last - 1) /\ inHost' = FALSE
        /\ ctx' = Released(ctx, calls[Last])
        /\ UNCHANGED <<vars, heapLen, details, abandoned>>
    BY DEF HostcallEnds, Top
  <1>3. /\ Last \in Nat /\ Last \in 1 .. Last /\ calls \in Seq(Hostcall)
        /\ DOMAIN calls = 1 .. Last
    BY <1>1, HostcallRuns
  <1>4. calls' \in Seq(Hostcall) /\ DOMAIN calls' = 1 .. Last - 1
        /\ \A i \in 1 .. Last - 1 : calls'[i] = calls[i]
    BY <1>2, <1>3, SubSeqProperties DEF Last
  <1>5. \A i : i \in 1 .. Last - 1 <=> i \in 1 .. Last /\ i # Last
    BY <1>3
  <1>6. /\ Holders(calls', "mut") = Holders(calls, "mut") \ {Last}
        /\ Holders(calls', "shared") = Holders(calls, "shared") \ {Last}
    BY <1>3, <1>4, <1>5 DEF Holders
  <1>7. /\ Released(ctx, calls[Last]) \in [present : BOOLEAN, borrows : Int]
        /\ Counted(Holders(calls, "mut") \ {Last}, Holders(calls, "shared") \ {Last},
                   Released(ctx, calls[Last]).borrows, abandoned)
    BY <1>1, HostcallRuns, TopReleases DEF BorrowInv, CallTypeOK
  <1>8. BorrowInv'
    BY <1>2, <1>6, <1>7 DEF BorrowInv
  <1>9. LifeInv'
    BY <1>2, LifeStep
  <1>10. frame' = frame /\ state' = state /\ frame.at = "running" /\ state = "Running"
    BY <1>1, <1>2, HostcallRuns DEF vars, instVars
  <1>11. CallTypeOK'
    <2>1. heapLen' \in Nat /\ inHost' \in BOOLEAN /\ abandoned' \in BOOLEAN
          /\ ctx' \in [present : BOOLEAN, borrows : Int]
      BY <1>2, <1>7 DEF CallTypeOK
    <2> QED
      BY <1>4, <2>1, Zenon DEF CallTypeOK
  <1>12. StandInv'
    BY <1>2, <1>10 DEF StandInv
  <1>13. CallInv' /\ RefsInv'
    <2>1. \A i \in 1 .. Last - 1 :
             /\ Backed(calls[i])
             /\ calls[i].stale = TRUE => calls[i].heap # "free"
             /\ calls[i].gone = TRUE => calls[i].ctx # "free"
      BY <1>3, <1>5 DEF CallInv, Last
    <2> QED
      BY <1>4, <2>1 DEF CallInv, RefsInv, Backed
  <1>14. DetailsInv'
    BY <1>10 DEF DetailsInv
  <1> QED
    BY <1>8, <1>9, <1>11, <1>12, <1>13, <1>14

\* A guest function that a hostcall has called back returns.
LEMMA CallbackReturnsStep ==
    ASSUME IndInv, CallbackReturns
    PROVE  IndInv'
  <1> USE DEF IndInv
  <1>1. /\ inHost = FALSE /\ inHost' = TRUE /\ calls # <<>> /\ Executing
        /\ UNCHANGED <<vars, calls, heapLen, ctx, details, abandoned>>
    BY DEF CallbackReturns, InGuest, CallTypeOK
  <1>2. LifeInv'
    BY <1>1, LifeStep
  <1>3. frame' = frame /\ state' = state /\ frame.at = "running" /\ state = "Running"
    BY <1>1, GuestExecutes DEF vars, instVars
  <1>4. CallTypeOK'
    <2>1. /\ calls' \in Seq(Hostcall) /\ heapLen' \in Nat /\ abandoned' \in BOOLEAN
          /\ ctx' \in [present : BOOLEAN, borrows : Int] /\ inHost' \in BOOLEAN
      BY <1>1 DEF CallTypeOK
    <2> QED
      BY <2>1, Zenon DEF CallTypeOK
  <1>5. StandInv'
    BY <1>1, <1>3 DEF StandInv
  <1>6. CallInv' /\ RefsInv'
    BY <1>1, <1>3 DEF CallInv, RefsInv, Lost, Backed
  <1>7. BorrowInv' /\ DetailsInv'
    BY <1>1, <1>3 DEF BorrowInv, DetailsInv
  <1> QED
    BY <1>2, <1>4, <1>5, <1>6, <1>7

-----------------------------------------------------------------------------
(* Vmctx: the heap moves, the context is replaced.                         *)

\* A suspended guest that can be resumed has called back with all that it holds.
LEMMA SuspendedIsBacked ==
    ASSUME IndInv, Idle, ~Lost, NEW i \in DOMAIN calls
    PROVE  Backed(calls[i])
  <1> USE DEF IndInv
  <1>1. pc = "host" /\ task.on = FALSE
    BY IdleHoldsNone
  <1>2. calls # <<>>
    OBVIOUS
  <1>3. frame.at # "gone"
    BY <1>2 DEF StandInv
  <1>4. CASE state = "Yielded"
    <2>1. frame.at = "yield" /\ frame.waits # ResumeVal
      BY <1>1, <1>4 DEF LifeInv, HostStackInv, Lost
    <2> QED
      BY <2>1 DEF CallInv
  <1>5. CASE state = "BoundExpired"
    <2>1. inHost = FALSE
      BY <1>1, <1>5 DEF LifeInv, HostStackInv, StandInv
    <2> QED
      BY <2>1 DEF CallInv
  <1>6. CASE state \notin {"Yielded", "BoundExpired"}
    BY <1>1, <1>3, <1>6, Constants DEF LifeInv, HostStackInv
  <1> QED
    BY <1>4, <1>5, <1>6

\* Steps that change only the history of the hostcalls' references.
LEMMA HistoryStep ==
    ASSUME IndInv, calls' \in Seq(Hostcall), Len(calls') = Len(calls),
           DOMAIN calls' = DOMAIN calls,
           \A i \in DOMAIN calls :
              /\ calls'[i].heap = calls[i].heap /\ calls'[i].ctx = calls[i].ctx
              /\ calls'[i].back = calls[i].back
              /\ calls'[i].stale = TRUE => calls[i].heap # "free"
              /\ calls'[i].gone = TRUE => calls[i].ctx # "free"
              /\ ~Lost /\ calls'[i].stale = TRUE => "heap" \in calls[i].back
              /\ ~Lost /\ calls'[i].gone = TRUE => "ctx" \in calls[i].back,
           UNCHANGED <<vars, inHost, details, abandoned>>, heapLen' \in Nat,
           ctx' \in [present : BOOLEAN, borrows : Int], BorrowInv'
    PROVE  IndInv'
  <1> USE DEF IndInv
  <1>1. LifeInv'
    BY LifeStep
  <1>2. frame' = frame /\ state' = state /\ expecting' = expecting /\ task' = task
    BY DEF vars, instVars
  <1>3. CallTypeOK'
    <2>1. abandoned' \in BOOLEAN /\ inHost' \in BOOLEAN
      BY DEF CallTypeOK
    <2> QED
      BY <2>1, Zenon DEF CallTypeOK
  <1>4. StandInv'
    <2>1. calls = <<>> <=> calls' = <<>>
      BY EmptySeq DEF CallTypeOK
    <2> QED
      BY <1>2, <2>1 DEF StandInv
  <1>5. CallInv'
    BY <1>2 DEF CallInv, Backed
  <1>6. RefsInv'
    BY <1>2 DEF RefsInv, Lost
  <1>7. DetailsInv'
    BY <1>2 DEF DetailsInv
  <1> QED
    BY <1>1, <1>3, <1>4, <1>5, <1>6, <1>7

\* The heap moves under references that were held across a callback, or that will never
\* be used again.
LEMMA HeapMovedStep ==
    ASSUME IndInv, calls' = HeapMoved(calls),
           UNCHANGED <<vars, inHost, ctx, details, abandoned>>, heapLen' \in Nat,
           ~Lost => \A i \in DOMAIN calls : calls[i].heap # "free" => "heap" \in calls[i].back
    PROVE  IndInv'
  <1>1. calls \in Seq(Hostcall) /\ Len(calls) \in Nat /\ DOMAIN calls = 1 .. Len(calls)
    BY LenProperties DEF IndInv, CallTypeOK
  <1>2. ASSUME NEW i \in DOMAIN calls
        PROVE  /\ calls'[i] \in Hostcall
               /\ calls'[i].heap = calls[i].heap /\ calls'[i].ctx = calls[i].ctx
               /\ calls'[i].back = calls[i].back /\ calls'[i].gone = calls[i].gone
               /\ calls'[i].stale = TRUE => calls[i].stale = TRUE \/ calls[i].heap # "free"
    <2>1. PICK st \in BOOLEAN : /\ st = (calls[i].stale \/ calls[i].heap # "free")
                                /\ calls'[i] = [calls[i] EXCEPT !.stale = st]
      BY DEF HeapMoved
    <2>2. calls[i] \in Hostcall /\ calls[i].stale \in BOOLEAN
      BY <1>1, HostcallFields
    <2>3. /\ calls'[i] \in Hostcall
          /\ calls'[i].heap = calls[i].heap /\ calls'[i].ctx = calls[i].ctx
          /\ calls'[i].back = calls[i].back /\ calls'[i].gone = calls[i].gone
          /\ calls'[i].stale = st
      BY <2>1, <2>2 DEF Hostcall
    <2> QED
      BY <2>1, <2>2, <2>3
  <1>3. /\ DOMAIN calls' = DOMAIN calls /\ calls' \in [1 .. Len(calls) -> Hostcall]
    BY <1>1, <1>2 DEF HeapMoved
  <1>4. calls' \in Seq(Hostcall) /\ Len(calls') = Len(calls)
    BY <1>1, <1>3
  <1>5. ASSUME NEW i \in DOMAIN calls
        PROVE  /\ calls'[i].stale = TRUE => calls[i].heap # "free"
               /\ calls'[i].gone = TRUE => calls[i].ctx # "free"
               /\ ~Lost /\ calls'[i].stale = TRUE => "heap" \in calls[i].back
               /\ ~Lost /\ calls'[i].gone = TRUE => "ctx" \in calls[i].back
    BY <1>2 DEF IndInv, CallInv, RefsInv
  <1>6. BorrowInv' /\ ctx' \in [present : BOOLEAN, borrows : Int]
    <2>1. ASSUME NEW mode PROVE Holders(calls', mode) = Holders(calls, mode)
      BY <1>2, <1>3 DEF Holders
    <2> QED
      BY <2>1 DEF BorrowInv, IndInv, CallTypeOK
  <1> QED
    BY <1>2, <1>3, <1>4, <1>5, <1>6, HistoryStep

\* The embedder replaces or removes the context: nobody holds the new one.
LEMMA SetCtxStep ==
    ASSUME IndInv, NEW present \in BOOLEAN, SetCtx(present)
    PROVE  IndInv'
  <1>1. calls \in Seq(Hostcall) /\ Len(calls) \in Nat /\ DOMAIN calls = 1 .. Len(calls)
    BY LenProperties DEF IndInv, CallTypeOK
  <1>2. /\ calls' = CtxReplaced(calls) /\ ctx' = [present |-> present, borrows |-> 0]
        /\ UNCHANGED <<vars, inHost, heapLen, details, abandoned>>
    BY DEF SetCtx
  <1>3. ASSUME NEW i \in DOMAIN calls
        PROVE  /\ calls'[i] \in Hostcall
               /\ calls'[i].heap = calls[i].heap /\ calls'[i].ctx = calls[i].ctx
               /\ calls'[i].back = calls[i].back /\ calls'[i].stale = calls[i].stale
               /\ calls'[i].gone = TRUE => calls[i].gone = TRUE \/ calls[i].ctx # "free"
               /\ calls[i].ctx # "free" => calls'[i].gone = TRUE
    <2>1. PICK g \in BOOLEAN : /\ g = (calls[i].gone \/ calls[i].ctx # "free")
                               /\ calls'[i] = [calls[i] EXCEPT !.gone = g]
      BY <1>2 DEF CtxReplaced
    <2>2. calls[i] \in Hostcall /\ calls[i].gone \in BOOLEAN
      BY <1>1, HostcallFields
    <2>3. /\ calls'[i] \in Hostcall
          /\ calls'[i].heap = calls[i].heap /\ calls'[i].ctx = calls[i].ctx
          /\ calls'[i].back = calls[i].back /\ calls'[i].stale = calls[i].stale
          /\ calls'[i].gone = g
      BY <2>1, <2>2 DEF Hostcall
    <2> QED
      BY <2>1, <2>2, <2>3
  <1>4. DOMAIN calls' = DOMAIN calls /\ calls' \in [1 .. Len(calls) -> Hostcall]
    BY <1>1, <1>2, <1>3 DEF CtxReplaced
  <1>5. calls' \in Seq(Hostcall) /\ Len(calls') = Len(calls)
    BY <1>1, <1>4
  <1>6. ASSUME NEW i \in DOMAIN calls
        PROVE  /\ calls'[i].stale = TRUE => calls[i].heap # "free"
               /\ calls'[i].gone = TRUE => calls[i].ctx # "free"
               /\ ~Lost /\ calls'[i].stale = TRUE => "heap" \in calls[i].back
               /\ ~Lost /\ calls'[i].gone = TRUE => "ctx" \in calls[i].back
    <2>1. /\ calls[i].stale = TRUE => calls[i].heap # "free"
          /\ calls[i].gone = TRUE => calls[i].ctx # "free"
      BY DEF IndInv, CallInv
    <2>2. ~Lost => Backed(calls[i])
      BY SuspendedIsBacked DEF SetCtx
    <2> QED
      BY <1>3, <2>1, <2>2 DEF Backed
  <1>7. ctx' \in [present : BOOLEAN, borrows : Int] /\ ctx'.borrows = 0
    BY <1>2
  <1>8. BorrowInv'
    <2>1. Holders(calls', "mut") = {} /\ Holders(calls', "shared") = {}
      BY <1>3, <1>4 DEF Holders
    <2>2. Counted({}, {}, 0, abandoned')
      BY FS_EmptySet DEF Counted
    <2> QED
      BY <1>7, <2>1, <2>2 DEF BorrowInv
  <1>9. heapLen' \in Nat
    BY <1>2 DEF IndInv, CallTypeOK
  <1> QED
    BY <1>2, <1>3, <1>4, <1>5, <1>6, <1>7, <1>8, <1>9, HistoryStep

\* Growth by whoever: the embedder, the guest, or a hostcall that holds no heap.
LEMMA GrowStep ==
    ASSUME IndInv, NEW pages \in Pages, Grow(pages),
           ~Lost => \A i \in DOMAIN calls : calls[i].heap # "free" => "heap" \in calls[i].back
    PROVE  IndInv'
  <1>1. heapLen' \in Nat
    <2>1. heapLen \in Nat /\ pages \in Nat /\ heapLen' = heapLen + pages
      BY VmctxAssumption DEF Pages, Grow, IndInv, CallTypeOK
    <2> QED
      BY <2>1
  <1> QED
    BY <1>1, HeapMovedStep DEF Grow

\* Nothing changes.
LEMMA InvUnchanged ==
    ASSUME IndInv, UNCHANGED <<vars, calls, inHost, heapLen, ctx, details, abandoned>>
    PROVE  IndInv'
  <1> USE DEF IndInv
  <1>1. LifeInv'
    BY LifeStep
  <1>2. frame' = frame /\ state' = state /\ expecting' = expecting /\ task' = task
    BY DEF vars, instVars
  <1>3. CallTypeOK'
    <2>1. /\ calls' \in Seq(Hostcall) /\ heapLen' \in Nat /\ abandoned' \in BOOLEAN
          /\ ctx' \in [present : BOOLEAN, borrows : Int] /\ inHost' \in BOOLEAN
      BY DEF CallTypeOK
    <2> QED
      BY <2>1, Zenon DEF CallTypeOK
  <1>4. StandInv' /\ CallInv' /\ RefsInv'
    BY <1>2 DEF StandInv, CallInv, RefsInv, Lost, Backed
  <1>5. BorrowInv' /\ DetailsInv'
    BY <1>2 DEF BorrowInv, DetailsInv
  <1> QED
    BY <1>1, <1>3, <1>4, <1>5

\* Growing the heap, by the host, by a hostcall or by guest code.
LEMMA GrowsStep ==
    ASSUME IndInv, LifeInv', NEW pages \in Pages,
           HostGrows(pages) \/ HostcallGrows(pages) \/ GuestGrows(pages)
    PROVE  IndInv'
  <1>1. CASE UNCHANGED allVars
    BY <1>1, InvUnchanged DEF allVars, callVars
  <1>2. CASE HostGrows(pages) /\ Grow(pages)
    BY <1>2, GrowStep, SuspendedIsBacked DEF HostGrows, Backed
  <1>3. CASE HostcallGrows(pages) /\ ~HeapHeld /\ Grow(pages)
    <2>1. Top.heap = "free" /\ InHostcall
      BY <1>3 DEF HeapHeld, HostcallGrows
    <2>2. \A i \in DOMAIN calls : calls[i].heap # "free" => "heap" \in calls[i].back
      BY <2>1, HostcallRuns DEF Top, Last, IndInv, CallInv, Backed
    <2> QED
      BY <1>3, <2>2, GrowStep
  <1>4. CASE InHostcall /\ Unwind(BorrowError("heap"))
    BY <1>4, UnwindStep, ReasonsAre DEF BorrowError
  <1>5. CASE InHostcall /\ Unwind(Payload("HeapOutOfMemory"))
    BY <1>5, UnwindStep, ReasonsAre DEF Payload
  <1>6. CASE InGuest /\ Grow(pages)
    <2>1. inHost = FALSE
      BY <1>6 DEF InGuest, IndInv, CallTypeOK
    <2>2. \A i \in DOMAIN calls : calls[i].heap # "free" => "heap" \in calls[i].back
      BY <2>1 DEF IndInv, CallInv, Backed
    <2> QED
      BY <1>6, <2>2, GrowStep
  <1>7. CASE /\ InGuest /\ GuestTerminates /\ Follow
             /\ details' = Payload("HeapOutOfMemory") /\ UNCHANGED heapLen
    <2>1. frame' = NoFrame
      BY <1>7 DEF GuestTerminates, SwapOut
    <2>2. DetailsInv' /\ heapLen' \in Nat
      BY <1>7, ReasonsAre DEF Payload, DetailsInv, IndInv, CallTypeOK
    <2> QED
      BY <1>7, <2>1, <2>2, FollowStep DEF FrameKept, StaysLost
  <1> QED
    BY <1>1, <1>2, <1>3, <1>4, <1>5, <1>6, <1>7
       DEF HostGrows, HostcallGrows, GuestGrows, GrowRefused

\* The host uses the heap of an idle instance.
LEMMA HostWritesHeapStep ==
    ASSUME IndInv, HostWritesHeap
    PROVE  IndInv'
  <1>1. /\ calls' = HeapMoved(calls) /\ Idle /\ heapLen' \in Nat
        /\ UNCHANGED <<vars, inHost, ctx, details, abandoned>>
    BY DEF HostWritesHeap, IndInv, CallTypeOK
  <1>2. ~Lost => \A i \in DOMAIN calls : calls[i].heap # "free" => "heap" \in calls[i].back
    BY <1>1, SuspendedIsBacked DEF Backed
  <1> QED
    BY <1>1, <1>2, HeapMovedStep

-----------------------------------------------------------------------------
(* Vmctx: yielding and blocking.                                           *)

\* What is held is counted.
LEMMA HeldIsCounted ==
    ASSUME NEW muts, NEW shares, IsFiniteSet(shares), NEW n \in Int, NEW given,
           Counted(muts, shares, n, given), n = 0
    PROVE  muts = {} /\ shares = {}
  <1>1. Cardinality(shares) \in Nat /\ (Cardinality(shares) = 0 <=> shares = {})
    BY FS_CardinalityType, FS_EmptySet
  <1> QED
    BY <1>1 DEF Counted

\* A guest that is suspended in a hostcall, whether or not it looked for borrows.
LEMMA SuspendStep ==
    ASSUME IndInv, LifeInv', InHostcall, frame'.at = "yield", state' = "Yielding",
           UNCHANGED callVars, frame'.waits # ResumeVal => Backed(Top)
    PROVE  IndInv'
  <1> USE DEF IndInv
  <1>1. UNCHANGED <<calls, inHost, heapLen, ctx, details, abandoned>>
    BY DEF callVars
  <1>2. CallTypeOK'
    <2>1. /\ calls' \in Seq(Hostcall) /\ heapLen' \in Nat /\ abandoned' \in BOOLEAN
          /\ ctx' \in [present : BOOLEAN, borrows : Int] /\ inHost' \in BOOLEAN
      BY <1>1 DEF CallTypeOK
    <2> QED
      BY <2>1, Zenon DEF CallTypeOK
  <1>3. StandInv'
    BY <1>1, HostcallRuns DEF StandInv
  <1>4. CallInv'
    BY <1>1, HostcallRuns DEF CallInv, Backed, Top, Last
  <1>5. RefsInv'
    BY <1>1, HostcallRuns DEF RefsInv
  <1>6. BorrowInv' /\ DetailsInv'
    BY <1>1 DEF BorrowInv, DetailsInv
  <1> QED
    BY <1>2, <1>3, <1>4, <1>5, <1>6

\* ensure_no_borrows looks at everything that the hostcall could hold.
LEMMA NoObstacle ==
    ASSUME IndInv, InHostcall, Obstacle = None
    PROVE  Backed(Top)
  <1>1. Top.heap = "free" /\ ctx.borrows = 0
    BY DEF Obstacle
  <1>2. /\ IsFiniteSet(Holders(calls, "shared")) /\ ctx.borrows \in Int
        /\ Counted(Holders(calls, "mut"), Holders(calls, "shared"), ctx.borrows, abandoned)
    BY HoldersFinite DEF IndInv, CallTypeOK, BorrowInv
  <1>3. Holders(calls, "mut") = {} /\ Holders(calls, "shared") = {}
    BY <1>1, <1>2, HeldIsCounted
  <1>4. Top.ctx \in Holds /\ Top.gone \in BOOLEAN /\ Last \in DOMAIN calls
    BY HostcallRuns, HostcallFields
  <1>5. Top.ctx = "free" \/ Top.gone = TRUE
    BY <1>3, <1>4 DEF Holders, Holds, Top
  <1> QED
    BY <1>1, <1>5, TopIsValid DEF Backed

\* Yielding and blocking on a future, from a hostcall.
LEMMA YieldsStep ==
    ASSUME IndInv, LifeInv', (\E type \in Types : HostcallYields(type)) \/ HostcallBlocks
    PROVE  IndInv'
  <1>1. InHostcall
    BY DEF HostcallYields, HostcallBlocks
  <1>2. CASE \E payload :
             Unwind(payload) /\ payload.kind \in {"BorrowError", "BlockOnNeedsAsync"}
    BY <1>1, <1>2, UnwindStep, ReasonsAre
  <1>3. frame \in Frame
    BY DEF IndInv, LifeInv, TypeOK
  <1>4. ASSUME NEW type \in Types, Obstacle = None, GuestYields(type), UNCHANGED callVars
        PROVE  IndInv'
    <2>1. frame'.at = "yield" /\ state' = "Yielding"
      BY <1>3, <1>4 DEF GuestYields, SwapOut, Frame
    <2> QED
      BY <1>1, <1>4, <2>1, NoObstacle, SuspendStep
  <1>5. ASSUME MayBlock, GuestBlocks, UNCHANGED callVars
        PROVE  IndInv'
    <2>1. frame'.at = "yield" /\ frame'.waits = ResumeVal /\ state' = "Yielding"
      BY <1>3, <1>5 DEF GuestBlocks, SwapOut, Frame
    <2> QED
      BY <1>1, <1>5, <2>1, SuspendStep
  <1>6. /\ \A name : BorrowError(name).kind = "BorrowError"
        /\ Payload("BlockOnNeedsAsync").kind = "BlockOnNeedsAsync"
    BY DEF BorrowError, Payload
  <1>7. CASE \E type \in Types : HostcallYields(type)
    BY <1>2, <1>4, <1>6, <1>7 DEF HostcallYields
  <1>8. CASE HostcallBlocks
    BY <1>2, <1>5, <1>6, <1>8 DEF HostcallBlocks
  <1> QED
    BY <1>7, <1>8

-----------------------------------------------------------------------------
(* The theorems about Vmctx and the C API.                                 *)

\* The invariant holds of a new instance.
LEMMA InvInit == VmctxInit => IndInv
  <1> SUFFICES ASSUME VmctxInit PROVE IndInv
    OBVIOUS
  <1> USE DEF VmctxInit
  <1>1. LifeInv
    BY LifeInit
  <1>2. CallTypeOK
    <2>1. calls \in Seq(Hostcall) /\ heapLen \in Nat
      BY EmptySeq
    <2>2. ctx \in [present : BOOLEAN, borrows : Int]
      OBVIOUS
    <2>3. abandoned \in BOOLEAN /\ inHost \in BOOLEAN
      OBVIOUS
    <2> QED
      BY <2>1, <2>2, <2>3, Zenon DEF CallTypeOK
  <1>3. StandInv /\ CallInv /\ RefsInv
    <2>1. frame.at = "gone"
      BY Constants DEF Init
    <2> QED
      BY <2>1 DEF StandInv, CallInv, RefsInv
  <1>4. BorrowInv
    <2>1. Counted({}, {}, 0, abandoned)
      BY FS_EmptySet DEF Counted
    <2> QED
      BY <2>1, NoHolders DEF BorrowInv
  <1>5. DetailsInv
    BY DEF DetailsInv, Init, Unstarted
  <1> QED
    BY <1>1, <1>2, <1>3, <1>4, <1>5 DEF IndInv

\* Every step of the composed system keeps the invariant.
LEMMA InvStep == IndInv /\ [VmctxNext]_allVars => IndInv'
  <1> SUFFICES ASSUME IndInv, [VmctxNext]_allVars PROVE IndInv'
    OBVIOUS
  <1>1. LifeInv'
    BY StepIsLifecycle, LifeStep DEF IndInv
  <1>2. CASE UNCHANGED allVars
    BY <1>2, InvUnchanged DEF allVars, callVars
  <1>3. CASE HostStep \/ ResetStep \/ GuestStep
    BY <1>1, <1>3, HostStepKeeps, ResetStepKeeps, GuestStepKeeps
  <1>4. ASSUME NEW present \in BOOLEAN, SetCtx(present) PROVE IndInv'
    BY <1>4, SetCtxStep
  <1>5. ASSUME NEW terminate \in BOOLEAN, SetTerminateOnHeapOom(terminate) PROVE IndInv'
    BY <1>5, InvUnchanged DEF SetTerminateOnHeapOom
  <1>6. CASE HostWritesHeap \/ HostcallBegins \/ HostcallEnds \/ CallsBack \/ CallbackReturns
    BY <1>6, HostWritesHeapStep, HostcallBeginsStep, HostcallEndsStep, CallsBackStep,
       CallbackReturnsStep
  <1>7. ASSUME NEW kind \in {"Provided", "OtherPanic"}, HostcallPanics(kind) PROVE IndInv'
    <2>1. Payload(kind).kind \in Reasons
      BY ReasonsAre DEF Payload
    <2> QED
      BY <1>1, <1>7, <2>1, UnwindStep DEF HostcallPanics
  <1>8. ASSUME NEW mode \in Modes,
     BorrowHeap(mode) \/ BorrowGlobals(mode) \/ BorrowCtx(mode)
        PROVE  IndInv'
    BY <1>1, <1>8, BorrowHeapStep, BorrowGlobalsStep, BorrowCtxStep
  <1>9. CASE DropsHeap \/ DropsGlobals \/ DropsCtx
    BY <1>9, DropsHeapStep, DropsGlobalsStep, DropsCtxStep
  <1>10. CASE (\E type \in Types : HostcallYields(type)) \/ HostcallBlocks
    BY <1>1, <1>10, YieldsStep
  <1>11. ASSUME NEW pages \in Pages,
                HostGrows(pages) \/ HostcallGrows(pages) \/ GuestGrows(pages)
         PROVE  IndInv'
    BY <1>1, <1>11, GrowsStep
  <1> QED
    BY <1>2, <1>3, <1>4, <1>5, <1>6, <1>7, <1>8, <1>9, <1>10, <1>11 DEF VmctxNext

\* The invariant holds of every behaviour of Vmctx.
THEOREM InvAlways == VmctxSpec => []IndInv
  BY InvInit, InvStep, PTL DEF VmctxSpec

\* A hostcall finds the references that it took as they were, unless it has called back
\* into the guest since: yields look for borrows, and a guest that blocked with a borrow is
\* resumed before the embedder can move what it refers to, or never.
THEOREM ReferencesStayValid == VmctxSpec => []RefsValid
  <1>1. IndInv => RefsValid
    <2> SUFFICES ASSUME IndInv, Executing, NEW i \in DOMAIN calls
                 PROVE  /\ calls[i].stale => "heap" \in calls[i].back
                        /\ calls[i].gone => "ctx" \in calls[i].back
      BY DEF RefsValid
    <2>1. ~Lost
      BY GuestExecutes DEF IndInv, Lost
    <2>2. calls[i].stale \in BOOLEAN /\ calls[i].gone \in BOOLEAN
      BY LenProperties, HostcallFields DEF IndInv, CallTypeOK
    <2> QED
      BY <2>1, <2>2 DEF IndInv, RefsInv
  <1> QED
    BY InvAlways, <1>1, PTL

\* catch_unwind in lucet_hostcall lets a hostcall that panics drop its borrow of the
\* context: it can leave one behind only where hostcalls below it were given up.
THEOREM PanicsGiveBack == VmctxSpec => []UnwindingReleases
  <1>1. IndInv => UnwindingReleases
    <2> SUFFICES ASSUME IndInv, frame = NoFrame, ~abandoned PROVE ctx.borrows = 0
      BY DEF UnwindingReleases
    <2>1. calls = <<>> /\ abandoned = FALSE
      BY Constants DEF IndInv, StandInv, CallTypeOK
    <2>2. Counted({}, {}, ctx.borrows, FALSE)
      BY <2>1, NoHolders DEF IndInv, BorrowInv
    <2> QED
      BY <2>2, FS_EmptySet DEF Counted
  <1> QED
    BY InvAlways, <1>1, PTL

\* What lucet_instance_run and lucet_instance_resume report is what became of the instance,
\* and a termination has one of the reasons of lucet_terminated_reason.
THEOREM CResultsAgree == VmctxSpec => []CResultAgrees
  <1>1. IndInv => CResultAgrees
    <2> SUFFICES ASSUME IndInv, ResultWritten
                 PROVE  LET err == LucetError(result.kind)
                            tag == LucetResultTag(result.kind)
                        IN  /\ tag = "Returned" => state = "Ready" /\ frame = NoFrame
                            /\ tag = "Yielded" => state = "Yielded" /\ frame.waits = expecting
                            /\ tag = "Faulted" => state = "Faulted" /\ ~fatal
                            /\ tag = "Terminated" =>
                                  /\ state = "Terminated"
                                  /\ \E n \in DOMAIN RustReasons :
                                        RustReasons[n] = details.kind
                            /\ tag = "Errored" =>
                                  \/ err = "InstanceNeedsStart" /\ state = "NotStarted"
                                  \/ /\ err = "InvalidArgument"
                                     /\ result.api = "run" => ~Runnable(result.func)
                                  \/ /\ err = "Internal" /\ frame = NoFrame
                                     /\ state \in {"NotStarted", "Ready", "Transitioning"}
      BY DEF CResultAgrees
    <2>0. pc = "host"
      <3>1. result # NoResult
        BY DEF ResultWritten
      <3> QED
        BY <3>1 DEF IndInv, LifeInv, ResultInv
    <2>1. /\ pc = "host" /\ result.kind # "ok" /\ Comes(result.kind)
          /\ result.kind = "returned" => state = "Ready"
          /\ result.kind = "yielded" => state = "Yielded"
          /\ result.kind = "fault" => state = "Faulted" /\ fatal = FALSE
          /\ result.kind = "terminated" => state = "Terminated"
      BY <2>0 DEF ResultWritten, IndInv, LifeInv, ResultInv
    <2>9. /\ result.kind = "needs start" => state = "NotStarted"
          /\ result.kind = "invalid argument" /\ result.api = "run" => ~Runnable(result.func)
          /\ result.kind = "setup error" => state \in {"NotStarted", "Ready"}
          /\ result.kind = "details error" => state = "Transitioning"
          /\ result.kind \notin {"start already run", "unsupported"}
      BY DEF ResultWritten, IndInv, LifeInv, ResultInv, ErrorInv
    <2>2. /\ state \in {"Ready", "NotStarted", "Transitioning"} => frame = NoFrame
          /\ state = "Yielded" => frame.waits = expecting
      BY <2>1 DEF IndInv, LifeInv, HostStackInv
    <2>3. state = "Terminated" => \E n \in DOMAIN RustReasons : RustReasons[n] = details.kind
      BY DEF IndInv, DetailsInv, Reasons
    <2>4. CASE result.kind = "returned"
      BY <2>1, <2>2, <2>4 DEF LucetError, LucetResultTag
    <2>5. CASE result.kind = "yielded"
      BY <2>1, <2>2, <2>5 DEF LucetError, LucetResultTag
    <2>6. CASE result.kind = "fault"
      BY <2>1, <2>6 DEF LucetError, LucetResultTag
    <2>7. CASE result.kind = "terminated"
      BY <2>1, <2>3, <2>7 DEF LucetError, LucetResultTag
    <2>8. CASE result.kind \in {"needs start", "invalid argument", "setup error",
                                "details error"}
      <3>1. LucetResultTag(result.kind) = "Errored"
        BY <2>8 DEF LucetResultTag
      <3>2. CASE result.kind = "needs start"
        BY <2>9, <3>1, <3>2 DEF LucetError
      <3>3. CASE result.kind = "invalid argument"
        BY <2>9, <3>1, <3>3 DEF LucetError
      <3>4. CASE result.kind \in {"setup error", "details error"}
        <4>1. LucetError(result.kind) = "Internal"
          BY <3>4 DEF LucetError
        <4> QED
          BY <2>2, <2>9, <3>1, <3>4, <4>1
      <3> QED
        BY <2>8, <3>2, <3>3, <3>4
    <2> QED
      BY <2>1, <2>9, <2>4, <2>5, <2>6, <2>7, <2>8 DEF Comes
  <1> QED
    BY InvAlways, <1>1, PTL
=============================================================================
