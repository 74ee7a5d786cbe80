------------------------------- MODULE Vmctx -------------------------------
(***************************************************************************)
(* What a hostcall may do with its Vmctx, on top of Lifecycle: borrow the  *)
(* heap, the globals and an embedder context, grow the memory, yield,      *)
(* block on a future, call back into the guest, and panic.                 *)
(*                                                                         *)
(* A hostcall has a Vmctx of its own, with a RefCell for its view of the   *)
(* heap and one for the globals; the RefCells of the embedder contexts are *)
(* the instance's.  Of these contexts the model has one.  Several shared   *)
(* borrows by one hostcall are modelled as one.  Contents of the heap, the *)
(* globals and the context are left out: the model notes instead which     *)
(* references have outlived what they refer to.                            *)
(*                                                                         *)
(* Sources: lucet-runtime-internals/src/vmctx.rs and embed_ctx.rs, and     *)
(* lucet-runtime-macros/src/lib.rs.  A definition that directly precedes   *)
(* one of nearly the same name and is used nowhere is that definition with *)
(* a slip in it.                                                           *)
(***************************************************************************)
EXTENDS Lifecycle, Integers, Sequences

CONSTANTS
    MaxDepth,    \* bound: hostcalls on the guest's stack
    MaxHeap,     \* the pages to which the heap may grow
    MaxBorrows   \* bound: shared borrows of the embedder context

ASSUME VmctxAssumption ==
    MaxDepth \in Nat /\ MaxHeap \in Nat /\ MaxBorrows \in Nat

VARIABLES
    calls,       \* the hostcalls on the guest's stack
    inHost,      \* does the last of them run, or guest code?
    heapLen,     \* the pages by which the heap has grown
    oomTerminates,\* Instance::terminate_on_heap_oom
    ctx,         \* the embedder context and its RefCell
    details,     \* the TerminationDetails of the last termination
    abandoned    \* history: has a hostcall that held the context been given up
                 \* without unwinding?

callVars == <<calls, inHost, heapLen, oomTerminates, ctx, details, abandoned>>
allVars == <<vars, callVars>>

Modes == {"shared", "mut"}

\* Vmctx::from_raw.  `view` is the length of heap_view.  The last three are history:
\* what the hostcall held when it called back into the guest; whether the heap has
\* changed, or the context been replaced, under its reference.
NewVmctx(len) ==
    [heap |-> "free", globals |-> "free", ctx |-> "free", view |-> len,
     back |-> {}, stale |-> FALSE, gone |-> FALSE]

NoDetails == [kind |-> None, by |-> None]
BorrowError(by) == [kind |-> "BorrowError", by |-> by]
Payload(kind) == [kind |-> kind, by |-> None]

VmctxInit ==
    /\ Init
    /\ calls = <<>>
    /\ inHost = FALSE
    /\ heapLen = 0
    /\ oomTerminates = FALSE
    /\ ctx = [present |-> FALSE, borrows |-> 0]
    /\ details = NoDetails
    /\ abandoned = FALSE

Last == Len(calls)
Top == calls[Last]
InHostcall == Executing /\ inHost
InGuest == Executing /\ ~inHost

-----------------------------------------------------------------------------
(* RefCells.                                                               *)

Free(mode, held) == held = "free" \/ (mode = "shared" /\ held = "shared")

\* CtxMap's cell: -1 when it is borrowed mutably, else the number of shared borrows.
CellFree(mode) == ctx.borrows = 0 \/ (mode = "shared" /\ ctx.borrows > 0)
Borrowed(c, mode) == [c EXCEPT !.borrows = IF mode = "mut" THEN -1 ELSE @ + 1]
Released(c, h) ==
    IF h.gone THEN c
    ELSE CASE h.ctx = "shared" -> [c EXCEPT !.borrows = @ - 1]
           [] h.ctx = "mut" -> [c EXCEPT !.borrows = 0]
           [] h.ctx = "free" -> c

Holding(cs) == \E i \in DOMAIN cs : cs[i].ctx # "free" /\ ~cs[i].gone

\* The heap has grown, or the host may have written to it.
HeapMoved(cs) == [i \in DOMAIN cs |-> [cs[i] EXCEPT !.stale = @ \/ cs[i].heap # "free"]]

\* The context has been replaced or removed.
CtxReplaced(cs) == [i \in DOMAIN cs |-> [cs[i] EXCEPT !.gone = @ \/ cs[i].ctx # "free"]]

-----------------------------------------------------------------------------
(* Entering and leaving.                                                   *)

\* The hostcalls' part of a step of Lifecycle: when the guest's stack is given up, they
\* are given up without unwinding, and what they borrowed stays borrowed.
CallsLeft == IF frame' = NoFrame THEN <<>> ELSE calls

Follow ==
    /\ calls' = CallsLeft
    /\ inHost' = (frame' # NoFrame /\ inHost)
    /\ abandoned' = (abandoned \/ (frame' = NoFrame /\ Holding(calls)))
    /\ UNCHANGED <<ctx, oomTerminates>>

\* lucet_hostcall's catch_unwind and terminate_no_unwind: the hostcall that panicked drops
\* what it borrowed, the ones below it do not.
UnwoundNot(c, h) == c
Unwound(c, h) == Released(c, h)

Unwind(payload) ==
    /\ SwapOut("Terminating", NoFrame)
    /\ details' = payload
    /\ ctx' = Unwound(ctx, Top)
    /\ abandoned' = (abandoned \/ Holding(SubSeq(calls, 1, Last - 1)))
    /\ calls' = <<>>
    /\ inHost' = FALSE
    /\ UNCHANGED <<expecting, fatal, future, settled, heapLen, oomTerminates>>

\* Steps within a hostcall that leave the instance alone.
Within(cs) ==
    /\ calls' = cs
    /\ UNCHANGED <<vars, inHost, heapLen, oomTerminates, details, abandoned>>

HostcallBegins ==
    /\ InGuest
    /\ Last < MaxDepth
    /\ calls' = Append(calls, NewVmctx(heapLen))
    /\ inHost' = TRUE
    /\ UNCHANGED <<vars, heapLen, oomTerminates, ctx, details, abandoned>>

HostcallEnds ==
    /\ InHostcall
    /\ ctx' = Released(ctx, Top)
    /\ calls' = SubSeq(calls, 1, Last - 1)
    /\ inHost' = FALSE
    /\ UNCHANGED <<vars, heapLen, oomTerminates, details, abandoned>>

\* The hostcall calls a function it got from get_func_from_idx, and that returns.
CallsBack ==
    /\ InHostcall
    /\ calls' = [calls EXCEPT ![Last].back = @ \cup {r \in {"heap", "ctx"} : Top[r] # "free"}]
    /\ inHost' = FALSE
    /\ UNCHANGED <<vars, heapLen, oomTerminates, ctx, details, abandoned>>

CallbackReturns ==
    /\ InGuest
    /\ calls # <<>>
    /\ inHost' = TRUE
    /\ UNCHANGED <<vars, calls, heapLen, oomTerminates, ctx, details, abandoned>>

\* lucet_hostcall_terminate!, or a panic that is not about termination
HostcallPanics(kind) == InHostcall /\ Unwind(Payload(kind))

-----------------------------------------------------------------------------
(* Borrowing.                                                              *)

\* reconstitute_heap_view_if_needed: it borrows the view to compare its length, and to
\* replace it borrows it mutably.  Both panic with RefCell's own message.
ViewComparable == Top.heap # "mut"
ViewReplaceable == Top.view # heapLen => Top.heap = "free"

\* Vmctx::heap and Vmctx::heap_mut
BorrowHeap(mode) ==
    LET name == IF mode = "mut" THEN "heap_mut" ELSE "heap" IN
    /\ InHostcall
    /\ \/ ~(ViewComparable /\ ViewReplaceable) /\ Unwind([kind |-> "OtherPanic", by |-> name])
       \/ ViewComparable /\ ViewReplaceable /\ ~Free(mode, Top.heap) /\ Unwind(BorrowError(name))
       \/ /\ ViewComparable /\ ViewReplaceable /\ Free(mode, Top.heap)
          /\ Within([calls EXCEPT ![Last].heap = mode, ![Last].view = heapLen])
          /\ UNCHANGED ctx

\* Vmctx::globals and Vmctx::globals_mut
BorrowGlobals(mode) ==
    LET name == IF mode = "mut" THEN "globals_mut" ELSE "globals" IN
    /\ InHostcall
    /\ \/ ~Free(mode, Top.globals) /\ Unwind(BorrowError(name))
       \/ /\ Free(mode, Top.globals)
          /\ Within([calls EXCEPT ![Last].globals = mode])
          /\ UNCHANGED ctx

\* Vmctx::get_embed_ctx and Vmctx::get_embed_ctx_mut
BorrowCtx(mode) ==
    LET name == IF mode = "mut" THEN "get_embed_ctx_mut" ELSE "get_embed_ctx" IN
    /\ InHostcall
    /\ \/ ~ctx.present /\ Unwind(Payload("CtxNotFound"))
       \/ ctx.present /\ ~CellFree(mode) /\ Unwind(BorrowError(name))
       \/ /\ ctx.present /\ CellFree(mode)
          /\ Top.ctx = "free" /\ ctx.borrows < MaxBorrows
          /\ ctx' = Borrowed(ctx, mode)
          /\ Within([calls EXCEPT ![Last].ctx = mode])

\* The hostcall drops a reference.
DropsHeap ==
    /\ InHostcall /\ Top.heap # "free"
    /\ Within([calls EXCEPT ![Last].heap = "free", ![Last].back = @ \ {"heap"},
                            ![Last].stale = FALSE])
    /\ UNCHANGED ctx

DropsGlobals ==
    /\ InHostcall /\ Top.globals # "free"
    /\ Within([calls EXCEPT ![Last].globals = "free"])
    /\ UNCHANGED ctx

DropsCtx ==
    /\ InHostcall /\ Top.ctx # "free"
    /\ ctx' = Released(ctx, Top)
    /\ Within([calls EXCEPT ![Last].ctx = "free", ![Last].back = @ \ {"ctx"}, ![Last].gone = FALSE])

-----------------------------------------------------------------------------
(* Yielding, blocking and growing.                                         *)

\* ensure_no_borrows: what it finds borrowed first
ObstacleHeapOnly == IF Top.heap # "free" THEN "heap" ELSE None
Obstacle ==
    CASE Top.heap # "free" -> "heap"
      [] Top.heap = "free" /\ Top.globals # "free" -> "globals"
      [] Top.heap = "free" /\ Top.globals = "free" /\ ctx.borrows # 0 -> "embed_ctx"
      [] OTHER -> None

\* Vmctx::yield_, yield_val, yield_expecting_val and yield_val_expecting_val
HostcallYields(type) ==
    /\ InHostcall
    /\ \/ Obstacle # None /\ Unwind(BorrowError(Obstacle))
       \/ Obstacle = None /\ GuestYields(type) /\ UNCHANGED callVars

\* Vmctx::block_on does not look for borrows.
HostcallBlocks ==
    /\ InHostcall
    /\ \/ MayBlock /\ GuestBlocks /\ UNCHANGED callVars
       \/ ~MayBlock /\ Unwind(Payload("BlockOnNeedsAsync"))

\* What is asked for at once: at most a page more than there may be
Pages == 1 .. MaxHeap + 1

\* grow_memory_from_hostcall, when the limits allow the growth
Fits(pages) == heapLen + pages <= MaxHeap

Grow(pages) ==
    /\ Fits(pages)
    /\ heapLen' = heapLen + pages
    /\ calls' = HeapMoved(calls)
    /\ UNCHANGED <<vars, inHost, oomTerminates, ctx, details, abandoned>>

\* The same when they do not: the caller gets an error, or the guest is terminated.
GrowRefused(pages) ==
    /\ ~Fits(pages)
    /\ ~oomTerminates
    /\ UNCHANGED allVars

OutOfMemory(pages) == ~Fits(pages) /\ oomTerminates

\* ensure_no_heap_borrows
HeapHeldNever == FALSE
HeapHeld == Top.heap # "free"

\* Vmctx::grow_memory
HostcallGrows(pages) ==
    /\ InHostcall
    /\ \/ HeapHeld /\ Unwind(BorrowError("heap"))
       \/ ~HeapHeld /\ (Grow(pages) \/ GrowRefused(pages))
       \/ ~HeapHeld /\ OutOfMemory(pages) /\ Unwind(Payload("HeapOutOfMemory"))

\* The guest's memory.grow: lucet_vmctx_grow_memory is a hostcall with a Vmctx of its
\* own, and when it panics the hostcalls below it are given up.
GuestGrows(pages) ==
    /\ InGuest
    /\ \/ Grow(pages)
       \/ GrowRefused(pages)
       \/ /\ OutOfMemory(pages)
          /\ GuestTerminates
          /\ Follow
          /\ details' = Payload("HeapOutOfMemory")
          /\ UNCHANGED heapLen

-----------------------------------------------------------------------------
(* The embedder and the guest.                                             *)

\* Instance::insert_embed_ctx and remove_embed_ctx
SetCtx(present) ==
    /\ Idle
    /\ ctx' = [present |-> present, borrows |-> 0]
    /\ calls' = CtxReplaced(calls)
    /\ UNCHANGED <<vars, inHost, heapLen, oomTerminates, details, abandoned>>

\* Instance::set_terminate_on_heap_oom
SetTerminateOnHeapOom(terminate) ==
    /\ Idle
    /\ oomTerminates' = terminate
    /\ UNCHANGED <<vars, calls, inHost, heapLen, ctx, details, abandoned>>

\* Instance::grow_memory, which the embedder may also call while a guest is suspended
HostGrows(pages) ==
    /\ Idle
    /\ \/ Grow(pages)
       \/ ~Fits(pages) /\ UNCHANGED allVars

\* Instance::heap_mut.  What matters is that it happens under a reference.
HostWritesHeap ==
    /\ Idle
    /\ \E i \in DOMAIN calls : calls[i].heap # "free"
    /\ calls' = HeapMoved(calls)
    /\ UNCHANGED <<vars, inHost, heapLen, oomTerminates, ctx, details, abandoned>>

HostStep ==
    /\ \/ \E f \in Functions : Run(f)
       \/ RunStart
       \/ \E type \in Types : Resume(type)
       \/ \E f \in Functions, bound \in BOOLEAN : RunAsync(f, bound)
       \/ \E bound \in BOOLEAN : RunAsyncStart(bound)
       \/ Poll
       \/ DropFuture
       \/ SwapBack
       \/ TakeResumedVal
    /\ Follow
    /\ details' = IF pc' = "guest" THEN NoDetails ELSE details
    /\ UNCHANGED heapLen

ResetStep ==
    /\ Reset
    /\ Follow
    /\ heapLen' = 0
    /\ details' = NoDetails

\* A fault in a hostcall has no trap code, and is fatal.
GuestStep ==
    /\ \/ InGuest /\ calls = <<>> /\ GuestReturns /\ UNCHANGED details
       \/ InGuest /\ GuestExpires /\ UNCHANGED details
       \/ InGuest /\ GuestFaults /\ UNCHANGED details
       \/ InHostcall /\ GuestFaults /\ fatal' /\ UNCHANGED details
       \/ /\ InGuest /\ GuestTerminates
          /\ \E kind \in {"Remote", "Signal"} : details' = Payload(kind)
    /\ Follow
    /\ UNCHANGED heapLen

VmctxNext ==
    \/ HostStep
    \/ ResetStep
    \/ GuestStep
    \/ \E present \in BOOLEAN : SetCtx(present)
    \/ \E terminate \in BOOLEAN : SetTerminateOnHeapOom(terminate)
    \/ HostWritesHeap
    \/ HostcallBegins
    \/ HostcallEnds
    \/ CallsBack
    \/ CallbackReturns
    \/ \E kind \in {"Provided", "OtherPanic"} : HostcallPanics(kind)
    \/ \E mode \in Modes : BorrowHeap(mode) \/ BorrowGlobals(mode) \/ BorrowCtx(mode)
    \/ DropsHeap
    \/ DropsGlobals
    \/ DropsCtx
    \/ \E type \in Types : HostcallYields(type)
    \/ HostcallBlocks
    \/ \E pages \in Pages : HostGrows(pages) \/ HostcallGrows(pages) \/ GuestGrows(pages)

VmctxSpec == VmctxInit /\ [][VmctxNext]_allVars

-----------------------------------------------------------------------------

\* Running code never has a reference to the heap from before the heap grew or the
\* embedder could write to it, nor one to an embedder context that the embedder has
\* replaced or removed, unless the hostcall that took it called back into the guest: the
\* case that reconstitute_heap_view_if_needed's TODO gives is the only one, although
\* block_on, which looks for no borrows, suspends a hostcall with its references.
RefsValid ==
    Executing =>
        \A i \in DOMAIN calls :
            /\ calls[i].stale => "heap" \in calls[i].back
            /\ calls[i].gone => "ctx" \in calls[i].back

\* A panic of a hostcall gives back what it borrowed: an embedder context is found
\* borrowed, when no guest is under way, only if a hostcall was given up unwound.
UnwindingReleases ==
    frame = NoFrame /\ ~abandoned => ctx.borrows = 0

\* The documentation of heap and heap_mut: a conflicting borrow terminates the instance
\* with BorrowError.  Not so under heap_mut: README.md, Disagreements.
ConflictIsBorrowError ==
    details.by \in {"heap", "heap_mut"} => details.kind = "BorrowError"

\* The comment in yield_at_bound_expiration, on why it looks for no borrows: a bound
\* expires in guest code, so no borrows can exist.  They can, below a callback: README.md,
\* Disagreements.
NoBorrowAtBound ==
    state = "BoundExpired" =>
        \A i \in DOMAIN calls : {calls[i].heap, calls[i].globals, calls[i].ctx} = {"free"}
=============================================================================
