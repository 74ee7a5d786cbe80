-------------------------- MODULE InstructionCount --------------------------
(***************************************************************************)
(* Instruction counting and bounded execution.  The count of an instance   *)
(* is the sum of two signed words, `instruction_count_bound` and           *)
(* `instruction_count_adj`.  Before a slice of guest execution the runtime *)
(* moves the count into the bound and leaves minus the slice's length in   *)
(* adj; generated code adds to adj and yields when it is not negative.     *)
(*                                                                         *)
(* Generated code works on a register copy of adj.  It loads the copy when *)
(* a function begins and after calls, stores it before calls and where     *)
(* functions end, and checks it at calls, returns, branch tables and loop  *)
(* back edges.                                                             *)
(*                                                                         *)
(* Words wrap around, as in a release build; CountFits is about the builds *)
(* that check for overflow.  A definition that directly precedes one of    *)
(* nearly the same name and is used nowhere is that definition with a slip *)
(* in it.                                                                  *)
(*                                                                         *)
(* Sources: lucet-runtime-internals/src/instance.rs, lucet-module/src/     *)
(* runtime.rs and lucetc/src/function.rs.                                  *)
(***************************************************************************)
EXTENDS Integers

CONSTANTS
    Half,      \* words are the integers from -Half to Half - 1; 2^63 in the code
    MaxCount,  \* no instance executes more than this
    Gap        \* the largest cost of guest code between two checks

ASSUME CountAssumption ==
    /\ Half \in Nat /\ MaxCount \in Nat /\ Gap \in Nat
    /\ MaxCount < Half

VARIABLES
    adj,       \* instruction_count_adj
    bound,     \* instruction_count_bound
    reg,       \* the register copy of adj
    pc,        \* who runs: the host, or the guest; or the guest has yielded
    delta,     \* the length the present slice was given
    total,     \* history: what the guest has executed
    slice,     \* history: what it has executed in this slice,
    pending,   \* ... since it stored its register copy,
    unchecked  \* ... and since it checked it

vars == <<adj, bound, reg, pc, delta, total, slice, pending, unchecked>>

Word == -Half .. Half - 1
I64Max == Half - 1

\* wrapping_add, and iadd in generated code, for two words.
Wrap(x) ==
    IF x > I64Max THEN x - 2 * Half
    ELSE IF x < -Half THEN x + 2 * Half
    ELSE x

\* Instance::new
Init ==
    /\ adj = 0 /\ bound = 0 /\ reg = 0
    /\ pc = "host"
    /\ delta = 0
    /\ total = 0 /\ slice = 0 /\ pending = 0 /\ unchecked = 0

InHost == pc \in {"host", "expired"}

-----------------------------------------------------------------------------

\* Instance::set_instruction_count_and_bound
SetInstructionCountAndBound(count, b) ==
    /\ InHost
    /\ bound' = b
    /\ adj' = count - b
    /\ total' = count
    /\ UNCHANGED <<reg, pc, delta, slice, pending, unchecked>>

\* Instance::get_instruction_count
GetInstructionCount == Wrap(adj + bound)

\* Instance::set_instruction_bound_delta, then the switch to the guest, which loads
\* its register copy.  An unbounded run has the delta i64::MAX.
NewBoundSaturating(d) ==
    IF GetInstructionCount + d > I64Max THEN I64Max ELSE GetInstructionCount + d
NewBound(d) == Wrap(GetInstructionCount + d)

BeginSlice(d) ==
    /\ InHost
    /\ bound' = NewBound(d)
    /\ adj' = -d
    /\ reg' = -d
    /\ pc' = "guest"
    /\ delta' = d
    /\ slice' = 0 /\ unchecked' = 0
    /\ UNCHANGED <<total, pending>>

-----------------------------------------------------------------------------
(* Generated code.                                                         *)

\* flush_counter, for operators of the given cost.
Flushed(cost) ==
    /\ pc = "guest"
    /\ total + cost <= MaxCount
    /\ unchecked + cost <= Gap
    /\ reg' = Wrap(reg + cost)
    /\ total' = total + cost
    /\ slice' = slice + cost
    /\ UNCHANGED <<bound, delta>>

\* The end of a block, an if, an else, a forward branch.
Flush(cost) ==
    /\ Flushed(cost)
    /\ pending' = pending + cost
    /\ unchecked' = unchecked + cost
    /\ UNCHANGED <<adj, pc>>

\* save_instr_count
Save ==
    /\ adj' = reg'
    /\ pending' = 0

\* do_check: the yield hostcall is called if the counter is not negative.
ExceededStrictly(r) == r > 0
ExceededEarly(r) == r >= -1
Exceeded(r) == r >= 0

\* A call, a return, a branch table or a back edge: flush, save and check.
Checkpoint(cost) ==
    /\ Flushed(cost)
    /\ Save
    /\ unchecked' = 0
    /\ pc' = IF Exceeded(reg') THEN "expired" ELSE "guest"

\* The end of a function: flush and save, without a check.  The caller goes on, or
\* the entrypoint has returned.  A hostcall that yields looks the same from here: a
\* call has saved the counter, and the guest goes on with a new slice.
FunctionEnd(cost) ==
    /\ Flushed(cost)
    /\ Save
    /\ unchecked' = unchecked + cost
    /\ pc' \in {"guest", "host"}

\* A trap: what is in the register only is lost.
Trap ==
    /\ pc = "guest"
    /\ pc' = "host"
    /\ total' = total - pending
    /\ pending' = 0
    /\ UNCHANGED <<adj, bound, reg, delta, slice, unchecked>>

Next ==
    \/ \E count \in 0 .. MaxCount, b \in 0 .. I64Max : SetInstructionCountAndBound(count, b)
    \/ \E d \in 0 .. I64Max : BeginSlice(d)
    \/ \E cost \in 0 .. Gap : Flush(cost) \/ Checkpoint(cost) \/ FunctionEnd(cost)
    \/ Trap

Spec == Init /\ [][Next]_vars

-----------------------------------------------------------------------------

\* Every variable has its type: the counters are words.
TypeOK ==
    /\ adj \in Word /\ bound \in Word /\ reg \in Word
    /\ pc \in {"host", "guest", "expired"}
    /\ delta \in 0 .. I64Max
    /\ total \in 0 .. MaxCount /\ slice \in 0 .. MaxCount
    /\ pending \in 0 .. MaxCount /\ unchecked \in 0 .. Gap

\* However runs, resumptions, bounds and traps follow each other, and although the
\* two words wrap around, get_instruction_count returns what was executed, except
\* for what the guest has not stored yet.
CountIsExact == GetInstructionCount = total - pending

\* A slice ends soon after its bound: it executes less than the bound and the code
\* between two checks together.
SliceIsBounded == delta > 0 => slice < delta + Gap

\* A slice is not cut short: a guest that yields at its bound has reached it.  In
\* particular an unbounded run does not yield.
NotCutShort == pc = "expired" => slice >= delta

\* get_instruction_count's sum does not overflow and is not negative, as its comment
\* claims: "we always set up the fields to have a positive sum, and generated code
\* only increments adj".  The sum does overflow: README.md, Disagreements.
CountFits == pc = "host" => adj + bound \in 0 .. I64Max
=============================================================================
