----------------------- MODULE InstructionCountProofs -----------------------
(***************************************************************************)
(* InstructionCount's properties, for words of any width.                  *)
(*                                                                         *)
(* The argument: the two words never say anything but the count, modulo    *)
(* the width; and within a slice the register copy is the distance from    *)
(* the bound, which a count below the largest word cannot make wrap.       *)
(***************************************************************************)
EXTENDS InstructionCount, TLAPS

\* Within a slice, the register is the distance from the bound, ahead of the stored
\* word by what is pending; every passed check lay before the bound.
Distance ==
    pc = "guest" =>
        /\ reg = slice - delta
        /\ adj = reg - pending
        /\ pending <= slice
        /\ slice <= total
        /\ delta > 0 => slice - unchecked < delta

\* Outside of the guest nothing is pending.
AllStored == pc # "guest" => pending = 0

IInv ==
    TypeOK /\ CountIsExact /\ SliceIsBounded /\ NotCutShort /\ Distance /\ AllStored

USE CountAssumption

\* Adding to one of two words adds to what their wrapped sum says, as long as that
\* stays a count.
LEMMA WrapCarries ==
    ASSUME NEW x \in Int, NEW k \in Nat,
           -2 * Half <= x, x <= 2 * Half - 2,
           Wrap(x) + k \in 0 .. MaxCount, Wrap(x) \in Nat
    PROVE  Wrap(x + k) = Wrap(x) + k
  BY DEF Wrap, I64Max

\* Moving a count into the bound and the slice's length out of it keeps the sum.
LEMMA WrapMoves ==
    ASSUME NEW c \in 0 .. MaxCount, NEW d \in 0 .. I64Max
    PROVE  /\ Wrap(c + d) \in Word
           /\ Wrap(-d + Wrap(c + d)) = c
  BY DEF Wrap, I64Max, Word

\* The invariant holds for a new instance.
LEMMA InvInit == Init => IInv
  BY DEF Init, IInv, TypeOK, CountIsExact, SliceIsBounded, NotCutShort, Distance,
         AllStored, GetInstructionCount, Wrap, Word, I64Max

\* A flush, whatever is done with the register afterwards.
LEMMA FlushKeeps ==
    ASSUME IInv, NEW cost \in 0 .. Gap, Flushed(cost)
    PROVE  /\ reg' = reg + cost
           /\ reg' \in Word
           /\ total' \in 0 .. MaxCount
           /\ slice' \in 0 .. MaxCount
           /\ slice' <= total'
           /\ reg' = slice' - delta'
           /\ pending + cost <= slice'
  BY DEF IInv, TypeOK, Distance, Flushed, Wrap, Word, I64Max

\* Storing the register after a flush makes the count exact.
LEMMA SaveIsExact ==
    ASSUME IInv, NEW cost \in 0 .. Gap, Flushed(cost), Save
    PROVE  Wrap(adj' + bound') = total'
<1> DEFINE k == pending + cost
<1>1. reg' = adj + k /\ adj' = reg' /\ total' = total + cost /\ bound' = bound
  BY FlushKeeps DEF Save, Flushed, IInv, Distance, TypeOK, Word, I64Max
<1>2. k \in Nat /\ adj + bound \in Int /\ -2 * Half <= adj + bound /\ adj + bound <= 2 * Half - 2
  BY DEF IInv, TypeOK, Word, I64Max
<1>3. Wrap(adj + bound) = total - pending /\ Wrap(adj + bound) \in Nat
  BY DEF IInv, CountIsExact, GetInstructionCount, Distance, Flushed, TypeOK, I64Max
<1>4. Wrap(adj + bound) + k = total' /\ total' \in 0 .. MaxCount
  BY <1>1, <1>3, FlushKeeps DEF IInv, TypeOK
<1>5. Wrap(adj + bound + k) = total'
  <2> HIDE DEF k
  <2> QED BY <1>2, <1>3, <1>4, WrapCarries
<1> QED BY <1>1, <1>2, <1>5 DEF IInv, TypeOK, Word

\* Every call of the runtime and every step of generated code keeps it.
LEMMA InvStep == IInv /\ [Next]_vars => IInv'
<1> SUFFICES ASSUME IInv, [Next]_vars PROVE IInv'
  OBVIOUS
<1> USE DEF IInv
<1>1. ASSUME NEW count \in 0 .. MaxCount, NEW b \in 0 .. I64Max,
             SetInstructionCountAndBound(count, b)
      PROVE  IInv'
  BY <1>1 DEF SetInstructionCountAndBound, InHost, TypeOK, CountIsExact, SliceIsBounded,
     NotCutShort, Distance, AllStored, GetInstructionCount, Wrap, Word, I64Max
<1>2. ASSUME NEW d \in 0 .. I64Max, BeginSlice(d) PROVE IInv'
  <2>1. pending = 0 /\ GetInstructionCount = total /\ total \in 0 .. MaxCount
    BY <1>2 DEF BeginSlice, InHost, TypeOK, CountIsExact, AllStored
  <2>2. bound' \in Word /\ Wrap(adj' + bound') = total
    BY <1>2, <2>1, WrapMoves DEF BeginSlice, NewBound
  <2>3. CountIsExact'
    BY <1>2, <2>1, <2>2 DEF BeginSlice, CountIsExact, GetInstructionCount
  <2>4. TypeOK'
    BY <1>2, <2>1, <2>2 DEF BeginSlice, TypeOK, Word, I64Max
  <2> QED
    BY <1>2, <2>1, <2>3, <2>4 DEF BeginSlice, TypeOK, SliceIsBounded, NotCutShort, Distance,
       AllStored, I64Max
<1>3. ASSUME NEW cost \in 0 .. Gap, Flush(cost) PROVE IInv'
  <2>1. Flushed(cost)
    BY <1>3 DEF Flush
  <2>2. CountIsExact'
    BY <1>3 DEF Flush, Flushed, CountIsExact, GetInstructionCount, TypeOK
  <2>3. TypeOK'
    BY <1>3, <2>1, FlushKeeps DEF Flush, Flushed, TypeOK
  <2> QED
    BY <1>3, <2>1, <2>2, <2>3, FlushKeeps DEF Flush, Flushed, TypeOK, SliceIsBounded,
       NotCutShort, Distance, AllStored, Word, I64Max
<1>4. ASSUME NEW cost \in 0 .. Gap, Checkpoint(cost) PROVE IInv'
  <2>1. Flushed(cost) /\ Save
    BY <1>4 DEF Checkpoint
  <2>2. CountIsExact'
    BY <2>1, SaveIsExact, FlushKeeps DEF Save, CountIsExact, GetInstructionCount
  <2>3. TypeOK'
    BY <1>4, <2>1, FlushKeeps DEF Checkpoint, Flushed, Save, TypeOK
  <2> QED
    BY <1>4, <2>1, <2>2, <2>3, FlushKeeps DEF Checkpoint, Flushed, Save, Exceeded, TypeOK,
       SliceIsBounded, NotCutShort, Distance, AllStored, Word, I64Max
<1>5. ASSUME NEW cost \in 0 .. Gap, FunctionEnd(cost) PROVE IInv'
  <2>1. Flushed(cost) /\ Save
    BY <1>5 DEF FunctionEnd
  <2>2. CountIsExact'
    BY <2>1, SaveIsExact, FlushKeeps DEF Save, CountIsExact, GetInstructionCount
  <2>3. TypeOK'
    BY <1>5, <2>1, FlushKeeps DEF FunctionEnd, Flushed, Save, TypeOK
  <2> QED
    BY <1>5, <2>1, <2>2, <2>3, FlushKeeps DEF FunctionEnd, Flushed, Save, TypeOK,
       SliceIsBounded, NotCutShort, Distance, AllStored, Word, I64Max
<1>6. ASSUME Trap PROVE IInv'
  BY <1>6 DEF Trap, TypeOK, CountIsExact, SliceIsBounded, NotCutShort, Distance, AllStored,
     GetInstructionCount, Word, I64Max
<1>7. ASSUME UNCHANGED vars PROVE IInv'
  BY <1>7 DEF vars, TypeOK, CountIsExact, SliceIsBounded, NotCutShort, Distance, AllStored,
     GetInstructionCount
<1> QED
  BY <1>1, <1>2, <1>3, <1>4, <1>5, <1>6, <1>7 DEF Next

\* Hence it always holds.
LEMMA Invariance == Spec => []IInv
  BY InvInit, InvStep, PTL DEF Spec

\* The counters stay within their words.
THEOREM CountersAreWords == Spec => []TypeOK
<1>1. IInv => TypeOK
  BY DEF IInv
<1> QED BY <1>1, Invariance, PTL

\* get_instruction_count is exact in a build whose additions wrap, for every sequence of
\* runs, resumptions, bounds and traps.
THEOREM CountingIsExact == Spec => []CountIsExact
<1>1. IInv => CountIsExact
  BY DEF IInv
<1> QED BY <1>1, Invariance, PTL

\* A bounded slice of guest execution overruns its bound by less than the code between
\* two checks.
THEOREM SlicesAreBounded == Spec => []SliceIsBounded
<1>1. IInv => SliceIsBounded
  BY DEF IInv
<1> QED BY <1>1, Invariance, PTL

\* A guest yields at its bound only when it has reached it.
THEOREM SlicesAreWhole == Spec => []NotCutShort
<1>1. IInv => NotCutShort
  BY DEF IInv
<1> QED BY <1>1, Invariance, PTL
=============================================================================
