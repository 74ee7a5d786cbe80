------------------------ MODULE ContextSwitchProofs ------------------------
(***************************************************************************)
(* The context switches proved for any number of host threads, any calls   *)
(* with any number of arguments, and any number of runs and of swaps.      *)
(*                                                                         *)
(* First the loop of Context::init: it places every argument where the     *)
(* calling convention passes it (PlacedConforms, by induction on the       *)
(* number of turns, in the form that a set of numbers has a least one).    *)
(* Then the stack that it lays out, the machine, and one lemma for each    *)
(* action, which says what registers, contexts and stack hold at the place *)
(* where the action leads.                                                 *)
(***************************************************************************)
EXTENDS ContextSwitch, FiniteSetTheorems, SequenceTheorems, WellFoundedInduction, TLAPS

\* The words that registers and stacks hold.
Names ==
    {"zero", "junk", "backstop", "fptr", "bootstrap", "activate", "exit_guest_region",
     "enter_guest_region", "default", "instance", "guest", "host", "sp", "ctx", "arg",
     "result"} \cup Registers
Words == Names \X Nat

-----------------------------------------------------------------------------
(* The loop over the arguments.                                            *)

Placement == [gp : Seq(Words), fp : Seq(Words), spilled : Seq(Words)]
NoneYet == [gp |-> <<>>, fp |-> <<>>, spilled |-> <<>>]
ArgList == Seq(Vals)

\* The less-than relation of the natural numbers, as a set of pairs, is well founded.
LEMMA LessIsWellFounded == IsWellFoundedOn({ss \in Nat \X Nat : ss[1] < ss[2]}, Nat)
  BY NatLessThanWellFounded, Zenon DEF OpToRel

\* A set of natural numbers has a least one: the form in which the proofs below use
\* induction.
LEMMA LeastNumber ==
    ASSUME NEW T, T \subseteq Nat, T # {}
    PROVE  \E n \in T : \A k \in T : n <= k
  <1> DEFINE R == {ss \in Nat \X Nat : ss[1] < ss[2]}
  <1>1. IsWellFoundedOn(R, Nat)
    BY LessIsWellFounded
  <1> HIDE DEF R
  <1>2. PICK n \in T : \A k \in T : ~(<<k, n>> \in R)
    BY <1>1, WFMin
  <1>3. \A j, k \in Nat : j < k => <<j, k>> \in R
    BY DEF R
  <1>4. \A k \in T : ~(k < n)
    BY <1>2, <1>3
  <1>5. n \in Nat /\ \A k \in T : k \in Nat
    OBVIOUS
  <1>6. \A k \in T : n <= k
    BY <1>4, <1>5
  <1> QED
    BY <1>6

\* What holds at 0 and goes on from every number below a bound to the next holds up to
\* the bound.
LEMMA UpTo ==
    ASSUME NEW bound \in Nat, NEW Good, 0 \in Good,
           \A n \in 0 .. bound : n < bound /\ n \in Good => n + 1 \in Good
    PROVE  0 .. bound \subseteq Good
  <1> DEFINE T == (0 .. bound) \ Good
  <1> SUFFICES ASSUME T # {} PROVE FALSE
    OBVIOUS
  <1>1. PICK n \in T : \A k \in T : n <= k
    <2>1. T \subseteq Nat
      OBVIOUS
    <2> HIDE DEF T
    <2> QED
      BY <2>1, LeastNumber
  <1>2. n \in Nat /\ n # 0 /\ n <= bound /\ n \notin Good
    BY <1>1
  <1>3. n - 1 \in 0 .. bound /\ n - 1 < bound /\ (n - 1) + 1 = n
    BY <1>2
  <1>4. n - 1 \notin T
    BY <1>1, <1>3
  <1> QED
    BY <1>2, <1>3, <1>4

\* How many registers there are for each kind of argument, all of them different.
LEMMA ArgRegsAre ==
    /\ Len(ArgRegs["gp"]) = 6 /\ DOMAIN ArgRegs["gp"] = 1 .. 6
    /\ Len(ArgRegs["fp"]) = 8 /\ DOMAIN ArgRegs["fp"] = 1 .. 8
    /\ \A i, j \in 1 .. 6 : ArgRegs["gp"][i] = ArgRegs["gp"][j] => i = j
    /\ \A i, j \in 1 .. 8 : ArgRegs["fp"][i] = ArgRegs["fp"][j] => i = j
  BY DEF ArgRegs

\* A value is for one of the two kinds of registers.
LEMMA RegValIs == \A ctor : RegVal(ctor) \in {"gp", "fp"}
  BY DEF RegVal

\* One turn of the loop, over argument i, makes q of p.
Turn(p, q, kind, i) ==
    /\ q \in Placement
    /\ \A k \in {"gp", "fp"} : k # kind => q[k] = p[k]
    /\ Len(p[kind]) >= Len(ArgRegs[kind]) =>
           q[kind] = p[kind] /\ q.spilled = Append(p.spilled, <<"arg", i>>)
    /\ Len(p[kind]) < Len(ArgRegs[kind]) =>
           q[kind] = Append(p[kind], <<"arg", i>>) /\ q.spilled = p.spilled

\* A turn of the loop is such a turn, for the kind of register of its argument.
LEMMA PlaceIs ==
    ASSUME NEW args, NEW p \in Placement, NEW i \in Nat
    PROVE  Turn(p, Place(args, p, i), RegVal(args[i]), i)
  <1>1. <<"arg", i>> \in Words
    BY DEF Words, Names
  <1>2. CASE RegVal(args[i]) = "gp"
    <2>1. CASE Len(p.gp) >= 6
      <3>1. Place(args, p, i) = [gp |-> p.gp, fp |-> p.fp,
                                 spilled |-> Append(p.spilled, <<"arg", i>>)]
        BY <1>2, <2>1, ArgRegsAre DEF Place, Placement
      <3> QED
        BY <1>1, <1>2, <2>1, <3>1, ArgRegsAre DEF Placement, Turn
    <2>2. CASE Len(p.gp) < 6
      <3>1. Place(args, p, i) = [gp |-> Append(p.gp, <<"arg", i>>), fp |-> p.fp,
                                 spilled |-> p.spilled]
        <4>1. ~(Len(p["gp"]) >= Len(ArgRegs["gp"]))
          BY <2>2, ArgRegsAre DEF Placement
        <4>2. Place(args, p, i) = [p EXCEPT !["gp"] = Append(p["gp"], <<"arg", i>>)]
          BY <1>2, <4>1 DEF Place
        <4> QED
          BY <4>2 DEF Placement
      <3> QED
        BY <1>1, <1>2, <2>2, <3>1, ArgRegsAre DEF Placement, Turn
    <2> QED
      BY <2>1, <2>2 DEF Placement
  <1>3. CASE RegVal(args[i]) = "fp"
    <2>1. CASE Len(p.fp) >= 8
      <3>1. Place(args, p, i) = [gp |-> p.gp, fp |-> p.fp,
                                 spilled |-> Append(p.spilled, <<"arg", i>>)]
        BY <1>3, <2>1, ArgRegsAre DEF Place, Placement
      <3> QED
        BY <1>1, <1>3, <2>1, <3>1, ArgRegsAre DEF Placement, Turn
    <2>2. CASE Len(p.fp) < 8
      <3>1. Place(args, p, i) = [fp |-> Append(p.fp, <<"arg", i>>), gp |-> p.gp,
                                 spilled |-> p.spilled]
        <4>1. ~(Len(p["fp"]) >= Len(ArgRegs["fp"]))
          BY <2>2, ArgRegsAre DEF Placement
        <4>2. Place(args, p, i) = [p EXCEPT !["fp"] = Append(p["fp"], <<"arg", i>>)]
          BY <1>3, <4>1 DEF Place
        <4> QED
          BY <4>2 DEF Placement
      <3> QED
        BY <1>1, <1>3, <2>2, <3>1, ArgRegsAre DEF Placement, Turn
    <2> QED
      BY <2>1, <2>2 DEF Placement
  <1> QED
    BY <1>2, <1>3, RegValIs

\* What the loop has placed after each of its first n turns.
Turns(args, f, n) ==
    f = [k \in 0 .. n |-> IF k = 0 THEN NoneYet ELSE Place(args, f[k - 1], k)]

\* The loop can be unrolled to any length.
LEMMA TurnsExist ==
    ASSUME NEW args, NEW bound \in Nat
    PROVE  \E f : Turns(args, f, bound)
  <1> DEFINE Good == {n \in Nat : \E f : Turns(args, f, n)}
  <1>1. 0 \in Good
    <2>1. Turns(args, [k \in 0 .. 0 |-> NoneYet], 0)
      BY DEF Turns
    <2> QED
      BY <2>1
  <1>2. ASSUME NEW n \in 0 .. bound, n \in Good PROVE n + 1 \in Good
    <2>1. PICK f : Turns(args, f, n)
      BY <1>2
    <2> DEFINE g == [k \in 0 .. n + 1 |-> IF k = n + 1 THEN Place(args, f[n], k) ELSE f[k]]
    <2>2. \A k \in 0 .. n : f[k] = IF k = 0 THEN NoneYet ELSE Place(args, f[k - 1], k)
      BY <2>1 DEF Turns
    <2>3. ASSUME NEW k \in 0 .. n + 1
          PROVE  g[k] = IF k = 0 THEN NoneYet ELSE Place(args, g[k - 1], k)
      <3>1. CASE k = n + 1
        <4>1. k # 0 /\ k - 1 = n /\ n \in 0 .. n + 1 /\ n # n + 1
          BY <3>1
        <4>2. g[k] = Place(args, f[n], k) /\ g[k - 1] = f[n]
          BY <3>1, <4>1
        <4> QED
          BY <4>1, <4>2
      <3>2. CASE k # n + 1
        <4>1. k \in 0 .. n /\ (k # 0 => k - 1 \in 0 .. n + 1 /\ k - 1 # n + 1)
          BY <3>2
        <4>2. g[k] = f[k] /\ (k # 0 => g[k - 1] = f[k - 1])
          BY <3>2, <4>1
        <4> QED
          BY <2>2, <4>1, <4>2
      <3> QED
        BY <3>1, <3>2
    <2>4. g = [k \in 0 .. n + 1 |-> g[k]]
      OBVIOUS
    <2> HIDE DEF g
    <2>5. Turns(args, g, n + 1)
      BY <2>3, <2>4 DEF Turns
    <2> QED
      BY <2>5
  <1> HIDE DEF Good
  <1>3. 0 .. bound \subseteq Good
    BY <1>1, <1>2, UpTo
  <1> QED
    BY <1>3 DEF Good

\* The recursive function is the loop, turn by turn.
LEMMA PlacingIs ==
    ASSUME NEW args \in ArgList
    PROVE  /\ Placing(args)[0] = NoneYet
           /\ \A n \in 0 .. Len(args) :
                 n < Len(args) => Placing(args)[n + 1] = Place(args, Placing(args)[n], n + 1)
  <1>1. Len(args) \in Nat
    BY DEF ArgList
  <1>2. PICK f : Turns(args, f, Len(args))
    BY <1>1, TurnsExist
  <1>3. Turns(args, Placing(args), Len(args))
    BY <1>2 DEF Turns, Placing, NoneYet
  <1>4. \A k \in 0 .. Len(args) :
           Placing(args)[k] = IF k = 0 THEN NoneYet ELSE Place(args, Placing(args)[k - 1], k)
    BY <1>3 DEF Turns
  <1>5. ASSUME NEW n \in 0 .. Len(args), n < Len(args)
        PROVE  Placing(args)[n + 1] = Place(args, Placing(args)[n], n + 1)
    <2>1. n + 1 \in 0 .. Len(args) /\ n + 1 # 0 /\ (n + 1) - 1 = n
      BY <1>1, <1>5
    <2> QED
      BY <1>4, <2>1
  <1> QED
    BY <1>1, <1>4, <1>5

\* The registers and the stack get words.
LEMMA PlacingTyped ==
    ASSUME NEW args \in ArgList
    PROVE  \A n \in 0 .. Len(args) : Placing(args)[n] \in Placement
  <1> DEFINE Good == {n \in Nat : Placing(args)[n] \in Placement}
  <1>1. Len(args) \in Nat
    BY DEF ArgList
  <1>2. 0 \in Good
    <2>1. NoneYet \in Placement
      BY DEF NoneYet, Placement
    <2> QED
      BY <2>1, PlacingIs
  <1>3. ASSUME NEW n \in 0 .. Len(args), n < Len(args), n \in Good PROVE n + 1 \in Good
    <2>1. n + 1 \in Nat /\ Placing(args)[n] \in Placement
      BY <1>3
    <2>2. Place(args, Placing(args)[n], n + 1) \in Placement
      BY <2>1, PlaceIs DEF Turn
    <2> QED
      BY <1>3, <2>1, <2>2, PlacingIs
  <1> HIDE DEF Good
  <1>4. 0 .. Len(args) \subseteq Good
    BY <1>1, <1>2, <1>3, UpTo
  <1> QED
    BY <1>4 DEF Good

-----------------------------------------------------------------------------
(* Where the calling convention passes each argument.                      *)

\* The arguments before the next one, counted.
LEMMA CountNext ==
    ASSUME NEW S, NEW i \in Nat, i # 0
    PROVE  LET before == {j \in 1 .. i - 1 : j \in S}
               upTo == {j \in 1 .. (i + 1) - 1 : j \in S}
           IN  /\ Cardinality(before) \in Nat
               /\ Cardinality(upTo) = Cardinality(before) + (IF i \in S THEN 1 ELSE 0)
  <1> DEFINE before == {j \in 1 .. i - 1 : j \in S}
             upTo == {j \in 1 .. (i + 1) - 1 : j \in S}
  <1>1. IsFiniteSet(1 .. i - 1) /\ before \subseteq 1 .. i - 1
    BY FS_Interval
  <1>2. IsFiniteSet(before)
    BY <1>1, FS_Subset
  <1>3. i \notin before /\ upTo = IF i \in S THEN before \cup {i} ELSE before
    OBVIOUS
  <1> HIDE DEF before, upTo
  <1>4. Cardinality(before) \in Nat
    BY <1>2, FS_CardinalityType
  <1>5. Cardinality(upTo) = Cardinality(before) + (IF i \in S THEN 1 ELSE 0)
    BY <1>2, <1>3, <1>4, FS_AddElement
  <1> QED
    BY <1>4, <1>5 DEF before, upTo

\* No argument comes before the first.
LEMMA CountFirst ==
    /\ \A kind : Before(1, kind) = 0
    /\ InMemoryBefore(1) = 0
  <1>1. 1 .. 1 - 1 = {}
    OBVIOUS
  <1> QED
    BY <1>1, FS_EmptySet DEF Before, InMemoryBefore

\* How many arguments of a kind come before an argument.
LEMMA BeforeNext ==
    ASSUME NEW i \in Nat, i # 0, NEW kind
    PROVE  /\ Before(i, kind) \in Nat
           /\ Before(i + 1, kind) = Before(i, kind) + (IF RegVal(Args[i]) = kind THEN 1 ELSE 0)
  <1> DEFINE S == {j \in Nat : RegVal(Args[j]) = kind}
  <1>1. /\ {j \in 1 .. i - 1 : RegVal(Args[j]) = kind} = {j \in 1 .. i - 1 : j \in S}
        /\ {j \in 1 .. (i + 1) - 1 : RegVal(Args[j]) = kind} = {j \in 1 .. (i + 1) - 1 : j \in S}
        /\ i \in S <=> RegVal(Args[i]) = kind
    OBVIOUS
  <1> HIDE DEF S
  <1> QED
    BY <1>1, CountNext DEF Before

\* How many arguments in memory come before an argument.
LEMMA InMemoryBeforeNext ==
    ASSUME NEW i \in Nat, i # 0
    PROVE  /\ InMemoryBefore(i) \in Nat
           /\ InMemoryBefore(i + 1) = InMemoryBefore(i) + (IF ~InRegister(i) THEN 1 ELSE 0)
  <1> DEFINE S == {j \in Nat : ~InRegister(j)}
  <1>1. /\ {j \in 1 .. i - 1 : ~InRegister(j)} = {j \in 1 .. i - 1 : j \in S}
        /\ {j \in 1 .. (i + 1) - 1 : ~InRegister(j)} = {j \in 1 .. (i + 1) - 1 : j \in S}
        /\ i \in S <=> ~InRegister(i)
    OBVIOUS
  <1> HIDE DEF S
  <1> QED
    BY <1>1, CountNext DEF InMemoryBefore

\* What the loop has placed after n turns is where the calling convention has it.
InPlace(p, j) ==
    LET kind == RegVal(Args[j]) IN
    IF InRegister(j)
    THEN /\ Before(j, kind) + 1 \in 1 .. Len(p[kind])
         /\ p[kind][Before(j, kind) + 1] = <<"arg", j>>
    ELSE /\ InMemoryBefore(j) + 1 \in 1 .. Len(p.spilled)
         /\ p.spilled[InMemoryBefore(j) + 1] = <<"arg", j>>

Conforms(p, n) ==
    /\ \A kind \in {"gp", "fp"} :
          Len(p[kind]) = IF Before(n + 1, kind) < Len(ArgRegs[kind]) THEN Before(n + 1, kind)
                         ELSE Len(ArgRegs[kind])
    /\ Len(p.spilled) = InMemoryBefore(n + 1)
    /\ \A j \in 1 .. n : InPlace(p, j)

\* A sequence with a word more.
LEMMA AppendIs ==
    ASSUME NEW s \in Seq(Words), NEW w \in Words
    PROVE  /\ Append(s, w) \in Seq(Words)
           /\ Len(Append(s, w)) = Len(s) + 1 /\ Len(s) \in Nat
           /\ \A i \in 1 .. Len(s) : Append(s, w)[i] = s[i]
           /\ Append(s, w)[Len(s) + 1] = w
  OBVIOUS

\* A turn of the loop places the next argument where the calling convention has it.
LEMMA ConformsNext ==
    ASSUME NEW n \in Nat, NEW p \in Placement, Conforms(p, n),
           NEW i, i = n + 1, NEW kind, kind = RegVal(Args[i]), NEW q, q = Place(Args, p, i)
    PROVE  Conforms(q, i)
  <1>1. /\ i \in Nat /\ i # 0 /\ kind \in {"gp", "fp"} /\ <<"arg", i>> \in Words
        /\ 1 .. i = (1 .. n) \cup {i} /\ i \notin 1 .. n
    BY RegValIs DEF Words, Names
  <1>2. Turn(p, q, kind, i)
    BY <1>1, PlaceIs
  <1>3. /\ Before(i, kind) \in Nat /\ Before(i + 1, kind) = Before(i, kind) + 1
        /\ \A k \in {"gp", "fp"} : k # kind => Before(i + 1, k) = Before(i, k)
        /\ InMemoryBefore(i) \in Nat
        /\ InMemoryBefore(i + 1) = InMemoryBefore(i) + (IF ~InRegister(i) THEN 1 ELSE 0)
    <2>1. \A k : /\ Before(i, k) \in Nat
                 /\ Before(i + 1, k) = Before(i, k) + (IF kind = k THEN 1 ELSE 0)
      BY <1>1, BeforeNext
    <2>2. \A k \in {"gp", "fp"} : k # kind => Before(i + 1, k) = Before(i, k) + 0
      BY <2>1
    <2> QED
      BY <1>1, <2>1, <2>2, InMemoryBeforeNext
  <1>4. /\ Len(p[kind]) \in Nat /\ Len(ArgRegs[kind]) \in Nat /\ Len(p.spilled) \in Nat
        /\ p[kind] \in Seq(Words) /\ p.spilled \in Seq(Words)
    BY <1>1, ArgRegsAre DEF Placement
  <1>5. /\ Len(p[kind]) = IF Before(i, kind) < Len(ArgRegs[kind]) THEN Before(i, kind)
                          ELSE Len(ArgRegs[kind])
        /\ Len(p.spilled) = InMemoryBefore(i)
    BY <1>1 DEF Conforms
  <1>6. InRegister(i) <=> Len(p[kind]) < Len(ArgRegs[kind])
    BY <1>3, <1>4, <1>5 DEF InRegister
  <1>7. \A k \in {"gp", "fp"} : k # kind =>
           Len(q[k]) = IF Before(i + 1, k) < Len(ArgRegs[k]) THEN Before(i + 1, k)
                       ELSE Len(ArgRegs[k])
    BY <1>2, <1>3 DEF Conforms, Turn
  <1>8. \A j \in 1 .. n : InPlace(p, j)
    BY DEF Conforms
  <1>9. CASE InRegister(i)
    <2>1. /\ q[kind] = Append(p[kind], <<"arg", i>>) /\ q.spilled = p.spilled
          /\ Len(p[kind]) = Before(i, kind)
      BY <1>2, <1>3, <1>4, <1>5, <1>6, <1>9 DEF Turn
    <2>2. /\ Len(q[kind]) = Before(i, kind) + 1 /\ q[kind][Before(i, kind) + 1] = <<"arg", i>>
          /\ \A x \in 1 .. Len(p[kind]) : q[kind][x] = p[kind][x]
      BY <1>1, <1>4, <2>1, AppendIs
    <2>3. Len(q[kind]) = IF Before(i + 1, kind) < Len(ArgRegs[kind]) THEN Before(i + 1, kind)
                         ELSE Len(ArgRegs[kind])
      BY <1>3, <1>4, <1>5, <1>6, <1>9, <2>1, <2>2
    <2>4. Len(q.spilled) = InMemoryBefore(i + 1)
      BY <1>3, <1>5, <1>9, <2>1
    <2>5. InPlace(q, i)
      BY <1>3, <1>9, <2>2 DEF InPlace
    <2>6. ASSUME NEW j \in 1 .. n PROVE InPlace(q, j)
      <3>1. CASE RegVal(Args[j]) = kind
        <4>1. CASE InRegister(j)
          <5>1. PICK x : x = Before(j, kind) + 1
            OBVIOUS
          <5>2. x \in 1 .. Len(p[kind]) /\ p[kind][x] = <<"arg", j>>
            BY <1>8, <3>1, <4>1, <5>1 DEF InPlace
          <5>3. x \in 1 .. Len(q[kind]) /\ q[kind][x] = <<"arg", j>>
            BY <1>4, <2>1, <2>2, <5>2, SMTT(30)
          <5> QED
            BY <3>1, <4>1, <5>1, <5>3 DEF InPlace
        <4>2. CASE ~InRegister(j)
          BY <1>8, <2>1, <4>2 DEF InPlace
        <4> QED
          BY <4>1, <4>2
      <3>2. CASE RegVal(Args[j]) # kind
        <4>1. q[RegVal(Args[j])] = p[RegVal(Args[j])]
          BY <1>2, <3>2, RegValIs DEF Turn
        <4> QED
          BY <1>8, <2>1, <4>1 DEF InPlace
      <3> QED
        BY <3>1, <3>2
    <2> QED
      BY <1>1, <1>7, <2>3, <2>4, <2>5, <2>6 DEF Conforms
  <1>10. CASE ~InRegister(i)
    <2>1. q[kind] = p[kind] /\ q.spilled = Append(p.spilled, <<"arg", i>>)
      BY <1>2, <1>4, <1>6, <1>10 DEF Turn
    <2>2. /\ Len(q.spilled) = InMemoryBefore(i) + 1
          /\ q.spilled[InMemoryBefore(i) + 1] = <<"arg", i>>
          /\ \A x \in 1 .. Len(p.spilled) : q.spilled[x] = p.spilled[x]
      BY <1>1, <1>4, <1>5, <2>1, AppendIs
    <2>3. Len(q[kind]) = IF Before(i + 1, kind) < Len(ArgRegs[kind]) THEN Before(i + 1, kind)
                         ELSE Len(ArgRegs[kind])
      BY <1>3, <1>4, <1>5, <1>6, <1>10, <2>1
    <2>4. Len(q.spilled) = InMemoryBefore(i + 1)
      BY <1>3, <1>10, <2>2
    <2>5. InPlace(q, i)
      BY <1>3, <1>10, <2>2 DEF InPlace
    <2>6. ASSUME NEW j \in 1 .. n PROVE InPlace(q, j)
      <3>1. \A k \in {"gp", "fp"} : q[k] = p[k]
        BY <1>2, <2>1 DEF Turn
      <3> QED
        <4>1. CASE InRegister(j)
          <5>1. q[RegVal(Args[j])] = p[RegVal(Args[j])]
            BY <3>1, RegValIs
          <5> QED
            BY <1>8, <4>1, <5>1 DEF InPlace
        <4>2. CASE ~InRegister(j)
          <5>1. PICK x : x = InMemoryBefore(j) + 1
            OBVIOUS
          <5>2. x \in 1 .. Len(p.spilled) /\ p.spilled[x] = <<"arg", j>>
            BY <1>8, <4>2, <5>1 DEF InPlace
          <5>3. x \in 1 .. Len(q.spilled) /\ q.spilled[x] = <<"arg", j>>
            BY <1>4, <1>5, <2>2, <5>2, SMTT(30)
          <5> QED
            BY <4>2, <5>1, <5>3 DEF InPlace
        <4> QED
          BY <4>1, <4>2
    <2> QED
      BY <1>1, <1>7, <2>3, <2>4, <2>5, <2>6 DEF Conforms
  <1> QED
    BY <1>9, <1>10

\* The arguments of the call, with the vmctx if there is an instance.
LEMMA ArgsTyped ==
    ASSUME call \in Calls
    PROVE  Args \in ArgList /\ Len(Args) \in Nat /\ DOMAIN Args = 1 .. Len(Args)
  <1>1. call.args \in Seq(Vals) /\ call.bare \in BOOLEAN
    BY ContextAssumption
  <1>2. "CPtr" \in Vals
    BY DEF Vals
  <1>3. <<"CPtr">> \in Seq(Vals)
    BY <1>2
  <1>4. <<"CPtr">> \o call.args \in Seq(Vals)
    BY <1>1, <1>3
  <1>5. Args \in Seq(Vals)
    BY <1>1, <1>4 DEF Args, WithVmctx
  <1> QED
    BY <1>5 DEF ArgList

\* Every argument is placed where the calling convention passes it.
LEMMA PlacedConforms ==
    ASSUME call \in Calls
    PROVE  Placed(Args) \in Placement /\ Conforms(Placed(Args), Len(Args))
  <1> DEFINE Good == {n \in Nat : Conforms(Placing(Args)[n], n)}
  <1>1. Args \in ArgList /\ Len(Args) \in Nat
    BY ArgsTyped
  <1>2. 0 \in Good
    <2>1. /\ Len(NoneYet["gp"]) = 0 /\ Len(NoneYet["fp"]) = 0 /\ Len(NoneYet.spilled) = 0
      BY DEF NoneYet
    <2>2. \A kind \in {"gp", "fp"} : 0 < Len(ArgRegs[kind]) /\ Before(0 + 1, kind) = 0
      BY ArgRegsAre, CountFirst
    <2>3. Conforms(NoneYet, 0)
      BY <2>1, <2>2, CountFirst DEF Conforms
    <2> QED
      BY <1>1, <2>3, PlacingIs
  <1>3. ASSUME NEW n \in 0 .. Len(Args), n < Len(Args), n \in Good PROVE n + 1 \in Good
    <2>1. PICK i, p, q, kind : /\ i = n + 1 /\ p = Placing(Args)[n] /\ q = Place(Args, p, i)
                               /\ kind = RegVal(Args[i])
      OBVIOUS
    <2>2. p \in Placement /\ Conforms(p, n) /\ n \in Nat
      BY <1>1, <1>3, <2>1, PlacingTyped
    <2>3. Conforms(q, i)
      BY <2>1, <2>2, ConformsNext
    <2>4. q = Placing(Args)[n + 1]
      BY <1>1, <1>3, <2>1, PlacingIs
    <2> QED
      BY <2>1, <2>2, <2>3, <2>4
  <1> HIDE DEF Good
  <1>4. 0 .. Len(Args) \subseteq Good
    BY <1>1, <1>2, <1>3, UpTo
  <1> QED
    BY <1>1, <1>4, PlacingTyped DEF Good, Placed

\* There are no more arguments in registers than registers.
LEMMA RegsSuffice ==
    ASSUME call \in Calls
    PROVE  /\ Placed(Args)["gp"] \in Seq(Words) /\ Len(Placed(Args)["gp"]) \in 0 .. 6
           /\ Placed(Args)["fp"] \in Seq(Words) /\ Len(Placed(Args)["fp"]) \in 0 .. 8
  <1>1. PICK p : p = Placed(Args)
    OBVIOUS
  <1>2. p \in Placement /\ Conforms(p, Len(Args)) /\ Len(Args) \in Nat
    BY <1>1, PlacedConforms, ArgsTyped
  <1>3. \A kind \in {"gp", "fp"} : Before(Len(Args) + 1, kind) \in Nat
    BY <1>2, BeforeNext
  <1>4. p["gp"] \in Seq(Words) /\ p["fp"] \in Seq(Words)
    BY <1>2 DEF Placement
  <1>5. ASSUME NEW kind \in {"gp", "fp"}, NEW size \in Nat, size = Len(ArgRegs[kind])
        PROVE  Len(p[kind]) \in 0 .. size
    <2>1. PICK b \in Nat : b = Before(Len(Args) + 1, kind)
      BY <1>3
    <2>2. Len(p[kind]) = IF b < size THEN b ELSE size
      BY <1>2, <1>5, <2>1 DEF Conforms
    <2> QED
      BY <2>2
  <1>6. Len(p["gp"]) \in 0 .. 6 /\ Len(p["fp"]) \in 0 .. 8
    BY <1>5, ArgRegsAre
  <1> QED
    BY <1>1, <1>4, <1>6

-----------------------------------------------------------------------------
(* The stack that init lays out.                                           *)

\* Two sequences of words, of m and of n words, one after the other.
Joined(q, s, t, m, n) ==
    /\ q \in Seq(Words) /\ Len(q) = m + n /\ m \in Nat /\ n \in Nat
    /\ \A i \in 1 .. m : q[i] = s[i]
    /\ \A i \in 1 .. n : q[m + i] = t[i]

\* Concatenation joins them.
LEMMA ConcatIs ==
    ASSUME NEW s \in Seq(Words), NEW t \in Seq(Words)
    PROVE  Joined(s \o t, s, t, Len(s), Len(t))
  BY DEF Joined

\* An odd number of words and one more are an even number.
LEMMA OneMoreIsEven == \A n \in Nat : (n % 2 = 1 => (1 + n) % 2 = 0) /\ (n % 2 # 1 => n % 2 = 0)
  OBVIOUS

\* The names that the model gives to words.
LEMMA WordsAre ==
    /\ Zero \in Words /\ Junk \in Words
    /\ {Word("backstop"), Word("fptr"), Word("bootstrap"), Word("activate"), Word("guest"),
        Word("host"), Word("exit_guest_region"), Word("enter_guest_region"), Word("default"),
        Word("instance")} \subseteq Words
    /\ \A n \in Nat : {<<"sp", n>>, <<"ctx", n>>, <<"arg", n>>, <<"host", n>>,
                       <<"result", n>>} \subseteq Words
    /\ \A n \in Nat : \A r \in Registers : <<r, n>> \in Words
  BY DEF Words, Names, Word, Zero, Junk

\* The arguments in memory, the first at the top, over an even number of words.
LEMMA StoreArgsIs ==
    ASSUME NEW s \in Seq(Words), NEW t, t = StoreArgs(s)
    PROVE  /\ t \in Seq(Words) /\ Len(t) \in Nat /\ Len(t) % 2 = 0 /\ Len(s) <= Len(t)
           /\ \A b \in 0 .. Len(s) - 1 : t[Len(t) - b] = s[b + 1]
  <1>1. PICK r : r = Reverse(s)
    OBVIOUS
  <1>2. /\ r \in Seq(Words) /\ Len(r) = Len(s) /\ Len(s) \in Nat
        /\ \A i \in 1 .. Len(s) : r[i] = s[(Len(s) - i) + 1]
    BY <1>1 DEF Reverse
  <1>3. CASE Len(s) % 2 = 1
    <2>1. PICK z : z = <<Zero>>
      OBVIOUS
    <2>2. z \in Seq(Words) /\ Len(z) = 1
      BY <2>1, WordsAre
    <2>3. t = z \o r
      BY <1>1, <1>3, <2>1 DEF StoreArgs
    <2>4. /\ t \in Seq(Words) /\ Len(t) = 1 + Len(s)
          /\ \A i \in 1 .. Len(s) : t[1 + i] = r[i]
      <3>1. Joined(t, z, r, Len(z), Len(r))
        BY <1>2, <2>2, <2>3, ConcatIs
      <3> QED
        BY <1>2, <2>2, <3>1 DEF Joined
    <2>5. ASSUME NEW b \in 0 .. Len(s) - 1 PROVE t[Len(t) - b] = s[b + 1]
      <3>1. PICK i \in 1 .. Len(s) : i = Len(s) - b
        BY <1>2
      <3>2. 1 + i = Len(t) - b /\ (Len(s) - i) + 1 = b + 1
        BY <1>2, <2>4, <3>1
      <3> QED
        BY <1>2, <2>4, <3>2
    <2>6. Len(t) \in Nat /\ Len(t) % 2 = 0 /\ Len(s) <= Len(t)
      BY <1>2, <1>3, <2>4, OneMoreIsEven
    <2> QED
      BY <2>4, <2>5, <2>6
  <1>4. CASE Len(s) % 2 # 1
    <2>1. PICK z : z = <<>>
      OBVIOUS
    <2>2. z \in Seq(Words) /\ Len(z) = 0
      BY <2>1
    <2>3. t = z \o r
      BY <1>1, <1>4, <2>1 DEF StoreArgs
    <2>4. /\ t \in Seq(Words) /\ Len(t) = 0 + Len(s)
          /\ \A i \in 1 .. Len(s) : t[0 + i] = r[i]
      <3>1. Joined(t, z, r, Len(z), Len(r))
        BY <1>2, <2>2, <2>3, ConcatIs
      <3> QED
        BY <1>2, <2>2, <3>1 DEF Joined
    <2>5. ASSUME NEW b \in 0 .. Len(s) - 1 PROVE t[Len(t) - b] = s[b + 1]
      <3>1. PICK i \in 1 .. Len(s) : i = Len(s) - b
        BY <1>2
      <3>2. 0 + i = Len(t) - b /\ (Len(s) - i) + 1 = b + 1
        BY <1>2, <2>4, <3>1
      <3> QED
        BY <1>2, <2>4, <3>2
    <2>6. Len(t) \in Nat /\ Len(t) % 2 = 0 /\ Len(s) <= Len(t)
      BY <1>2, <1>4, <2>4, OneMoreIsEven
    <2> QED
      BY <2>4, <2>5, <2>6
  <1> QED
    BY <1>3, <1>4

\* The number of words of arguments.
Base == Len(StoreArgs(Placed(Args).spilled))

\* The arguments in memory, downwards from the n-th word.
Spilled(s, spilled, n) ==
    /\ Len(spilled) <= n
    /\ \A b \in 0 .. Len(spilled) - 1 : s[n - b] = spilled[b + 1]

\* From the bottom: the arguments in memory, the backstop, the function, what bootstrap
\* pops, and the bootstrap.
LEMMA InitialStackIs ==
    ASSUME call \in Calls, NEW s, s = InitialStack(Args), NEW p, p = Placed(Args)
    PROVE  /\ Base \in Nat /\ Base % 2 = 0 /\ s \in Seq(Words) /\ Len(s) = Base + 9
           /\ s[Base + 1] = Word("backstop") /\ s[Base + 2] = Word("fptr")
           /\ s[Base + 9] = Word("bootstrap")
           /\ \A k \in 1 .. 6 : s[Base + 2 + k] = IF k <= Len(p.gp) THEN p.gp[k] ELSE Zero
           /\ Spilled(s, p.spilled, Base)
  <1>1. PICK t, two, g, one : /\ t = StoreArgs(p.spilled)
                              /\ two = <<Word("backstop"), Word("fptr")>>
                              /\ g = GpValues(p.gp) /\ one = <<Word("bootstrap")>>
    OBVIOUS
  <1>2. p \in Placement /\ p.spilled \in Seq(Words) /\ p.gp \in Seq(Words)
        /\ Len(p.spilled) \in Nat /\ Len(p.gp) \in Nat
    BY PlacedConforms DEF Placement
  <1>3. /\ t \in Seq(Words) /\ Len(t) \in Nat /\ Len(t) % 2 = 0 /\ Len(p.spilled) <= Len(t)
        /\ \A b \in 0 .. Len(p.spilled) - 1 : t[Len(t) - b] = p.spilled[b + 1]
    BY <1>1, <1>2, StoreArgsIs
  <1>4. /\ two \in Seq(Words) /\ Len(two) = 2 /\ two[1] = Word("backstop")
        /\ two[2] = Word("fptr")
        /\ one \in Seq(Words) /\ Len(one) = 1 /\ one[1] = Word("bootstrap")
    BY <1>1, WordsAre
  <1>5. /\ g \in Seq(Words) /\ Len(g) = 6
        /\ \A k \in 1 .. 6 : g[k] = IF k <= Len(p.gp) THEN p.gp[k] ELSE Zero
    BY <1>1, <1>2, WordsAre, SMTT(30) DEF GpValues
  <1>6. s = ((t \o two) \o g) \o one
    BY <1>1 DEF InitialStack
  <1>7. PICK u : u = t \o two
    OBVIOUS
  <1>8. PICK v : v = u \o g
    OBVIOUS
  <1>9. /\ u \in Seq(Words) /\ Len(u) = Len(t) + 2
        /\ \A i \in 1 .. Len(t) : u[i] = t[i]
        /\ \A i \in 1 .. 2 : u[Len(t) + i] = two[i]
    <2>1. Joined(u, t, two, Len(t), Len(two))
      BY <1>3, <1>4, <1>7, ConcatIs
    <2> QED
      BY <1>4, <2>1 DEF Joined
  <1>10. /\ v \in Seq(Words) /\ Len(v) = Len(u) + 6
         /\ \A i \in 1 .. Len(u) : v[i] = u[i]
         /\ \A i \in 1 .. 6 : v[Len(u) + i] = g[i]
    <2>1. Joined(v, u, g, Len(u), Len(g))
      BY <1>5, <1>8, <1>9, ConcatIs
    <2> QED
      BY <1>5, <2>1 DEF Joined
  <1>11. /\ s \in Seq(Words) /\ Len(s) = Len(v) + 1
         /\ \A i \in 1 .. Len(v) : s[i] = v[i]
         /\ \A i \in 1 .. 1 : s[Len(v) + i] = one[i]
    <2>1. Joined(s, v, one, Len(v), Len(one))
      BY <1>4, <1>6, <1>7, <1>8, <1>10, ConcatIs
    <2> QED
      BY <1>4, <2>1 DEF Joined
  <1>12. Base = Len(t)
    BY <1>1 DEF Base
  <1>13. /\ Len(u) = Base + 2 /\ Len(v) = Base + 8 /\ Len(s) = Base + 9
         /\ Base \in Nat
    BY <1>3, <1>9, <1>10, <1>11, <1>12
  <1>14. s[Base + 1] = two[1] /\ s[Base + 2] = two[2] /\ s[Base + 9] = one[1]
    <2>1. u[Base + 1] = two[1] /\ u[Base + 2] = two[2]
      BY <1>9, <1>12
    <2>2. v[Base + 1] = u[Base + 1] /\ v[Base + 2] = u[Base + 2]
      BY <1>10, <1>13
    <2>3. s[Base + 1] = v[Base + 1] /\ s[Base + 2] = v[Base + 2]
      BY <1>11, <1>13
    <2>4. s[Base + 9] = one[1]
      <3>1. s[Len(v) + 1] = one[1]
        BY <1>11
      <3> QED
        BY <1>13, <3>1
    <2> QED
      BY <2>1, <2>2, <2>3, <2>4
  <1>15. \A k \in 1 .. 6 : s[Base + 2 + k] = g[k]
    BY <1>10, <1>11, <1>13
  <1>16. ASSUME NEW b \in 0 .. Len(p.spilled) - 1 PROVE s[Base - b] = p.spilled[b + 1]
    <2>1. Base - b \in 1 .. Base
      BY <1>2, <1>3, <1>12
    <2>2. s[Base - b] = t[Base - b]
      <3>1. PICK x \in 1 .. Base : x = Base - b
        BY <2>1
      <3>2. u[x] = t[x]
        BY <1>9, <1>12
      <3>3. v[x] = u[x]
        BY <1>10, <1>13
      <3>4. s[x] = v[x]
        BY <1>11, <1>13
      <3> QED
        BY <3>1, <3>2, <3>3, <3>4
    <2> QED
      BY <1>3, <1>12, <2>2
  <1> QED
    <2>1. Spilled(s, p.spilled, Base)
      BY <1>3, <1>12, <1>16 DEF Spilled
    <2> QED
      BY <1>3, <1>4, <1>5, <1>11, <1>12, <1>13, <1>14, <1>15, <2>1

-----------------------------------------------------------------------------
(* The inductive invariant.                                                *)

PCs == {"host", "activate", "bootstrap", "fptr", "guest", "backstop"}
Machine == [pc : PCs, regs : [Registers -> Words], rsp : Words]
Context == [regs : [Kept -> Words], rsp : Words, parent : 0 .. NHosts + 1, gp : Words,
            fp : Words, callback : Words, data : Words]
Preserved == Range(CalleeSaved)

TypeOK ==
    /\ cpu \in [Hosts -> Machine]
    /\ ctx \in [0 .. NHosts -> Context]
    /\ stack \in Seq(Words)
    /\ call \in Calls
    /\ status \in {"ready", "running", "yielded", "terminated", "refused"}
    /\ called \in [Hosts -> Words]
    /\ runs \in Nat
    /\ swaps \in Nat

\* The lowest n words of the stack are as init has laid them out.
Laid(n) == Len(stack) >= n /\ \A i \in 1 .. n : stack[i] = InitialStack(Args)[i]

\* The entrypoint's frame: where it returns to, and the backstop's context in rbp's place.
Framed ==
    /\ Len(stack) >= Base + 7
    /\ stack[Base + 1] = Word("backstop") /\ stack[Base + 3] = <<"ctx", Guest>>

\* The arguments that are in registers of a kind.
InRegs(regs, kind) ==
    LET vals == Placed(Args)[kind] IN
    \A i \in 1 .. Len(vals) : regs[ArgRegs[kind][i]] = vals[i]
FpIntact == Clobbered \cap Range(ArgRegs["fp"]) = {}

\* A thread on its host has its registers, and the depth of its stack when it called swap.
HostInv ==
    \A h \in Hosts :
        /\ called[h][1] = "host"
        /\ cpu[h].pc = "host" =>
              cpu[h].rsp = called[h] /\ \A r \in Preserved : cpu[h].regs[r] = <<r, h>>

\* A thread in the guest has left them in its HOST_CTX, and is the only one.
AwayInv ==
    /\ \A g, h \in Hosts : cpu[g].pc # "host" /\ cpu[h].pc # "host" => g = h
    /\ \A h \in Hosts : cpu[h].pc # "host" =>
          /\ status = "running" /\ ctx[Guest].parent = h
          /\ ctx[h].rsp = called[h] /\ \A r \in Preserved : ctx[h].regs[r] = <<r, h>>

\* The way of a guest from the swap that enters it to the backstop.
AtActivate(m) ==
    /\ m.rsp = <<"sp", Base + 8>> /\ Laid(Base + 8) /\ InRegs(m.regs, "fp")
    /\ m.regs["rbp"] = <<"ctx", Guest>> /\ m.regs["rbx"] = Word("bootstrap")
    /\ m.regs["rsi"] = Word("enter_guest_region") /\ m.regs["rdi"] = Word("instance")
AtBootstrap(m) ==
    /\ m.rsp = <<"sp", Base + 8>> /\ Laid(Base + 8) /\ m.regs["rbp"] = <<"ctx", Guest>>
    /\ FpIntact => InRegs(m.regs, "fp")
AtEntry(m) ==
    /\ m.rsp = <<"sp", Base + 1>> /\ Laid(Base + 1) /\ m.regs["rbp"] = <<"ctx", Guest>>
    /\ FpIntact => InRegs(m.regs, "fp")
    /\ InRegs(m.regs, "gp")
InGuest(m) ==
    m.rsp = <<"sp", Base + 7>> /\ Framed /\ \A r \in Preserved : m.regs[r] = Word(r)
AtBackstop(m) ==
    /\ m.rsp = <<"sp", Base>> /\ m.regs["rbp"] = <<"ctx", Guest>>
    /\ m.regs["rax"] = <<"result", runs>> /\ m.regs["xmm0"] = <<"result", runs>>
OnItsWay(m) ==
    /\ m.pc = "activate" => AtActivate(m)
    /\ m.pc = "bootstrap" => AtBootstrap(m)
    /\ m.pc = "fptr" => AtEntry(m)
    /\ m.pc = "guest" => InGuest(m)
    /\ m.pc = "backstop" => AtBackstop(m)

GuestInv == \A h \in Hosts : OnItsWay(cpu[h])

\* A guest that has yielded can go on where it was.
YieldInv ==
    status = "yielded" =>
        /\ ctx[Guest].rsp = <<"sp", Base + 8>> /\ Framed
        /\ Len(stack) >= Base + 8 /\ stack[Base + 8] = Word("guest")
        /\ \A r \in Preserved : ctx[Guest].regs[r] = Word(r)

\* A guest that has returned has left its results.
ResultInv ==
    AtHost /\ status = "running" =>
        ctx[Guest].gp = <<"result", runs>> /\ ctx[Guest].fp = <<"result", runs>>

\* A call is refused for what is wrong with it.
Refuses(c) == IF c.bare THEN ~c.aligned ELSE ~Typechecks(c)
RefusedInv ==
    /\ status = "refused" => Refuses(call)
    /\ status \in {"running", "yielded", "terminated"} => ~Refuses(call)

IndInv ==
    TypeOK /\ HostInv /\ AwayInv /\ GuestInv /\ YieldInv /\ ResultInv /\ RefusedInv

-----------------------------------------------------------------------------
(* The machine.                                                            *)

USE ContextAssumption
USE DEF Hosts, Guest, Nobody

\* The registers that a function keeps, that a context keeps and that there are.
LEMMA RegistersAre ==
    /\ Len(CalleeSaved) = 6 /\ DOMAIN CalleeSaved = 1 .. 6
    /\ CalleeSaved[1] = "rbx" /\ CalleeSaved[2] = "rbp"
    /\ \A i, j \in 1 .. 6 : CalleeSaved[i] = CalleeSaved[j] => i = j
    /\ \A i \in 1 .. 6 : CalleeSaved[i] \in Preserved
    /\ {"rbx", "rbp"} \subseteq Preserved
    /\ Preserved \subseteq Kept /\ Kept \subseteq Registers
    /\ CallerSaved \subseteq Registers /\ CallerSaved \cap Preserved = {}
    /\ {"rdi", "rsi"} \subseteq Kept \ Preserved
    /\ {"rax", "xmm0"} \subseteq Registers \ Preserved
    /\ Range(ArgRegs["fp"]) \subseteq Kept \ Preserved
    /\ Range(ArgRegs["fp"]) \cap {"rdi", "rsi"} = {}
    /\ Range(ArgRegs["gp"]) \subseteq Registers \ Preserved
    /\ Range(ArgRegs["gp"]) \cap Range(ArgRegs["fp"]) = {}
    /\ \A i \in 1 .. 8 : ArgRegs["fp"][i] \in Range(ArgRegs["fp"])
    /\ \A i \in 1 .. 6 : ArgRegs["gp"][i] \in Range(ArgRegs["gp"])
  <1>1. Preserved = {"rbx", "rbp", "r12", "r13", "r14", "r15"}
    BY DEF Preserved, CalleeSaved, Range
  <1>2. Range(ArgRegs["gp"]) = {"rdi", "rsi", "rdx", "rcx", "r8", "r9"}
    BY DEF ArgRegs, Range
  <1>3. Range(ArgRegs["fp"]) =
           {"xmm0", "xmm1", "xmm2", "xmm3", "xmm4", "xmm5", "xmm6", "xmm7"}
    BY DEF ArgRegs, Range
  <1>4. /\ Registers = Range(ArgRegs["gp"]) \cup Range(ArgRegs["fp"]) \cup Preserved \cup {"rax"}
        /\ Kept = Preserved \cup {"rdi", "rsi"} \cup Range(ArgRegs["fp"])
        /\ CallerSaved = Registers \ Preserved
    BY DEF Registers, Kept, CallerSaved, Preserved
  <1>5. /\ \A i \in 1 .. 8 : ArgRegs["fp"][i] \in Range(ArgRegs["fp"])
        /\ \A i \in 1 .. 6 : ArgRegs["gp"][i] \in Range(ArgRegs["gp"])
    BY ArgRegsAre DEF Range
  <1>6. /\ Len(CalleeSaved) = 6 /\ DOMAIN CalleeSaved = 1 .. 6
        /\ CalleeSaved[1] = "rbx" /\ CalleeSaved[2] = "rbp"
        /\ \A i, j \in 1 .. 6 : CalleeSaved[i] = CalleeSaved[j] => i = j
    BY DEF CalleeSaved
  <1>7. \A i \in 1 .. 6 : CalleeSaved[i] \in Preserved
    BY <1>6 DEF Preserved, Range
  <1> QED
    BY <1>1, <1>2, <1>3, <1>4, <1>5, <1>6, <1>7

\* A word has a name and a number.
LEMMA WordIs == \A w \in Words : w[1] \in Names /\ w[2] \in Nat /\ w = <<w[1], w[2]>>
  BY DEF Words

\* `ret`, on the guest's stack.
LEMMA ReturnIs ==
    ASSUME NEW m \in Machine, NEW s, NEW top \in Nat, m.rsp = <<"sp", top + 1>>,
           NEW pc \in PCs, s[top + 1] = Word(pc)
    PROVE  Return(m, s) = [pc |-> pc, regs |-> m.regs, rsp |-> <<"sp", top>>]
  <1>1. m.rsp[1] = "sp" /\ m.rsp[2] = top + 1 /\ m.rsp[2] - 1 = top /\ Word(pc)[1] = pc
    BY DEF Word
  <1>2. Return(m, s) = [m EXCEPT !.pc = pc, !.rsp = <<"sp", top>>]
    BY <1>1 DEF Return, At
  <1>3. <<"sp", top>> \in Words
    BY WordsAre
  <1> QED
    BY <1>2, <1>3 DEF Machine

\* `ret`, on the host's stack.
LEMMA HomeIs ==
    ASSUME NEW m \in Machine, NEW s, m.rsp[1] # "sp"
    PROVE  Return(m, s) = [pc |-> "host", regs |-> m.regs, rsp |-> m.rsp]
  <1>1. Word("host")[1] = "host" /\ "host" \in PCs /\ m.rsp \in Words
    BY DEF Word, Machine, PCs
  <1>2. Return(m, s) = [m EXCEPT !.pc = "host", !.rsp = m.rsp]
    BY <1>1 DEF Return, At
  <1> QED
    BY <1>1, <1>2 DEF Machine

\* A processor loaded from a context.
LEMMA LoadIs ==
    ASSUME NEW m \in Machine, NEW c \in Context
    PROVE  /\ Load(m, c) \in Machine
           /\ Load(m, c).rsp = c.rsp /\ \A r \in Kept : Load(m, c).regs[r] = c.regs[r]
  <1> DEFINE regs == [r \in Registers |-> IF r \in Kept THEN c.regs[r] ELSE m.regs[r]]
  <1>1. regs \in [Registers -> Words] /\ \A r \in Kept : regs[r] = c.regs[r]
    BY RegistersAre DEF Machine, Context
  <1>2. Load(m, c) = [pc |-> m.pc, regs |-> regs, rsp |-> c.rsp]
    <2>1. Load(m, c) = [m EXCEPT !.regs = regs, !.rsp = c.rsp]
      BY DEF Load
    <2> HIDE DEF regs
    <2> QED
      BY <2>1 DEF Machine
  <1> HIDE DEF regs
  <1> QED
    BY <1>1, <1>2 DEF Machine, Context

\* A processor after a switch.
Switched(n, c, pc, rsp) ==
    n \in Machine /\ n.pc = pc /\ n.rsp = rsp /\ \A r \in Kept : n.regs[r] = c.regs[r]

\* A switch to a context on the guest's stack.
LEMMA IntoGuest ==
    ASSUME NEW m \in Machine, NEW c \in Context, NEW s, NEW top \in Nat,
           c.rsp = <<"sp", top + 1>>, NEW pc \in PCs, s[top + 1] = Word(pc)
    PROVE  Switched(Return(Load(m, c), s), c, pc, <<"sp", top>>)
  <1>1. PICK l : l = Load(m, c)
    OBVIOUS
  <1>2. l \in Machine /\ l.rsp = <<"sp", top + 1>> /\ \A r \in Kept : l.regs[r] = c.regs[r]
    BY <1>1, LoadIs
  <1>3. Return(l, s) = [pc |-> pc, regs |-> l.regs, rsp |-> <<"sp", top>>]
    BY <1>2, ReturnIs
  <1>4. <<"sp", top>> \in Words
    BY WordsAre
  <1> QED
    BY <1>1, <1>2, <1>3, <1>4 DEF Machine, Switched

\* A switch to a context on a host's stack.
LEMMA IntoHost ==
    ASSUME NEW m \in Machine, NEW c \in Context, NEW s, c.rsp[1] # "sp"
    PROVE  Switched(Return(Load(m, c), s), c, "host", c.rsp)
  <1>1. PICK l : l = Load(m, c)
    OBVIOUS
  <1>2. l \in Machine /\ l.rsp = c.rsp /\ \A r \in Kept : l.regs[r] = c.regs[r]
    BY <1>1, LoadIs
  <1>3. Return(l, s) = [pc |-> "host", regs |-> l.regs, rsp |-> l.rsp]
    BY <1>2, HomeIs
  <1>4. "host" \in PCs
    BY DEF PCs
  <1> QED
    BY <1>1, <1>2, <1>3, <1>4 DEF Machine, Switched

\* What depends on the call alone stays as the call does.
LEMMA CallStays ==
    ASSUME UNCHANGED call
    PROVE  /\ Args' = Args /\ Base' = Base
           /\ InitialStack(Args)' = InitialStack(Args) /\ Placed(Args)' = Placed(Args)
           /\ \A regs, kind : InRegs(regs, kind)' <=> InRegs(regs, kind)
  <1>1. Args' = Args
    BY DEF Args, WithVmctx
  <1> QED
    BY <1>1 DEF Base, InRegs

-----------------------------------------------------------------------------
(* The step from one state to the next.                                    *)

\* A thread is in the guest, and its others are at home.
LEMMA OneAway ==
    ASSUME IndInv, NEW h \in Hosts, cpu[h].pc # "host"
    PROVE  /\ \A g \in Hosts : g # h => cpu[g].pc = "host"
           /\ status = "running" /\ ctx[Guest].parent = h
           /\ ctx[h].rsp = called[h] /\ called[h][1] = "host"
           /\ \A r \in Preserved : ctx[h].regs[r] = <<r, h>>
           /\ cpu[h] \in Machine /\ ctx[h] \in Context /\ ctx[Guest] \in Context
           /\ OnItsWay(cpu[h])
  BY DEF IndInv, AwayInv, HostInv, TypeOK, GuestInv

\* A step in the guest, after which the guest is still on its way.
LEMMA GuestSteps ==
    ASSUME IndInv, NEW h \in Hosts, cpu[h].pc # "host",
           NEW m \in Machine, m.pc # "host", cpu' = [cpu EXCEPT ![h] = m],
           UNCHANGED <<ctx, call, status, called, runs, swaps>>,
           stack' \in Seq(Words), OnItsWay(cpu[h])'
    PROVE  IndInv'
  <1>1. /\ \A g \in Hosts : g # h => cpu[g].pc = "host" /\ cpu'[g] = cpu[g]
        /\ status = "running" /\ cpu'[h] = m /\ cpu' \in [Hosts -> Machine]
    BY OneAway DEF IndInv, TypeOK
  <1>2. TypeOK'
    BY <1>1 DEF IndInv, TypeOK
  <1>3. HostInv'
    BY <1>1 DEF IndInv, HostInv
  <1>4. AwayInv'
    BY <1>1, OneAway DEF AwayInv
  <1>5. GuestInv'
    BY <1>1 DEF GuestInv, OnItsWay
  <1>6. YieldInv' /\ ResultInv'
    BY <1>1 DEF YieldInv, ResultInv, AtHost
  <1>7. RefusedInv'
    BY DEF IndInv, RefusedInv, Refuses, Typechecks
  <1> QED
    BY <1>2, <1>3, <1>4, <1>5, <1>6, <1>7 DEF IndInv

\* The thread in the guest goes home, where it goes on as it called swap.
LEMMA GoesHome ==
    ASSUME IndInv, NEW h \in Hosts, cpu[h].pc # "host", NEW m \in Machine, NEW s,
           cpu' = [cpu EXCEPT ![h] = Return(Load(m, ctx[h]), s)],
           ctx' \in [0 .. NHosts -> Context], stack' \in Seq(Words),
           status' \in {"running", "yielded", "terminated"},
           UNCHANGED <<call, called, runs>>, swaps' \in Nat
    PROVE  TypeOK' /\ HostInv' /\ AwayInv' /\ GuestInv' /\ RefusedInv'
  <1>1. PICK n : n = Return(Load(m, ctx[h]), s)
    OBVIOUS
  <1>2. ctx[h].rsp[1] # "sp"
    BY OneAway
  <1>3. n \in Machine /\ n.pc = "host" /\ n.rsp = called[h]
        /\ \A r \in Preserved : n.regs[r] = <<r, h>>
    <2>1. /\ n \in Machine /\ n.pc = "host" /\ n.rsp = ctx[h].rsp
          /\ \A r \in Kept : n.regs[r] = ctx[h].regs[r]
      BY <1>1, <1>2, OneAway, IntoHost DEF Switched
    <2>2. Preserved \subseteq Kept
      BY RegistersAre
    <2> QED
      BY <2>1, <2>2, OneAway, SMTT(30)
  <1>4. /\ \A g \in Hosts : g # h => cpu[g].pc = "host" /\ cpu'[g] = cpu[g]
        /\ cpu'[h] = n /\ cpu' \in [Hosts -> Machine] /\ status = "running"
    BY <1>1, <1>3, OneAway DEF IndInv, TypeOK
  <1>5. \A g \in Hosts : cpu'[g].pc = "host"
    BY <1>3, <1>4
  <1>6. TypeOK'
    BY <1>4 DEF IndInv, TypeOK
  <1>7. HostInv'
    BY <1>3, <1>4 DEF IndInv, HostInv
  <1>8. AwayInv' /\ GuestInv'
    BY <1>5 DEF AwayInv, GuestInv, OnItsWay
  <1>9. RefusedInv'
    BY <1>4 DEF IndInv, RefusedInv, Refuses, Typechecks
  <1> QED
    BY <1>6, <1>7, <1>8, <1>9

\* With everybody at home, a thread enters the guest.
LEMMA GoesAway ==
    ASSUME IndInv, AtHost, NEW h \in Hosts, NEW c \in Context, NEW s \in Seq(Words),
           NEW top \in Nat, c.rsp = <<"sp", top + 1>>,
           NEW pc \in PCs \ {"host"}, s[top + 1] = Word(pc),
           EnterFrom(h, c, s), status' = "running", ~Refuses(call),
           UNCHANGED <<call, swaps>>, runs' \in Nat,
           ASSUME cpu'[h].pc = pc, cpu'[h].rsp = <<"sp", top>>,
                  \A r \in Kept : cpu'[h].regs[r] = c.regs[r]
           PROVE  OnItsWay(cpu[h])'
    PROVE  IndInv'
  <1>1. PICK sp : sp = <<"host", runs + swaps + 1>>
    OBVIOUS
  <1>2. PICK m : m = [cpu[h] EXCEPT !.rsp = sp]
    OBVIOUS
  <1>3. /\ called' = [called EXCEPT ![h] = sp] /\ stack' = s
        /\ ctx' = [ctx EXCEPT ![h] = Save(m, @), ![0] = Adopted(c, h)]
        /\ cpu' = [cpu EXCEPT ![h] = Return(Load(m, c), s)]
    BY <1>1, <1>2 DEF EnterFrom, Swap
  <1>4. /\ sp \in Words /\ cpu[h] \in Machine /\ ctx[h] \in Context /\ sp[1] = "host"
        /\ cpu[h].pc = "host" /\ \A r \in Preserved : cpu[h].regs[r] = <<r, h>>
    <2>1. runs + swaps + 1 \in Nat /\ sp[1] = "host"
      BY <1>1 DEF IndInv, TypeOK
    <2>2. sp \in Words
      BY <1>1, <2>1, WordsAre
    <2> QED
      BY <2>1, <2>2 DEF IndInv, TypeOK, HostInv, AtHost
  <1>5. m \in Machine /\ m.rsp = sp /\ m.regs = cpu[h].regs
    BY <1>2, <1>4 DEF Machine
  <1>6. PICK n : n = Return(Load(m, c), s)
    OBVIOUS
  <1>7. /\ n \in Machine /\ n.pc = pc /\ n.rsp = <<"sp", top>>
        /\ \A r \in Kept : n.regs[r] = c.regs[r]
    <2>1. Switched(n, c, pc, <<"sp", top>>)
      BY <1>5, <1>6, IntoGuest
    <2> QED
      BY <2>1 DEF Switched
  <1>8. /\ cpu' \in [Hosts -> Machine] /\ cpu'[h] = n
        /\ \A g \in Hosts : g # h => cpu'[g] = cpu[g] /\ cpu'[g].pc = "host"
    BY <1>3, <1>6, <1>7 DEF IndInv, TypeOK, AtHost
  <1>9. PICK d : d = Save(m, ctx[h])
    OBVIOUS
  <1>10. d \in Context /\ d.rsp = sp /\ \A r \in Preserved : d.regs[r] = <<r, h>>
    <2>1. d = [ctx[h] EXCEPT !.regs = [r \in Kept |-> m.regs[r]], !.rsp = sp]
      BY <1>5, <1>9 DEF Save
    <2> DEFINE regs == [r \in Kept |-> m.regs[r]]
    <2>2. regs \in [Kept -> Words] /\ \A r \in Preserved : regs[r] = <<r, h>>
      BY <1>4, <1>5, RegistersAre DEF Machine
    <2>3. d = [ctx[h] EXCEPT !.regs = regs, !.rsp = sp]
      BY <2>1
    <2> HIDE DEF regs
    <2> QED
      BY <1>4, <2>2, <2>3 DEF Context
  <1>11. PICK e : e = Adopted(c, h)
    OBVIOUS
  <1>12. e \in Context /\ e.parent = h
    BY <1>11, SMTT(30) DEF Adopted, Context
  <1>13. /\ ctx' \in [0 .. NHosts -> Context] /\ ctx'[h] = d /\ ctx'[0] = e
    <2>1. ctx' = [ctx EXCEPT ![h] = d, ![0] = e]
      BY <1>3, <1>9, <1>11
    <2>2. h # 0 /\ h \in 0 .. NHosts /\ 0 \in 0 .. NHosts
      OBVIOUS
    <2> QED
      BY <1>10, <1>12, <2>1, <2>2 DEF IndInv, TypeOK
  <1>14. TypeOK'
    BY <1>3, <1>4, <1>8, <1>13 DEF IndInv, TypeOK
  <1>15. HostInv'
    BY <1>3, <1>4, <1>7, <1>8 DEF IndInv, TypeOK, HostInv
  <1>16. AwayInv'
    BY <1>3, <1>8, <1>10, <1>12, <1>13 DEF AwayInv, IndInv, TypeOK
  <1>17. GuestInv'
    BY <1>7, <1>8 DEF GuestInv, OnItsWay
  <1>18. YieldInv' /\ ResultInv'
    BY <1>7, <1>8 DEF YieldInv, ResultInv, AtHost
  <1>19. RefusedInv'
    BY DEF RefusedInv, Refuses, Typechecks
  <1> QED
    BY <1>14, <1>15, <1>16, <1>17, <1>18, <1>19 DEF IndInv

\* A new context.
LEMMA NewContextIs == NewContext \in Context
  <1>1. Zero \in Words /\ Word("default") \in Words
    BY WordsAre
  <1>2. [r \in Kept |-> Zero] \in [Kept -> Words]
    BY <1>1
  <1>3. NHosts + 1 \in 0 .. NHosts + 1
    OBVIOUS
  <1> QED
    BY <1>1, <1>2, <1>3 DEF NewContext, Context

\* The contexts, the hosts and the call of the initial state.
LEMMA InvInit == Init => IndInv
  <1> SUFFICES ASSUME Init PROVE IndInv
    OBVIOUS
  <1> USE DEF Init
  <1>1. \A h \in Hosts : /\ HostRegs(h) \in [Registers -> Words]
                         /\ \A r \in Preserved : HostRegs(h)[r] = <<r, h>>
    <2>1. SUFFICES ASSUME NEW h \in Hosts
                   PROVE  /\ HostRegs(h) \in [Registers -> Words]
                          /\ \A r \in Preserved : HostRegs(h)[r] = <<r, h>>
      OBVIOUS
    <2>2. h \in Nat
      OBVIOUS
    <2>4. Junk \in Words /\ \A r \in Registers : <<r, h>> \in Words
      BY <2>2, WordsAre
    <2>3. Preserved \subseteq Registers /\ CallerSaved \cap Preserved = {}
      BY RegistersAre
    <2> QED
      BY <2>3, <2>4 DEF HostRegs
  <1>2. <<"host", 0>> \in Words /\ Zero \in Words /\ Word("default") \in Words /\ "host" \in PCs
    BY WordsAre DEF PCs
  <1>3. NewContext \in Context
    BY NewContextIs
  <1>4. TypeOK
    <2>1. cpu \in [Hosts -> Machine]
      BY <1>1, <1>2 DEF Machine
    <2>2. {Guest} \cup Hosts = 0 .. NHosts
      OBVIOUS
    <2> QED
      BY <1>2, <1>3, <2>1, <2>2 DEF TypeOK
  <1>5. HostInv
    BY <1>1 DEF HostInv
  <1>6. AwayInv /\ GuestInv
    BY DEF AwayInv, GuestInv, OnItsWay
  <1>7. YieldInv /\ ResultInv /\ RefusedInv
    BY DEF YieldInv, ResultInv, RefusedInv
  <1> QED
    BY <1>4, <1>5, <1>6, <1>7 DEF IndInv

\* lucet_context_set takes the thread home.
LEMMA SetHostStep ==
    ASSUME IndInv, NEW h \in Hosts, cpu[h].pc # "host", SetHost(h), status' = "terminated",
           UNCHANGED <<call, called, runs, swaps>>
    PROVE  IndInv'
  <1>1. /\ cpu' = [cpu EXCEPT ![h] = Return(Load(cpu[h], ctx[h]), stack)]
        /\ ctx' = ctx /\ stack' = stack
    BY DEF SetHost
  <1>2. /\ ctx' \in [0 .. NHosts -> Context] /\ stack' \in Seq(Words) /\ swaps' \in Nat
        /\ cpu[h] \in Machine
    BY <1>1 DEF IndInv, TypeOK
  <1>3. TypeOK' /\ HostInv' /\ AwayInv' /\ GuestInv' /\ RefusedInv'
    BY <1>1, <1>2, GoesHome
  <1>4. YieldInv' /\ ResultInv'
    BY DEF YieldInv, ResultInv
  <1> QED
    BY <1>3, <1>4 DEF IndInv

\* The activator calls enter_guest_region, and goes on to the bootstrap or not.
LEMMA ActivateStep ==
    ASSUME IndInv, NEW h \in Hosts, Activate(h)
    PROVE  IndInv'
  <1>1. cpu[h].pc = "activate" /\ AtActivate(cpu[h]) /\ cpu[h] \in Machine
    BY OneAway DEF Activate, OnItsWay
  <1>2. CASE SetHost(h) /\ status' = "terminated"
    BY <1>1, <1>2, SetHostStep DEF Activate
  <1>3. CASE /\ cpu' = [cpu EXCEPT ![h].pc = cpu[h].regs["rbx"][1],
                                   ![h].regs = Scratched(@, Clobbered)]
             /\ UNCHANGED <<ctx, stack, status>>
    <2>1. PICK regs : regs = Scratched(cpu[h].regs, Clobbered)
      OBVIOUS
    <2>2. /\ regs \in [Registers -> Words]
          /\ \A r \in Registers : r \notin Clobbered => regs[r] = cpu[h].regs[r]
      BY <1>1, <2>1, WordsAre DEF Scratched, Machine
    <2>3. PICK m : m = [cpu[h] EXCEPT !.pc = "bootstrap", !.regs = regs]
      OBVIOUS
    <2>4. cpu[h].regs["rbx"][1] = "bootstrap" /\ "bootstrap" \in PCs
      BY <1>1 DEF AtActivate, Word, PCs
    <2>5. m \in Machine /\ m.pc = "bootstrap" /\ m.rsp = cpu[h].rsp /\ m.regs = regs
      BY <1>1, <2>2, <2>3, <2>4 DEF Machine
    <2>6. cpu' = [cpu EXCEPT ![h] = m]
      BY <1>3, <2>1, <2>3, <2>4
    <2>7. cpu'[h] = m
      BY <2>6 DEF IndInv, TypeOK
    <2>8. UNCHANGED <<ctx, stack, call, status, called, runs, swaps>>
      BY <1>3 DEF Activate
    <2>9. AtBootstrap(cpu[h])'
      <3>1. Base' = Base /\ (\A r, k : InRegs(r, k)' <=> InRegs(r, k)) /\ Laid(Base + 8)'
        BY <1>1, <2>8, CallStays DEF Laid, AtActivate
      <3>2. regs["rbp"] = <<"ctx", Guest>>
        BY <1>1, <2>2, RegistersAre DEF AtActivate
      <3>3. ASSUME FpIntact PROVE InRegs(regs, "fp")
        <4>1. PICK vals : vals = Placed(Args)["fp"]
          OBVIOUS
        <4>2. \A i \in 1 .. Len(vals) : i \in 1 .. 8
          <5>1. call \in Calls
            BY DEF IndInv, TypeOK
          <5>2. Len(vals) \in 0 .. 8
            BY <4>1, <5>1, RegsSuffice
          <5>3. PICK n \in 0 .. 8 : n = Len(vals)
            BY <5>2
          <5> QED
            BY <5>3
        <4>3. \A i \in 1 .. 8 : ArgRegs["fp"][i] \in Registers \ Clobbered
          BY <3>3, RegistersAre DEF FpIntact
        <4>4. \A i \in 1 .. Len(vals) : cpu[h].regs[ArgRegs["fp"][i]] = vals[i]
          BY <1>1, <4>1 DEF AtActivate, InRegs
        <4>5. \A i \in 1 .. Len(vals) : regs[ArgRegs["fp"][i]] = vals[i]
          BY <2>2, <4>2, <4>3, <4>4
        <4> QED
          BY <4>1, <4>5 DEF InRegs
      <3> QED
        BY <1>1, <2>5, <2>7, <3>1, <3>2, <3>3 DEF AtBootstrap, AtActivate, FpIntact
    <2>10. OnItsWay(cpu[h])'
      BY <2>5, <2>7, <2>9 DEF OnItsWay
    <2> QED
      BY <1>1, <2>5, <2>6, <2>8, <2>10, GuestSteps DEF IndInv, TypeOK
  <1> QED
    BY <1>2, <1>3 DEF Activate

\* A register of a list has one place in it.
LEMMA GpIndex ==
    /\ \A i \in 1 .. 6 : (CHOOSE j \in 1 .. 6 : ArgRegs["gp"][j] = ArgRegs["gp"][i]) = i
    /\ \A r \in Range(ArgRegs["gp"]) : (CHOOSE j \in 1 .. 6 : ArgRegs["gp"][j] = r) \in 1 .. 6
  <1>1. \A r \in Range(ArgRegs["gp"]) : \E i \in 1 .. 6 : ArgRegs["gp"][i] = r
    BY ArgRegsAre DEF Range
  <1> QED
    BY <1>1, ArgRegsAre

\* The same of the registers that a function keeps.
LEMMA PreservedIndex ==
    /\ (CHOOSE j \in DOMAIN CalleeSaved : CalleeSaved[j] = "rbp") = 2
    /\ \A r \in Preserved : (CHOOSE j \in DOMAIN CalleeSaved : CalleeSaved[j] = r) \in 1 .. 6
  <1>1. /\ DOMAIN CalleeSaved = 1 .. 6 /\ CalleeSaved[2] = "rbp"
        /\ \A i, j \in 1 .. 6 : CalleeSaved[i] = CalleeSaved[j] => i = j
    BY RegistersAre
  <1>2. \A r \in Preserved : \E i \in 1 .. 6 : CalleeSaved[i] = r
    BY <1>1 DEF Preserved, Range
  <1> QED
    BY <1>1, <1>2

\* The stack pointers into the guest's stack are words.
LEMMA PointersAre == \A n \in Nat : <<"sp", n>> \in Words
  BY WordsAre

\* The places in the code.
LEMMA PlacesAre == {"host", "activate", "bootstrap", "fptr", "guest", "backstop"} = PCs
  BY DEF PCs

\* The bootstrap pops the arguments and returns into the function.
LEMMA BootstrapStep ==
    ASSUME IndInv, NEW h \in Hosts, Bootstrap(h)
    PROVE  IndInv'
  <1>1. cpu[h].pc = "bootstrap" /\ AtBootstrap(cpu[h]) /\ cpu[h] \in Machine
    BY OneAway DEF Bootstrap, OnItsWay
  <1>2. call \in Calls /\ stack \in Seq(Words) /\ Len(stack) \in Nat
    BY DEF IndInv, TypeOK
  <1>3. PICK p, s : p = Placed(Args) /\ s = InitialStack(Args)
    OBVIOUS
  <1>4. /\ Base \in Nat /\ s[Base + 1] = Word("backstop") /\ s[Base + 2] = Word("fptr")
        /\ \A k \in 1 .. 6 : s[Base + 2 + k] = IF k <= Len(p.gp) THEN p.gp[k] ELSE Zero
    BY <1>2, <1>3, InitialStackIs
  <1>5. Len(stack) >= Base + 8 /\ \A i \in 1 .. Base + 8 : stack[i] = s[i]
    BY <1>1, <1>3 DEF AtBootstrap, Laid
  <1>6. PICK regs : regs = [r \in Registers |->
            IF r \in Range(ArgRegs["gp"])
            THEN stack[(Base + 2) + (CHOOSE i \in 1 .. 6 : ArgRegs["gp"][i] = r)]
            ELSE cpu[h].regs[r]]
    OBVIOUS
  <1>7. regs \in [Registers -> Words]
    <2>1. \A k \in 1 .. 6 : stack[(Base + 2) + k] \in Words
      BY <1>2, <1>4, <1>5, SMTT(30)
    <2>2. cpu[h].regs \in [Registers -> Words]
      BY <1>1 DEF Machine
    <2> QED
      BY <1>6, <2>1, <2>2, GpIndex, ZenonT(60)
  <1>8. PICK n : n = [cpu[h] EXCEPT !.regs = regs, !.rsp = <<"sp", Base + 2>>]
    OBVIOUS
  <1>9. n \in Machine /\ n.regs = regs /\ n.rsp = <<"sp", (Base + 1) + 1>>
    <2>1. Base + 2 \in Nat /\ (Base + 1) + 1 = Base + 2
      BY <1>4
    <2>2. <<"sp", Base + 2>> \in Words
      BY <2>1, PointersAre
    <2> QED
      BY <1>1, <1>7, <1>8, <2>1, <2>2 DEF Machine
  <1>10. PICK m : m = [pc |-> "fptr", regs |-> regs, rsp |-> <<"sp", Base + 1>>]
    OBVIOUS
  <1>11. m \in Machine /\ m.pc = "fptr" /\ m.regs = regs /\ m.rsp = <<"sp", Base + 1>>
    <2>1. Base + 1 \in Nat
      BY <1>4
    <2>2. <<"sp", Base + 1>> \in Words /\ "fptr" \in PCs
      BY <2>1, PointersAre, PlacesAre
    <2> QED
      BY <1>7, <1>10, <2>2 DEF Machine
  <1>12. cpu' = [cpu EXCEPT ![h] = m]
    <2>1. cpu[h].rsp[2] = Base + 8 /\ (Base + 8) - 6 = Base + 2
      BY <1>1, <1>4 DEF AtBootstrap
    <2>2. cpu' = [cpu EXCEPT ![h] = Return(n, stack)]
      <3>1. PICK top : top = cpu[h].rsp[2]
        OBVIOUS
      <3>2. top - 6 = Base + 2
        BY <2>1, <3>1
      <3>3. PICK popped : popped = [r \in Registers |->
                IF r \in Range(ArgRegs.gp)
                THEN stack[top - 6 + (CHOOSE i \in 1 .. 6 : ArgRegs.gp[i] = r)]
                ELSE cpu[h].regs[r]]
        OBVIOUS
      <3>4. cpu' = [cpu EXCEPT ![h] =
                Return([cpu[h] EXCEPT !.regs = popped, !.rsp = <<"sp", top - 6>>], stack)]
        BY <3>1, <3>3 DEF Bootstrap
      <3>5. popped = regs
        BY <1>6, <3>2, <3>3
      <3> QED
        BY <1>8, <3>2, <3>4, <3>5
    <2>3. stack[(Base + 1) + 1] = Word("fptr") /\ Base + 1 \in Nat /\ "fptr" \in PCs
      <3>1. PICK b \in Nat : b = Base
        BY <1>4
      <3>2. b + 2 \in 1 .. b + 8 /\ (b + 1) + 1 = b + 2 /\ b + 1 \in Nat
        OBVIOUS
      <3>3. stack[b + 2] = s[b + 2]
        BY <1>5, <3>1, <3>2
      <3> QED
        BY <1>4, <3>1, <3>2, <3>3, PlacesAre
    <2>4. Return(n, stack) = m
      BY <1>9, <1>10, <2>3, ReturnIs
    <2> QED
      BY <2>2, <2>4
  <1>13. cpu'[h] = m /\ UNCHANGED <<ctx, stack, call, status, called, runs, swaps>>
    BY <1>12 DEF IndInv, TypeOK, Bootstrap
  <1>14. InRegs(regs, "gp")
    <2>1. p["gp"] \in Seq(Words) /\ Len(p["gp"]) \in 0 .. 6
      BY <1>2, <1>3, RegsSuffice
    <2>2. ASSUME NEW i \in 1 .. Len(p["gp"]) PROVE regs[ArgRegs["gp"][i]] = p["gp"][i]
      <3>0. PICK k \in 0 .. 6, b \in Nat : k = Len(p["gp"]) /\ b = Base
        BY <1>4, <2>1
      <3>3. i \in 1 .. k
        BY <3>0
      <3>4. i \in 1 .. 6 /\ i <= k /\ (b + 2) + i \in 1 .. b + 8
        BY <3>3
      <3>1. i \in 1 .. 6 /\ i <= Len(p["gp"]) /\ (Base + 2) + i \in 1 .. Base + 8
        BY <3>0, <3>4
      <3>2. regs[ArgRegs["gp"][i]] = stack[(Base + 2) + i]
        BY <1>6, <3>1, GpIndex, RegistersAre
      <3> QED
        BY <1>4, <1>5, <3>1, <3>2
    <2> QED
      BY <1>3, <2>2 DEF InRegs
  <1>15. ASSUME FpIntact PROVE InRegs(regs, "fp")
    <2>1. PICK vals : vals = Placed(Args)["fp"]
      OBVIOUS
    <2>2. PICK k \in 0 .. 8 : k = Len(vals)
      BY <1>2, <2>1, RegsSuffice
    <2>3. \A i \in 1 .. 8 : regs[ArgRegs["fp"][i]] = cpu[h].regs[ArgRegs["fp"][i]]
      BY <1>6, RegistersAre
    <2>4. \A i \in 1 .. k : cpu[h].regs[ArgRegs["fp"][i]] = vals[i]
      BY <1>1, <1>15, <2>1, <2>2 DEF AtBootstrap, InRegs
    <2>5. \A i \in 1 .. k : regs[ArgRegs["fp"][i]] = vals[i]
      BY <2>3, <2>4, SMTT(30)
    <2> QED
      BY <2>1, <2>2, <2>5 DEF InRegs
  <1>16. AtEntry(cpu[h])'
    <2>1. Base' = Base /\ (\A r, k : InRegs(r, k)' <=> InRegs(r, k))
      BY <1>13, CallStays
    <2>2. Laid(Base + 1)'
      BY <1>3, <1>4, <1>5, <1>13, CallStays, SMTT(30) DEF Laid
    <2>3. regs["rbp"] = <<"ctx", Guest>>
      BY <1>1, <1>6, RegistersAre DEF AtBootstrap
    <2> QED
      BY <1>11, <1>13, <1>14, <1>15, <2>1, <2>2, <2>3 DEF AtEntry, FpIntact
  <1>17. OnItsWay(cpu[h])'
    BY <1>11, <1>13, <1>16 DEF OnItsWay
  <1> QED
    BY <1>1, <1>2, <1>11, <1>12, <1>13, <1>17, GuestSteps

\* A table of n words is a sequence of n words.
LEMMA TableIs ==
    ASSUME NEW n \in Nat, NEW f \in [1 .. n -> Words]
    PROVE  f \in Seq(Words) /\ Len(f) = n
  OBVIOUS

\* The lowest words of a stack.
LEMMA LowestWords ==
    ASSUME NEW s \in Seq(Words), NEW n \in Nat, n <= Len(s)
    PROVE  /\ SubSeq(s, 1, n) \in Seq(Words) /\ Len(SubSeq(s, 1, n)) = n
           /\ \A i \in 1 .. n : SubSeq(s, 1, n)[i] = s[i]
  <1>1. Len(s) \in Nat /\ \A i \in 1 .. Len(s) : s[i] \in Words
    OBVIOUS
  <1>2. \A i \in 1 .. n : i \in 1 .. Len(s)
    BY <1>1
  <1>3. SubSeq(s, 1, n) = [i \in 1 .. n |-> s[i]]
    BY <1>1, <1>2
  <1>4. SubSeq(s, 1, n) \in [1 .. n -> Words]
    BY <1>1, <1>2, <1>3
  <1> QED
    BY <1>3, <1>4

\* The function saves the backstop's context in its frame.
LEMMA BeginsStep ==
    ASSUME IndInv, NEW h \in Hosts, EntrypointBegins(h)
    PROVE  IndInv'
  <1>1. cpu[h].pc = "fptr" /\ AtEntry(cpu[h]) /\ cpu[h] \in Machine
    BY OneAway DEF EntrypointBegins, OnItsWay
  <1>2. call \in Calls /\ stack \in Seq(Words) /\ Len(stack) \in Nat
    BY DEF IndInv, TypeOK
  <1>3. PICK s : s = InitialStack(Args)
    OBVIOUS
  <1>4. PICK b \in Nat : b = Base /\ s[b + 1] = Word("backstop")
    BY <1>2, <1>3, InitialStackIs
  <1>5. /\ cpu[h].rsp = <<"sp", b + 1>> /\ cpu[h].regs["rbp"] = <<"ctx", Guest>>
        /\ b + 1 <= Len(stack) /\ stack[b + 1] = Word("backstop")
    <2>1. Laid(b + 1) /\ b + 1 \in 1 .. b + 1
      BY <1>1, <1>4 DEF AtEntry
    <2>2. Len(stack) >= b + 1 /\ stack[b + 1] = s[b + 1]
      BY <1>3, <2>1 DEF Laid
    <2> QED
      BY <1>1, <1>2, <1>4, <2>2 DEF AtEntry
  <1>6. PICK saved : saved = [i \in DOMAIN CalleeSaved |-> cpu[h].regs[CalleeSaved[i]]]
    OBVIOUS
  <1>7. saved \in Seq(Words) /\ Len(saved) = 6 /\ saved[2] = <<"ctx", Guest>>
    <2>1. /\ DOMAIN CalleeSaved = 1 .. 6 /\ CalleeSaved[2] = "rbp"
          /\ \A i \in 1 .. 6 : CalleeSaved[i] \in Registers
      BY RegistersAre
    <2>2. cpu[h].regs \in [Registers -> Words]
      BY <1>1 DEF Machine
    <2>3. saved \in [1 .. 6 -> Words] /\ saved[2] = <<"ctx", Guest>>
      BY <1>5, <1>6, <2>1, <2>2
    <2> QED
      BY <2>3, TableIs
  <1>8. PICK low : low = SubSeq(stack, 1, b + 1)
    OBVIOUS
  <1>9. low \in Seq(Words) /\ Len(low) = b + 1 /\ low[b + 1] = stack[b + 1]
    <2>1. b + 1 \in Nat /\ b + 1 \in 1 .. b + 1
      OBVIOUS
    <2> QED
      BY <1>2, <1>5, <1>8, <2>1, LowestWords
  <1>10. stack' = low \o saved
    <2>1. cpu[h].rsp[2] = b + 1
      BY <1>5
    <2>2. stack' = SubSeq(stack, 1, cpu[h].rsp[2])
                       \o [i \in DOMAIN CalleeSaved |-> cpu[h].regs[CalleeSaved[i]]]
      BY Zenon DEF EntrypointBegins
    <2> QED
      BY <1>6, <1>8, <2>1, <2>2
  <1>11. /\ stack' \in Seq(Words) /\ Len(stack') = b + 7
         /\ stack'[b + 1] = Word("backstop") /\ stack'[b + 3] = <<"ctx", Guest>>
    <2>1. Joined(stack', low, saved, b + 1, 6)
      BY <1>7, <1>9, <1>10, ConcatIs
    <2>2. /\ stack' \in Seq(Words) /\ Len(stack') = (b + 1) + 6
          /\ \A i \in 1 .. b + 1 : stack'[i] = low[i]
          /\ \A i \in 1 .. 6 : stack'[(b + 1) + i] = saved[i]
      BY <2>1 DEF Joined
    <2>3. b + 1 \in 1 .. b + 1 /\ (b + 1) + 2 = b + 3 /\ (b + 1) + 6 = b + 7
      OBVIOUS
    <2>4. stack'[(b + 1) + 2] = saved[2]
      BY <2>2
    <2> QED
      BY <1>5, <1>7, <1>9, <2>2, <2>3, <2>4
  <1>12. PICK regs : regs = [r \in Registers |-> IF r \in CallerSaved THEN Junk ELSE Word(r)]
    OBVIOUS
  <1>13. regs \in [Registers -> Words] /\ \A r \in Preserved : regs[r] = Word(r)
    <2>1. Junk \in Words /\ \A r \in Registers : Word(r) \in Words
      BY WordsAre DEF Word
    <2>2. Preserved \subseteq Registers /\ CallerSaved \cap Preserved = {}
      BY RegistersAre
    <2> QED
      BY <1>12, <2>1, <2>2
  <1>14. PICK m : m = [pc |-> "guest", rsp |-> <<"sp", b + 7>>, regs |-> regs]
    OBVIOUS
  <1>15. m \in Machine /\ m.pc = "guest" /\ m.rsp = <<"sp", b + 7>> /\ m.regs = regs
    <2>1. b + 7 \in Nat
      OBVIOUS
    <2>2. <<"sp", b + 7>> \in Words /\ "guest" \in PCs
      BY <2>1, PointersAre, PlacesAre
    <2> QED
      BY <1>13, <1>14, <2>2 DEF Machine
  <1>16. cpu' = [cpu EXCEPT ![h] = m]
    <2>1. cpu[h].rsp[2] + Len(saved) = b + 7
      BY <1>5, <1>7
    <2> QED
      BY <1>6, <1>12, <1>14, <2>1 DEF EntrypointBegins
  <1>17. cpu'[h] = m /\ UNCHANGED <<ctx, call, status, called, runs, swaps>>
    BY <1>16 DEF IndInv, TypeOK, EntrypointBegins
  <1>18. InGuest(cpu[h])'
    <2>1. Base' = b
      BY <1>4, <1>17, CallStays
    <2>2. Len(stack') >= b + 7
      BY <1>11
    <2> QED
      BY <1>11, <1>13, <1>15, <1>17, <2>1, <2>2 DEF InGuest, Framed
  <1>19. OnItsWay(cpu[h])'
    BY <1>15, <1>17, <1>18 DEF OnItsWay
  <1> QED
    BY <1>1, <1>11, <1>15, <1>16, <1>17, <1>19, GuestSteps

\* The function gives back what it saved and returns to the backstop.
LEMMA ReturnsStep ==
    ASSUME IndInv, NEW h \in Hosts, EntrypointReturns(h)
    PROVE  IndInv'
  <1>1. cpu[h].pc = "guest" /\ InGuest(cpu[h]) /\ cpu[h] \in Machine
    BY OneAway DEF EntrypointReturns, OnItsWay
  <1>2. call \in Calls /\ stack \in Seq(Words) /\ Len(stack) \in Nat /\ runs \in Nat
    BY DEF IndInv, TypeOK
  <1>3. PICK b \in Nat : b = Base
    BY <1>2, InitialStackIs
  <1>4. /\ cpu[h].rsp = <<"sp", b + 7>> /\ Len(stack) >= b + 7
        /\ stack[b + 1] = Word("backstop") /\ stack[b + 3] = <<"ctx", Guest>>
    BY <1>1, <1>3 DEF InGuest, Framed
  <1>5. PICK top : top = cpu[h].rsp[2] - Len(CalleeSaved)
    OBVIOUS
  <1>6. top = b + 1
    <2>1. Len(CalleeSaved) = 6
      BY RegistersAre
    <2> QED
      BY <1>4, <1>5, <2>1
  <1>7. PICK regs : regs = [r \in Registers |->
            CASE r = "rax" -> <<"result", runs>>
              [] r = "xmm0" -> <<"result", runs>>
              [] r \in Range(CalleeSaved) ->
                    stack[top + (CHOOSE i \in DOMAIN CalleeSaved : CalleeSaved[i] = r)]
              [] OTHER -> Junk]
    OBVIOUS
  <1>8. /\ regs \in [Registers -> Words] /\ regs["rbp"] = <<"ctx", Guest>>
        /\ regs["rax"] = <<"result", runs>> /\ regs["xmm0"] = <<"result", runs>>
    <2>1. PICK at : at = [r \in Preserved |->
              stack[top + (CHOOSE i \in DOMAIN CalleeSaved : CalleeSaved[i] = r)]]
      OBVIOUS
    <2>2. at \in [Preserved -> Words] /\ at["rbp"] = <<"ctx", Guest>>
      <3>1. \A k \in 1 .. 6 : top + k \in 1 .. Len(stack)
        BY <1>2, <1>4, <1>6, SMTT(30)
      <3>2. \A k \in 1 .. 6 : stack[top + k] \in Words
        BY <1>2, <3>1
      <3>3. "rbp" \in Preserved
        BY RegistersAre
      <3>4. top + 2 = b + 3
        BY <1>6
      <3> QED
        BY <1>4, <2>1, <3>2, <3>3, <3>4, PreservedIndex
    <2>3. regs = [r \in Registers |->
              IF r \in {"rax", "xmm0"} THEN <<"result", runs>>
              ELSE IF r \in Preserved THEN at[r] ELSE Junk]
      <3>1. "rax" \notin Preserved /\ "xmm0" \notin Preserved
        BY RegistersAre
      <3>2. \A r \in Registers : regs[r] =
              CASE r = "rax" -> <<"result", runs>>
                [] r = "xmm0" -> <<"result", runs>>
                [] r \in Preserved -> at[r]
                [] OTHER -> Junk
        BY <1>7, <2>1 DEF Preserved
      <3>3. ASSUME NEW r \in Registers
            PROVE  regs[r] = IF r \in {"rax", "xmm0"} THEN <<"result", runs>>
                             ELSE IF r \in Preserved THEN at[r] ELSE Junk
        BY <3>1, <3>2
      <3> QED
        BY <1>7, <3>3
    <2>4. <<"result", runs>> \in Words /\ Junk \in Words
      BY <1>2, WordsAre
    <2>5. {"rax", "xmm0", "rbp"} \subseteq Registers /\ "rbp" \in Preserved
      BY RegistersAre
    <2> QED
      BY <2>2, <2>3, <2>4, <2>5
  <1>9. PICK n : n = [cpu[h] EXCEPT !.regs = regs, !.rsp = <<"sp", b + 1>>]
    OBVIOUS
  <1>10. n \in Machine /\ n.regs = regs /\ n.rsp = <<"sp", b + 1>>
    <2>1. b + 1 \in Nat
      OBVIOUS
    <2>2. <<"sp", b + 1>> \in Words
      BY <2>1, PointersAre
    <2> QED
      BY <1>1, <1>8, <1>9, <2>2 DEF Machine
  <1>11. PICK m : m = [pc |-> "backstop", regs |-> regs, rsp |-> <<"sp", b>>]
    OBVIOUS
  <1>12. m \in Machine /\ m.pc = "backstop" /\ m.regs = regs /\ m.rsp = <<"sp", b>>
    <2>1. <<"sp", b>> \in Words /\ "backstop" \in PCs
      BY PointersAre, PlacesAre
    <2> QED
      BY <1>8, <1>11, <2>1 DEF Machine
  <1>13. cpu' = [cpu EXCEPT ![h] = m]
    <2>1. cpu' = [cpu EXCEPT ![h] =
              Return([cpu[h] EXCEPT !.regs = regs, !.rsp = <<"sp", top>>], stack)]
      BY <1>5, <1>7 DEF EntrypointReturns
    <2>2. cpu' = [cpu EXCEPT ![h] = Return(n, stack)]
      BY <1>6, <1>9, <2>1
    <2>3. "backstop" \in PCs
      BY PlacesAre
    <2>4. Return(n, stack) = m
      BY <1>4, <1>10, <1>11, <2>3, ReturnIs
    <2> QED
      BY <2>2, <2>4
  <1>14. cpu'[h] = m /\ UNCHANGED <<ctx, call, status, called, runs, swaps>>
    BY <1>13 DEF IndInv, TypeOK, EntrypointReturns
  <1>15. stack' \in Seq(Words)
    <2>1. stack' = [i \in 1 .. top |-> IF i < top THEN Junk ELSE stack[i]]
      BY <1>5 DEF EntrypointReturns
    <2>2. \A i \in 1 .. b + 1 : stack[i] \in Words
      BY <1>2, <1>4
    <2>3. Junk \in Words
      BY WordsAre
    <2>4. stack' \in [1 .. b + 1 -> Words] /\ b + 1 \in Nat
      BY <1>6, <2>1, <2>2, <2>3
    <2> QED
      BY <2>4
  <1>16. AtBackstop(cpu[h])'
    <2>1. Base' = b
      BY <1>3, <1>14, CallStays
    <2> QED
      BY <1>8, <1>12, <1>14, <2>1 DEF AtBackstop
  <1>17. OnItsWay(cpu[h])'
    BY <1>12, <1>14, <1>16 DEF OnItsWay
  <1> QED
    BY <1>1, <1>12, <1>13, <1>14, <1>15, <1>17, GuestSteps

\* A context that a processor is saved in.
LEMMA SaveIs ==
    ASSUME NEW m \in Machine, NEW c \in Context, NEW d, d = Save(m, c)
    PROVE  /\ d \in Context /\ d.rsp = m.rsp /\ \A r \in Kept : d.regs[r] = m.regs[r]
           /\ d.gp = c.gp /\ d.fp = c.fp
  <1> DEFINE regs == [r \in Kept |-> m.regs[r]]
  <1>1. d = [c EXCEPT !.regs = regs, !.rsp = m.rsp]
    BY DEF Save
  <1>2. regs \in [Kept -> Words] /\ \A r \in Kept : regs[r] = m.regs[r]
    BY RegistersAre DEF Machine
  <1>3. m.rsp \in Words
    BY DEF Machine
  <1> HIDE DEF regs
  <1> QED
    BY <1>1, <1>2, <1>3 DEF Context

\* The guest swaps to its thread's HOST_CTX, and can go on where it was.
LEMMA YieldStep ==
    ASSUME IndInv, NEW h \in Hosts, Yield(h)
    PROVE  IndInv'
  <1>1. cpu[h].pc = "guest" /\ InGuest(cpu[h]) /\ cpu[h] \in Machine
    BY OneAway DEF Yield, OnItsWay
  <1>2. call \in Calls /\ stack \in Seq(Words) /\ Len(stack) \in Nat
        /\ ctx \in [0 .. NHosts -> Context] /\ swaps \in Nat
    BY DEF IndInv, TypeOK
  <1>3. PICK b \in Nat : b = Base
    BY <1>2, InitialStackIs
  <1>4. /\ cpu[h].rsp = <<"sp", b + 7>> /\ Len(stack) >= b + 7
        /\ stack[b + 1] = Word("backstop") /\ stack[b + 3] = <<"ctx", Guest>>
        /\ \A r \in Preserved : cpu[h].regs[r] = Word(r)
    BY <1>1, <1>3 DEF InGuest, Framed
  <1>5. PICK m : m = [cpu[h] EXCEPT !.rsp = <<"sp", b + 8>>]
    OBVIOUS
  <1>6. m \in Machine /\ m.rsp = <<"sp", b + 8>> /\ m.regs = cpu[h].regs
    <2>1. b + 8 \in Nat
      OBVIOUS
    <2>2. <<"sp", b + 8>> \in Words
      BY <2>1, PointersAre
    <2> QED
      BY <1>1, <1>5, <2>2 DEF Machine
  <1>7. PICK low, one : low = SubSeq(stack, 1, b + 7) /\ one = <<Word("guest")>>
    OBVIOUS
  <1>8. low \in Seq(Words) /\ Len(low) = b + 7 /\ \A i \in 1 .. b + 7 : low[i] = stack[i]
    <2>1. b + 7 \in Nat /\ b + 7 <= Len(stack)
      BY <1>2, <1>4
    <2> QED
      BY <1>2, <1>7, <2>1, LowestWords
  <1>9. one \in Seq(Words) /\ Len(one) = 1 /\ one[1] = Word("guest")
    <2>1. Word("guest") \in Words
      BY WordsAre
    <2> QED
      BY <1>7, <2>1
  <1>10. PICK s : s = low \o one
    OBVIOUS
  <1>11. /\ s \in Seq(Words) /\ Len(s) = b + 8 /\ s[b + 8] = Word("guest")
         /\ s[b + 1] = stack[b + 1] /\ s[b + 3] = stack[b + 3]
    <2>1. Joined(s, low, one, b + 7, 1)
      BY <1>8, <1>9, <1>10, ConcatIs
    <2>2. /\ s \in Seq(Words) /\ Len(s) = (b + 7) + 1
          /\ \A i \in 1 .. b + 7 : s[i] = low[i]
          /\ \A i \in 1 .. 1 : s[(b + 7) + i] = one[i]
      BY <2>1 DEF Joined
    <2>3. b + 1 \in 1 .. b + 7 /\ b + 3 \in 1 .. b + 7 /\ (b + 7) + 1 = b + 8
      OBVIOUS
    <2>4. s[(b + 7) + 1] = one[1]
      BY <2>2
    <2> QED
      BY <1>8, <1>9, <2>2, <2>3, <2>4
  <1>12. /\ ctx' = [ctx EXCEPT ![0] = Save(m, @), ![h] = Adopted(ctx[h], 0)]
         /\ cpu' = [cpu EXCEPT ![h] = Return(Load(m, ctx[h]), s)]
         /\ stack' = s
    <2>1. PICK top : top = cpu[h].rsp[2]
      OBVIOUS
    <2>2. top = b + 7 /\ top + 1 = b + 8
      BY <1>4, <2>1
    <2>3. Swap(h, [cpu[h] EXCEPT !.rsp = <<"sp", top + 1>>], 0, h, ctx[h],
               SubSeq(stack, 1, top) \o <<Word("guest")>>)
      BY <2>1 DEF Yield
    <2>4. Swap(h, m, 0, h, ctx[h], s)
      BY <1>5, <1>7, <1>10, <2>2, <2>3
    <2> QED
      BY <2>4, Zenon DEF Swap
  <1>13. status' = "yielded" /\ swaps' \in Nat /\ UNCHANGED <<call, called, runs>>
    BY <1>2 DEF Yield
  <1>14. PICK d, e : d = Save(m, ctx[0]) /\ e = Adopted(ctx[h], 0)
    OBVIOUS
  <1>15. d \in Context /\ d.rsp = <<"sp", b + 8>> /\ \A r \in Preserved : d.regs[r] = Word(r)
    <2>1. ctx[0] \in Context
      BY <1>2
    <2>2. Preserved \subseteq Kept
      BY RegistersAre
    <2>3. /\ d \in Context /\ d.rsp = m.rsp /\ \A r \in Kept : d.regs[r] = m.regs[r]
      BY <1>6, <1>14, <2>1, SaveIs
    <2> QED
      BY <1>4, <1>6, <2>2, <2>3
  <1>16. e \in Context
    <2>1. ctx[h] \in Context /\ 0 \in 0 .. NHosts + 1
      BY <1>2
    <2> QED
      BY <1>14, <2>1 DEF Adopted, Context
  <1>17. ctx' \in [0 .. NHosts -> Context] /\ ctx'[0] = d
    <2>1. ctx' = [ctx EXCEPT ![0] = d, ![h] = e]
      BY <1>12, <1>14
    <2>2. h # 0 /\ h \in 0 .. NHosts /\ 0 \in 0 .. NHosts
      OBVIOUS
    <2> QED
      BY <1>2, <1>15, <1>16, <2>1, <2>2
  <1>18. TypeOK' /\ HostInv' /\ AwayInv' /\ GuestInv' /\ RefusedInv'
    BY <1>1, <1>6, <1>11, <1>12, <1>13, <1>17, GoesHome
  <1>19. YieldInv'
    <2>1. Base' = b
      BY <1>3, <1>13, CallStays
    <2>2. Len(stack') >= b + 7 /\ Len(stack') >= b + 8
      BY <1>11, <1>12
    <2> QED
      BY <1>4, <1>11, <1>12, <1>15, <1>17, <2>1, <2>2 DEF YieldInv, Framed
  <1>20. ResultInv'
    BY <1>13 DEF ResultInv
  <1> QED
    BY <1>18, <1>19, <1>20 DEF IndInv

\* The guest is terminated.
LEMMA TerminateStep ==
    ASSUME IndInv, NEW h \in Hosts, Terminate(h)
    PROVE  IndInv'
  BY SetHostStep DEF Terminate

\* The backstop stores the results in the guest's context and swaps to its parent.
LEMMA BackstopStep ==
    ASSUME IndInv, NEW h \in Hosts, Backstop(h)
    PROVE  IndInv'
  <1>1. /\ cpu[h].pc = "backstop" /\ AtBackstop(cpu[h]) /\ cpu[h] \in Machine
        /\ ctx[0].parent = h /\ status = "running"
    BY OneAway DEF Backstop, OnItsWay
  <1>2. ctx \in [0 .. NHosts -> Context] /\ stack \in Seq(Words) /\ swaps \in Nat
    BY DEF IndInv, TypeOK
  <1>3. PICK after : after = [cpu[h] EXCEPT !.regs = Scratched(@, CallerSaved)]
    OBVIOUS
  <1>4. after \in Machine
    <2>1. PICK regs : regs = Scratched(cpu[h].regs, CallerSaved)
      OBVIOUS
    <2>2. regs \in [Registers -> Words]
      <3>1. Junk \in Words
        BY WordsAre
      <3> QED
        BY <1>1, <2>1, <3>1 DEF Scratched, Machine
    <2>3. after = [cpu[h] EXCEPT !.regs = regs]
      BY <1>3, <2>1
    <2> QED
      BY <1>1, <2>2, <2>3 DEF Machine
  <1>5. /\ ctx' = [ctx EXCEPT ![0] = Save(after, Stored(cpu[h], @))]
        /\ cpu' = [cpu EXCEPT ![h] = Return(Load(after, ctx[h]), stack)]
        /\ UNCHANGED <<stack, call, status, called, runs, swaps>>
    <2>1. PICK c : c = cpu[h].regs["rbp"][2]
      OBVIOUS
    <2>2. c = 0
      BY <1>1, <2>1 DEF AtBackstop
    <2>3. /\ ctx' = [ctx EXCEPT ![c] = Save(after, Stored(cpu[h], @))]
          /\ cpu' = [cpu EXCEPT ![h] = Return(Load(after, ctx[ctx[c].parent]), stack)]
          /\ UNCHANGED <<stack, call, status, called, runs, swaps>>
      BY <1>3, <2>1, Zenon DEF Backstop
    <2> QED
      BY <1>1, <2>2, <2>3
  <1>6. PICK e, d : e = Stored(cpu[h], ctx[0]) /\ d = Save(after, e)
    OBVIOUS
  <1>7. e \in Context /\ e.gp = <<"result", runs>> /\ e.fp = <<"result", runs>>
    <2>1. cpu[h].regs["rax"] = <<"result", runs>> /\ cpu[h].regs["xmm0"] = <<"result", runs>>
      BY <1>1 DEF AtBackstop
    <2>2. runs \in Nat /\ ctx[0] \in Context
      BY <1>2 DEF IndInv, TypeOK
    <2>3. <<"result", runs>> \in Words
      BY <2>2, WordsAre
    <2>4. e = [ctx[0] EXCEPT !.gp = <<"result", runs>>, !.fp = <<"result", runs>>]
      BY <1>6, <2>1 DEF Stored
    <2> QED
      BY <2>2, <2>3, <2>4 DEF Context
  <1>8. d \in Context /\ d.gp = <<"result", runs>> /\ d.fp = <<"result", runs>>
    BY <1>4, <1>6, <1>7, SaveIs
  <1>9. ctx' \in [0 .. NHosts -> Context] /\ ctx'[0] = d
    <2>1. ctx' = [ctx EXCEPT ![0] = d] /\ 0 \in 0 .. NHosts
      BY <1>5, <1>6
    <2> QED
      BY <1>2, <1>8, <2>1
  <1>10. TypeOK' /\ HostInv' /\ AwayInv' /\ GuestInv' /\ RefusedInv'
    BY <1>1, <1>2, <1>4, <1>5, <1>9, GoesHome
  <1>11. YieldInv' /\ ResultInv'
    BY <1>1, <1>5, <1>8, <1>9 DEF YieldInv, ResultInv
  <1> QED
    BY <1>10, <1>11 DEF IndInv

\* The host takes note that the function has returned.
LEMMA CollectStep ==
    ASSUME IndInv, NEW h \in Hosts, Collect(h)
    PROVE  IndInv'
  <1>1. /\ UNCHANGED <<cpu, ctx, stack, call, called, runs, swaps>> /\ status' = "ready"
        /\ \A g \in Hosts : cpu[g].pc = "host"
    BY DEF Collect, AtHost
  <1>2. TypeOK' /\ HostInv'
    BY <1>1 DEF IndInv, TypeOK, HostInv
  <1>3. AwayInv' /\ GuestInv'
    BY <1>1 DEF AwayInv, GuestInv, OnItsWay
  <1>4. YieldInv' /\ ResultInv' /\ RefusedInv'
    BY <1>1 DEF YieldInv, ResultInv, RefusedInv
  <1> QED
    BY <1>2, <1>3, <1>4 DEF IndInv

\* A thread resumes the guest, which goes on where it was.
LEMMA ResumeStep ==
    ASSUME IndInv, NEW h \in Hosts, Resume(h)
    PROVE  IndInv'
  <1>1. /\ AtHost /\ status = "yielded" /\ status' = "running"
        /\ EnterFrom(h, ctx[0], stack) /\ UNCHANGED <<call, runs, swaps>>
    BY DEF Resume
  <1>2. /\ call \in Calls /\ ctx[0] \in Context /\ stack \in Seq(Words) /\ runs' \in Nat
    BY <1>1 DEF IndInv, TypeOK
  <1>3. PICK b \in Nat : b = Base
    BY <1>2, InitialStackIs
  <1>4. /\ ctx[0].rsp = <<"sp", b + 8>> /\ Framed /\ stack[b + 8] = Word("guest")
        /\ \A r \in Preserved : ctx[0].regs[r] = Word(r)
    BY <1>1, <1>3 DEF IndInv, YieldInv
  <1>5. b + 7 \in Nat /\ (b + 7) + 1 = b + 8
    OBVIOUS
  <1>6. "guest" \in PCs \ {"host"}
    BY PlacesAre
  <1>7. ~Refuses(call)
    BY <1>1 DEF IndInv, RefusedInv
  <1>8. ASSUME cpu'[h].pc = "guest", cpu'[h].rsp = <<"sp", b + 7>>,
               \A r \in Kept : cpu'[h].regs[r] = ctx[0].regs[r]
        PROVE  OnItsWay(cpu[h])'
    <2>1. Base' = Base /\ stack' = stack
      BY <1>1, CallStays DEF EnterFrom, Swap
    <2>2. Framed'
      BY <1>4, <2>1 DEF Framed
    <2>3. Preserved \subseteq Kept
      BY RegistersAre
    <2>4. \A r \in Preserved : cpu'[h].regs[r] = Word(r)
      BY <1>4, <1>8, <2>3
    <2>5. InGuest(cpu[h])'
      BY <1>3, <1>8, <2>1, <2>2, <2>4 DEF InGuest
    <2> QED
      BY <1>8, <2>5 DEF OnItsWay
  <1> QED
    BY <1>1, <1>2, <1>4, <1>5, <1>6, <1>7, <1>8, GoesAway

\* The context that init lays out.
Fresh(c, p, n) ==
    /\ c \in Context /\ c.rsp = <<"sp", n>> /\ c.regs["rbp"] = <<"ctx", Guest>>
    /\ \A i \in 1 .. Len(p["fp"]) : c.regs[ArgRegs["fp"][i]] = p["fp"][i]
    /\ ~call.bare => c.data = Word("instance")

\* init lays it out, whatever was in the context before.
LEMMA InitialCtxIs ==
    ASSUME call \in Calls, NEW c \in Context, NEW d, d = InitialCtx(c, Args)
    PROVE  Fresh(d, Placed(Args), Len(InitialStack(Args)))
  <1>1. PICK fp, n : fp = Placed(Args).fp /\ n = Len(InitialStack(Args))
    OBVIOUS
  <1>2. PICK k \in 0 .. 8 : k = Len(fp)
    BY <1>1, RegsSuffice
  <1>3. fp \in Seq(Words) /\ DOMAIN fp = 1 .. k /\ \A i \in 1 .. k : fp[i] \in Words
    BY <1>1, <1>2, RegsSuffice
  <1>4. n \in Nat
    <2>1. Base \in Nat /\ n = Base + 9
      BY <1>1, InitialStackIs
    <2> QED
      BY <2>1
  <1>5. <<"sp", n>> \in Words /\ <<"ctx", Guest>> \in Words
    BY <1>4, WordsAre
  <1>6. Word("exit_guest_region") \in Words /\ Word("instance") \in Words
    BY WordsAre
  <1>7. PICK regs : regs = [r \in Kept |->
            IF r = "rbp" THEN <<"ctx", Guest>>
            ELSE IF \E i \in DOMAIN fp : ArgRegs.fp[i] = r
                 THEN fp[CHOOSE i \in DOMAIN fp : ArgRegs.fp[i] = r]
                 ELSE c.regs[r]]
    OBVIOUS
  <1>8. /\ regs \in [Kept -> Words] /\ regs["rbp"] = <<"ctx", Guest>>
        /\ \A i \in 1 .. k : regs[ArgRegs["fp"][i]] = fp[i]
    <2>1. \A i \in 1 .. k : i \in 1 .. 8
      BY <1>2
    <2>2. /\ \A i \in 1 .. 8 : ArgRegs["fp"][i] \in Kept \ Preserved
          /\ "rbp" \in Preserved /\ "rbp" \in Kept
      BY RegistersAre
    <2>3. \A i, j \in 1 .. 8 : ArgRegs["fp"][i] = ArgRegs["fp"][j] => i = j
      BY ArgRegsAre
    <2>4. \A i \in 1 .. k : (CHOOSE j \in DOMAIN fp : ArgRegs["fp"][j] = ArgRegs["fp"][i]) = i
      BY <1>3, <2>1, <2>3
    <2>5. \A i \in 1 .. k : ArgRegs["fp"][i] \in Kept /\ ArgRegs["fp"][i] # "rbp"
      BY <2>1, <2>2
    <2>6. \A i \in 1 .. k : regs[ArgRegs["fp"][i]] = fp[i]
      <3>1. SUFFICES ASSUME NEW i \in 1 .. k PROVE regs[ArgRegs["fp"][i]] = fp[i]
        OBVIOUS
      <3>2. i \in DOMAIN fp
        BY <1>3
      <3> QED
        BY <1>7, <2>4, <2>5, <3>2
    <2>7. regs["rbp"] = <<"ctx", Guest>>
      BY <1>7, <2>2
    <2>8. c.regs \in [Kept -> Words]
      BY DEF Context
    <2>9. \A r : (\E i \in DOMAIN fp : ArgRegs.fp[i] = r) =>
                    fp[CHOOSE i \in DOMAIN fp : ArgRegs.fp[i] = r] \in Words
      BY <1>3
    <2>10. regs \in [Kept -> Words]
      BY <1>5, <1>7, <2>8, <2>9
    <2> QED
      BY <2>6, <2>7, <2>10
  <1>9. PICK callback \in Words, data \in Words :
          /\ callback = IF call.bare THEN c.callback ELSE Word("exit_guest_region")
          /\ data = IF call.bare THEN c.data ELSE Word("instance")
    <2>1. c.callback \in Words /\ c.data \in Words
      BY DEF Context
    <2> QED
      BY <1>6, <2>1
  <1>10. d = [c EXCEPT !.rsp = <<"sp", n>>, !.regs = regs, !.callback = callback,
                       !.data = data]
    BY <1>1, <1>7, <1>9 DEF InitialCtx
  <1>11. d \in Context /\ d.rsp = <<"sp", n>> /\ d.regs = regs /\ d.data = data
    BY <1>5, <1>8, <1>10 DEF Context
  <1>12. ~call.bare => d.data = Word("instance")
    BY <1>9, <1>11
  <1> QED
    BY <1>1, <1>2, <1>8, <1>11, <1>12 DEF Fresh

\* The activator takes the bootstrap's place on the stack, and rbx has the bootstrap: d and
\* t are what install_activator makes of c and of s, which has n words below its top.
WithActivator(d, t, c, s, n) ==
    /\ d \in Context /\ d.rsp = c.rsp
    /\ d.regs["rbx"] = Word("bootstrap") /\ d.regs["rdi"] = c.data
    /\ d.regs["rsi"] = Word("enter_guest_region")
    /\ \A r \in Kept \ {"rbx", "rsi", "rdi"} : d.regs[r] = c.regs[r]
    /\ t \in Seq(Words) /\ Len(t) = n + 1 /\ t[n + 1] = Word("activate")
    /\ \A i \in 1 .. n : t[i] = s[i]

\* install_activator does so when the bootstrap is on top.
LEMMA ActivatedIs ==
    ASSUME NEW c \in Context, NEW s \in Seq(Words), NEW n \in Nat, Len(s) = n + 1,
           s[n + 1] = Word("bootstrap"), NEW d, d = Activated(c, s), NEW t, t = ActivatorOn(s)
    PROVE  WithActivator(d, t, c, s, n)
  <1>1. /\ Word("bootstrap") \in Words /\ Word("enter_guest_region") \in Words
        /\ Word("activate") \in Words
    BY WordsAre
  <1>2. {"rbx", "rsi", "rdi"} \subseteq Kept
    BY RegistersAre
  <1>3. Last(s) = Word("bootstrap")
    BY DEF Last
  <1>4. c.data \in Words /\ c.regs \in [Kept -> Words]
    BY DEF Context
  <1>5. PICK regs : regs = [c.regs EXCEPT !["rbx"] = Word("bootstrap"),
                                          !["rsi"] = Word("enter_guest_region"),
                                          !["rdi"] = c.data]
    OBVIOUS
  <1>6. /\ regs \in [Kept -> Words]
        /\ regs["rbx"] = Word("bootstrap") /\ regs["rdi"] = c.data
        /\ regs["rsi"] = Word("enter_guest_region")
        /\ \A r \in Kept \ {"rbx", "rsi", "rdi"} : regs[r] = c.regs[r]
    BY <1>1, <1>2, <1>4, <1>5
  <1>7. d = [c EXCEPT !.regs = regs]
    BY <1>3, <1>5 DEF Activated, Context
  <1>8. d \in Context /\ d.rsp = c.rsp /\ d.regs = regs
    BY <1>6, <1>7 DEF Context
  <1>9. t = [s EXCEPT ![n + 1] = Word("activate")]
    BY DEF ActivatorOn
  <1>10. /\ t \in Seq(Words) /\ Len(t) = n + 1 /\ t[n + 1] = Word("activate")
         /\ \A i \in 1 .. n : t[i] = s[i]
    BY <1>1, <1>9
  <1> QED
    BY <1>6, <1>8, <1>10 DEF WithActivator

\* A call that is refused changes nothing but what the Instance knows.
LEMMA RefusalStep ==
    ASSUME IndInv, AtHost, status' = "refused", Refuses(call), runs' = runs + 1,
           UNCHANGED <<cpu, ctx, stack, call, called, swaps>>
    PROVE  IndInv'
  <1>1. TypeOK' /\ HostInv'
    BY DEF IndInv, TypeOK, HostInv
  <1>2. AwayInv' /\ GuestInv'
    BY DEF AwayInv, GuestInv, OnItsWay, AtHost
  <1>3. YieldInv' /\ ResultInv' /\ RefusedInv'
    BY DEF YieldInv, ResultInv, RefusedInv, Refuses, Typechecks
  <1> QED
    BY <1>1, <1>2, <1>3 DEF IndInv

\* The host makes the call: init lays out the stack and the context, and swap enters it.
LEMMA RunStep ==
    ASSUME IndInv, NEW h \in Hosts, Run(h)
    PROVE  IndInv'
  <1>1. AtHost /\ runs' = runs + 1 /\ UNCHANGED <<call, swaps>>
    BY DEF Run
  <1>2. /\ call \in Calls /\ ctx[0] \in Context /\ runs' \in Nat /\ call.bare \in BOOLEAN
    BY <1>1 DEF IndInv, TypeOK
  <1>3. CASE /\ ~call.bare /\ ~Typechecks(call) /\ status' = "refused"
             /\ UNCHANGED <<cpu, ctx, stack, called>>
    BY <1>1, <1>3, RefusalStep DEF Refuses
  <1>4. CASE /\ call.bare /\ ~call.aligned /\ status' = "refused"
             /\ UNCHANGED <<cpu, ctx, stack, called>>
    BY <1>1, <1>4, RefusalStep DEF Refuses
  <1> DEFINE s == InitialStack(Args)
             c == InitialCtx(IF call.bare THEN NewContext ELSE ctx[0], Args)
  <1>5. CASE /\ call.aligned /\ (call.bare \/ Typechecks(call)) /\ status' = "running"
             /\ IF call.bare THEN EnterFrom(h, c, s)
                ELSE EnterFrom(h, Activated(c, s), ActivatorOn(s))
    <2>1. ~Refuses(call)
      BY <1>5 DEF Refuses
    <2>2. PICK b \in Nat : b = Base
      BY <1>2, InitialStackIs
    <2>3. /\ s \in Seq(Words) /\ Len(s) = b + 9 /\ s[b + 9] = Word("bootstrap")
      BY <1>2, <2>2, InitialStackIs
    <2>4. b + 8 \in Nat /\ (b + 8) + 1 = b + 9
      OBVIOUS
    <2>5. /\ c \in Context /\ c.rsp = <<"sp", b + 9>> /\ c.regs["rbp"] = <<"ctx", Guest>>
          /\ \A i \in 1 .. Len(Placed(Args)["fp"]) :
                c.regs[ArgRegs["fp"][i]] = Placed(Args)["fp"][i]
          /\ ~call.bare => c.data = Word("instance")
      <3>1. PICK c0 : c0 = IF call.bare THEN NewContext ELSE ctx[0]
        OBVIOUS
      <3>2. c0 \in Context
        BY <1>2, <3>1, NewContextIs
      <3>3. Fresh(c, Placed(Args), b + 9)
        BY <1>2, <2>3, <3>1, <3>2, InitialCtxIs
      <3> QED
        BY <3>3 DEF Fresh
    <2>6. PICK k \in 0 .. 8 : k = Len(Placed(Args)["fp"])
      BY <1>2, RegsSuffice
    <2>7. \A i \in 1 .. k : ArgRegs["fp"][i] \in Kept \ {"rbx", "rsi", "rdi"}
      <3>1. \A n \in 0 .. 8 : \A i \in 1 .. n : i \in 1 .. 8
        OBVIOUS
      <3>2. \A i \in 1 .. 8 : ArgRegs["fp"][i] \in Kept \ {"rbx", "rsi", "rdi"}
        BY RegistersAre
      <3> QED
        BY <3>1, <3>2
    <2>8. "rbp" \in Kept \ {"rbx", "rsi", "rdi"} /\ {"rbx", "rsi", "rdi"} \subseteq Kept
      BY RegistersAre
    <2>9. Base' = b /\ InitialStack(Args)' = s /\ \A r, x : InRegs(r, x)' <=> InRegs(r, x)
      BY <1>1, <2>2, CallStays
    <2> HIDE DEF s, c
    <2>10. CASE call.bare
      <3>1. EnterFrom(h, c, s) /\ stack' = s
        BY <1>5, <2>10 DEF EnterFrom, Swap
      <3>2. "bootstrap" \in PCs \ {"host"}
        BY PlacesAre
      <3>3. ASSUME cpu'[h].pc = "bootstrap", cpu'[h].rsp = <<"sp", b + 8>>,
                   \A r \in Kept : cpu'[h].regs[r] = c.regs[r]
            PROVE  OnItsWay(cpu[h])'
        <4>1. Laid(b + 8)'
          <5>1. Len(stack') >= b + 8
            BY <2>3, <3>1
          <5> QED
            BY <2>9, <3>1, <5>1 DEF Laid
        <4>2. \A i \in 1 .. Len(Placed(Args)["fp"]) :
                 cpu'[h].regs[ArgRegs["fp"][i]] = Placed(Args)["fp"][i]
          BY <2>5, <2>6, <2>7, <3>3
        <4>3. InRegs(cpu'[h].regs, "fp")
          BY <4>2 DEF InRegs
        <4>4. cpu'[h].regs["rbp"] = <<"ctx", Guest>>
          BY <2>5, <2>8, <3>3
        <4>5. AtBootstrap(cpu[h])'
          BY <2>9, <3>3, <4>1, <4>3, <4>4 DEF AtBootstrap
        <4> QED
          BY <3>3, <4>5 DEF OnItsWay
      <3> QED
        BY <1>1, <1>2, <1>5, <2>1, <2>3, <2>4, <2>5, <3>1, <3>2, <3>3, GoesAway, ZenonT(60)
    <2>11. CASE ~call.bare
      <3>1. PICK d, t : d = Activated(c, s) /\ t = ActivatorOn(s)
        OBVIOUS
      <3>2. EnterFrom(h, d, t) /\ stack' = t
        BY <1>5, <2>11, <3>1 DEF EnterFrom, Swap
      <3>3. /\ d \in Context /\ d.rsp = c.rsp
            /\ d.regs["rbx"] = Word("bootstrap") /\ d.regs["rdi"] = c.data
            /\ d.regs["rsi"] = Word("enter_guest_region")
            /\ \A r \in Kept \ {"rbx", "rsi", "rdi"} : d.regs[r] = c.regs[r]
            /\ t \in Seq(Words) /\ Len(t) = b + 9 /\ t[b + 9] = Word("activate")
            /\ \A i \in 1 .. b + 8 : t[i] = s[i]
        <4>1. PICK n \in Nat : n = b + 8 /\ n + 1 = b + 9
          BY <2>4
        <4>2. s \in Seq(Words) /\ Len(s) = n + 1 /\ s[n + 1] = Word("bootstrap")
          BY <2>3, <4>1
        <4>3. c \in Context
          BY <2>5
        <4>4. WithActivator(d, t, c, s, n)
          BY <3>1, <4>2, <4>3, ActivatedIs
        <4> QED
          BY <4>1, <4>4 DEF WithActivator
      <3>4. "activate" \in PCs \ {"host"}
        BY PlacesAre
      <3>5. ASSUME cpu'[h].pc = "activate", cpu'[h].rsp = <<"sp", b + 8>>,
                   \A r \in Kept : cpu'[h].regs[r] = d.regs[r]
            PROVE  OnItsWay(cpu[h])'
        <4>1. Laid(b + 8)'
          <5>1. Len(stack') >= b + 8
            BY <3>2, <3>3
          <5> QED
            BY <2>9, <3>2, <3>3, <5>1 DEF Laid
        <4>2. \A i \in 1 .. Len(Placed(Args)["fp"]) :
                 cpu'[h].regs[ArgRegs["fp"][i]] = Placed(Args)["fp"][i]
          BY <2>5, <2>6, <2>7, <3>3, <3>5
        <4>3. InRegs(cpu'[h].regs, "fp")
          BY <4>2 DEF InRegs
        <4>4. cpu'[h].regs["rbp"] = <<"ctx", Guest>>
          BY <2>5, <2>8, <3>3, <3>5
        <4>5. /\ cpu'[h].regs["rbx"] = Word("bootstrap")
              /\ cpu'[h].regs["rsi"] = Word("enter_guest_region")
              /\ cpu'[h].regs["rdi"] = Word("instance")
          BY <2>5, <2>8, <2>11, <3>3, <3>5
        <4>6. AtActivate(cpu[h])'
          BY <2>9, <3>5, <4>1, <4>3, <4>4, <4>5 DEF AtActivate
        <4> QED
          BY <3>5, <4>6 DEF OnItsWay
      <3> QED
        <4>1. d.rsp = <<"sp", (b + 8) + 1>> /\ t[(b + 8) + 1] = Word("activate")
          BY <2>4, <2>5, <3>3
        <4>2. d \in Context /\ t \in Seq(Words)
          BY <3>3
        <4>3. status' = "running"
          BY <1>5
        <4> QED
          BY <1>1, <1>2, <2>1, <2>4, <3>2, <3>4, <3>5, <4>1, <4>2, <4>3, GoesAway
    <2> QED
      BY <1>2, <2>10, <2>11
  <1> QED
    BY <1>3, <1>4, <1>5, Zenon DEF Run, Args

-----------------------------------------------------------------------------
(* The theorems.                                                           *)

\* Every step keeps the invariant.
LEMMA InvStep ==
    ASSUME IndInv, [Next]_vars
    PROVE  IndInv'
  <1>1. CASE Next
    <2>1. PICK h \in Hosts :
            \/ Run(h) \/ Resume(h) \/ Activate(h) \/ Bootstrap(h) \/ EntrypointBegins(h)
            \/ Yield(h) \/ Terminate(h) \/ EntrypointReturns(h) \/ Backstop(h) \/ Collect(h)
      BY <1>1, Zenon DEF Next
    <2>2. CASE Run(h) \/ Resume(h) \/ Collect(h)
      BY <2>2, RunStep, ResumeStep, CollectStep
    <2>3. CASE Activate(h) \/ Bootstrap(h) \/ EntrypointBegins(h) \/ EntrypointReturns(h)
      BY <2>3, ActivateStep, BootstrapStep, BeginsStep, ReturnsStep
    <2>4. CASE Yield(h) \/ Terminate(h) \/ Backstop(h)
      BY <2>4, YieldStep, TerminateStep, BackstopStep
    <2> QED
      BY <2>1, <2>2, <2>3, <2>4
  <1>2. CASE UNCHANGED vars
    <2>1. UNCHANGED <<cpu, ctx, stack, call, status, called, runs, swaps>>
      BY <1>2 DEF vars
    <2>2. TypeOK' /\ HostInv' /\ AwayInv' /\ ResultInv' /\ RefusedInv'
      BY <2>1 DEF IndInv, TypeOK, HostInv, AwayInv, ResultInv, AtHost, RefusedInv, Refuses,
                  Typechecks
    <2>3. Base' = Base /\ InitialStack(Args)' = InitialStack(Args)
          /\ \A r, x : InRegs(r, x)' <=> InRegs(r, x)
      BY <2>1, CallStays
    <2>4. YieldInv'
      BY <2>1, <2>3 DEF IndInv, YieldInv, Framed
    <2>5. \A n : Laid(n)' <=> Laid(n)
      BY <2>1, <2>3 DEF Laid
    <2>6. GuestInv'
      BY <2>1, <2>3, <2>5
         DEF IndInv, GuestInv, OnItsWay, AtActivate, AtBootstrap, AtEntry, InGuest, AtBackstop,
             Framed, FpIntact
    <2> QED
      BY <2>2, <2>4, <2>6 DEF IndInv
  <1> QED
    BY <1>1, <1>2

\* The inductive invariant holds in every state: what the registers, the contexts and the
\* stack hold at each place between the swap into a guest and the swap out of it.
THEOREM InvAlways == Spec => []IndInv
  BY InvInit, InvStep, PTL DEF Spec

\* Whatever the calls and the threads, a `ret` of the assembly leads to one of its six
\* places; a host thread goes on with its own registers and stack pointer, and the guest
\* with its own, on whichever thread it is resumed.
THEOREM SwitchesAlwaysRestore == Spec => []SwitchesRestore
  <1>1. ASSUME IndInv PROVE SwitchesRestore
    <2>1. SUFFICES ASSUME NEW h \in Hosts
                   PROVE  LET m == cpu[h] IN
                          /\ m.pc \in PCs
                          /\ m.pc = "host" =>
                                m.rsp = called[h] /\ \A r \in Preserved : m.regs[r] = <<r, h>>
                          /\ m.pc = "guest" => \A r \in Preserved : m.regs[r] = Word(r)
                          /\ m.pc = "backstop" => m.regs["rbp"] = <<"ctx", Guest>>
      BY PlacesAre DEF SwitchesRestore, Preserved
    <2>2. cpu[h].pc \in PCs
      BY <1>1 DEF IndInv, TypeOK, Machine
    <2>3. cpu[h].pc = "host" =>
              cpu[h].rsp = called[h] /\ \A r \in Preserved : cpu[h].regs[r] = <<r, h>>
      BY <1>1 DEF IndInv, HostInv
    <2>4. OnItsWay(cpu[h])
      BY <1>1 DEF IndInv, GuestInv
    <2> QED
      BY <2>2, <2>3, <2>4 DEF OnItsWay, InGuest, AtBackstop
  <1> QED
    BY <1>1, InvAlways, PTL

\* When the calls that are expected to be refused are the bare ones on a stack that is not
\* aligned and the others with arguments that do not have the parameters' types, run
\* returns what this call of the function returned, and refuses those calls and no others.
THEOREM ResultIsAlwaysFresh ==
    ASSUME \A c \in Calls : c.refused <=> Refuses(c)
    PROVE  Spec => []ResultIsFresh
  <1>1. ASSUME IndInv PROVE ResultIsFresh
    <2>1. AtHost /\ status = "running" =>
              ctx[Guest].gp = <<"result", runs>> /\ ctx[Guest].fp = <<"result", runs>>
      BY <1>1 DEF IndInv, ResultInv
    <2>2. /\ call \in Calls /\ call.refused \in BOOLEAN
          /\ status \in {"ready", "running", "yielded", "terminated", "refused"}
      BY <1>1 DEF IndInv, TypeOK
    <2>3. status # "ready" => ((status = "refused") <=> Refuses(call))
      BY <1>1, <2>2 DEF IndInv, RefusedInv
    <2>4. status # "ready" => (status = "refused") = call.refused
      BY <2>2, <2>3
    <2> QED
      BY <2>1, <2>4 DEF ResultIsFresh
  <1> QED
    BY <1>1, InvAlways, PTL

\* An argument is found where the calling convention passes it, by a function that is
\* entered with the stack and the registers of the invariant.
LEMMA ArgumentFound ==
    ASSUME call \in Calls, NEW m \in Machine, m.rsp = <<"sp", Base + 1>>, Laid(Base + 1),
           InRegs(m.regs, "gp"), InRegs(m.regs, "fp"), NEW i \in 1 .. Len(Args)
    PROVE  Found(m, i) = <<"arg", i>>
  <1>1. PICK p, s, kind : p = Placed(Args) /\ s = InitialStack(Args) /\ kind = RegVal(Args[i])
    OBVIOUS
  <1>2. Len(Args) \in Nat /\ i \in Nat /\ i # 0
    BY ArgsTyped
  <1>3. InPlace(p, i)
    BY <1>1, PlacedConforms DEF Conforms
  <1>4. kind \in {"gp", "fp"}
    BY <1>1, RegValIs
  <1>5. CASE InRegister(i)
    <2>1. PICK k : k = Before(i, kind) + 1
      OBVIOUS
    <2>2. k \in 1 .. Len(p[kind]) /\ p[kind][k] = <<"arg", i>>
      BY <1>1, <1>3, <1>5, <2>1 DEF InPlace
    <2>3. InRegs(m.regs, kind)
      BY <1>4
    <2>4. m.regs[ArgRegs[kind][k]] = p[kind][k]
      BY <1>1, <2>2, <2>3 DEF InRegs
    <2>5. Found(m, i) = m.regs[ArgRegs[kind][k]]
      BY <1>1, <1>5, <2>1 DEF Found
    <2> QED
      BY <2>2, <2>4, <2>5
  <1>6. CASE ~InRegister(i)
    <2>1. PICK b \in Nat : b = Base
      BY InitialStackIs
    <2>2. PICK k \in Nat : k = InMemoryBefore(i)
      BY <1>2, InMemoryBeforeNext
    <2>3. k + 1 \in 1 .. Len(p.spilled) /\ p.spilled[k + 1] = <<"arg", i>>
      BY <1>1, <1>3, <1>6, <2>2 DEF InPlace
    <2>4. /\ Len(p.spilled) \in Nat /\ Len(p.spilled) <= b
          /\ \A x \in 0 .. Len(p.spilled) - 1 : s[b - x] = p.spilled[x + 1]
      <3>1. p \in Placement
        BY <1>1, PlacedConforms
      <3>2. Len(p.spilled) \in Nat
        BY <3>1 DEF Placement
      <3>3. Spilled(s, p.spilled, b)
        BY <1>1, <2>1, InitialStackIs
      <3> QED
        BY <3>2, <3>3 DEF Spilled
    <2>5. PICK n \in Nat : n = Len(p.spilled)
      BY <2>4
    <2>6. k \in 0 .. n - 1 /\ n <= b
      BY <2>3, <2>4, <2>5
    <2>7. b - k \in 1 .. b + 1 /\ (b + 1) - 1 - k = b - k
      BY <2>6
    <2>8. s[b - k] = p.spilled[k + 1]
      BY <2>4, <2>5, <2>6
    <2>9. stack[b - k] = s[b - k]
      BY <1>1, <2>1, <2>7 DEF Laid
    <2>10. Found(m, i) = stack[m.rsp[2] - 1 - InMemoryBefore(i)]
      BY <1>6 DEF Found
    <2>11. m.rsp[2] = b + 1
      BY <2>1
    <2> QED
      BY <2>2, <2>3, <2>7, <2>8, <2>9, <2>10, <2>11
  <1> QED
    BY <1>5, <1>6

\* When enter_guest_region as compiled leaves the floating-point argument registers alone,
\* the function is entered as the System V calling convention has it, whatever the number
\* and the types of the arguments; the callbacks are called with an aligned stack.
THEOREM EntryAlwaysMeetsABI ==
    ASSUME Clobbered \cap Range(ArgRegs.fp) = {}
    PROVE  Spec => []EntryMeetsABI
  <1>1. ASSUME IndInv PROVE EntryMeetsABI
    <2>1. SUFFICES ASSUME NEW h \in Hosts, NEW m, m = cpu[h]
                   PROVE  /\ m.pc = "fptr" =>
                              /\ \A i \in DOMAIN Args : Found(m, i) = <<"arg", i>>
                              /\ m.rsp[2] % 2 = 1
                              /\ At(m.rsp, stack) = Word("backstop")
                          /\ m.pc \in {"activate", "backstop"} => m.rsp[2] % 2 = 0
                          /\ m.pc = "activate" =>
                              /\ m.regs["rsi"] = Word("enter_guest_region")
                              /\ m.regs["rdi"] = Word("instance")
      BY Zenon DEF EntryMeetsABI
    <2>2. call \in Calls /\ m \in Machine /\ OnItsWay(m)
      BY <1>1, <2>1 DEF IndInv, TypeOK, GuestInv
    <2>3. PICK b \in Nat : b = Base /\ b % 2 = 0 /\ InitialStack(Args)[b + 1] = Word("backstop")
      BY <2>2, InitialStackIs
    <2>4. FpIntact
      BY DEF FpIntact
    <2>5. ASSUME m.pc = "fptr"
          PROVE  /\ \A i \in DOMAIN Args : Found(m, i) = <<"arg", i>>
                 /\ m.rsp[2] % 2 = 1
                 /\ At(m.rsp, stack) = Word("backstop")
      <3>1. /\ m.rsp = <<"sp", Base + 1>> /\ Laid(Base + 1)
            /\ InRegs(m.regs, "gp") /\ InRegs(m.regs, "fp")
        BY <2>2, <2>4, <2>5 DEF OnItsWay, AtEntry
      <3>2. DOMAIN Args = 1 .. Len(Args)
        BY <2>2, ArgsTyped
      <3>3. \A i \in DOMAIN Args : Found(m, i) = <<"arg", i>>
        BY <2>2, <3>1, <3>2, ArgumentFound
      <3>4. m.rsp[1] = "sp" /\ m.rsp[2] = b + 1
        BY <2>3, <3>1
      <3>5. (b + 1) % 2 = 1 /\ b + 1 \in 1 .. b + 1
        BY <2>3
      <3>6. stack[b + 1] = Word("backstop")
        BY <2>3, <3>1, <3>5 DEF Laid
      <3> QED
        BY <3>3, <3>4, <3>5, <3>6 DEF At
    <2>6. ASSUME m.pc = "activate"
          PROVE  /\ m.rsp[2] % 2 = 0 /\ m.regs["rsi"] = Word("enter_guest_region")
                 /\ m.regs["rdi"] = Word("instance")
      <3>1. m.rsp = <<"sp", b + 8>> /\ m.regs["rsi"] = Word("enter_guest_region")
            /\ m.regs["rdi"] = Word("instance")
        BY <2>2, <2>3, <2>6 DEF OnItsWay, AtActivate
      <3>2. (b + 8) % 2 = 0
        BY <2>3
      <3> QED
        BY <3>1, <3>2
    <2>7. ASSUME m.pc = "backstop" PROVE m.rsp[2] % 2 = 0
      BY <2>2, <2>3, <2>7 DEF OnItsWay, AtBackstop
    <2> QED
      BY <2>5, <2>6, <2>7
  <1> QED
    BY <1>1, InvAlways, PTL
=============================================================================
