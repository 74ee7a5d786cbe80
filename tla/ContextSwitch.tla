--------------------------- MODULE ContextSwitch ---------------------------
(***************************************************************************)
(* Contexts: how Context::init lays out a guest's registers and stack, and *)
(* what swap, set, bootstrap, activate and backstop do to the machine.     *)
(*                                                                         *)
(* A step is one routine of the assembly, or what a compiled function does *)
(* between two of them under the System V calling convention.  A word is a *)
(* pair <<what, number>>; the guest's stack is the sequence of the words   *)
(* pushed, so that an address is the number of words at or above it and is *)
(* aligned to 16 bytes when that number is even.                           *)
(*                                                                         *)
(* Sources: lucet-runtime-internals/src/context/mod.rs,                    *)
(* context/context_asm.S, val.rs, instance.rs (run_func, install_activator)*)
(***************************************************************************)
EXTENDS Naturals, Sequences, FiniteSets, SequencesExt

CONSTANTS
    NHosts,      \* the number of host threads, each with a HOST_CTX
    Calls,       \* the calls that are made: parameter types, arguments, whether the stack
                 \* is aligned, whether there is an Instance around the context or it is
                 \* used by itself, and whether the call is to be refused
    Clobbered,   \* caller-saved registers that enter_guest_region as compiled overwrites
    MaxRuns,     \* bound: on calls of run
    MaxSwaps     \* bound: on swaps out of the guest

Hosts == 1 .. NHosts
Guest == 0
Nobody == NHosts + 1

\* Where the System V calling convention passes arguments, and what a function keeps.
ArgRegs ==
    [gp |-> <<"rdi", "rsi", "rdx", "rcx", "r8", "r9">>,
     fp |-> <<"xmm0", "xmm1", "xmm2", "xmm3", "xmm4", "xmm5", "xmm6", "xmm7">>]
CalleeSaved == <<"rbx", "rbp", "r12", "r13", "r14", "r15">>
Registers == Range(ArgRegs.gp) \cup Range(ArgRegs.fp) \cup Range(CalleeSaved) \cup {"rax"}
CallerSaved == Registers \ Range(CalleeSaved)

\* GpRegs and FpRegs: the registers in a Context, besides the stack pointer.
Kept == Range(CalleeSaved) \cup {"rdi", "rsi"} \cup Range(ArgRegs.fp)

\* The variants of Val, and the types of wasm.
ValueTypes == {"I32", "I64", "F32", "F64"}
Vals == {"CPtr", "GuestPtr", "U8", "U16", "U32", "U64", "I8", "I16", "I32", "I64", "USize",
         "ISize", "Bool", "F32", "F64"}

ASSUME ContextAssumption ==
    /\ NHosts \in Nat \ {0} /\ MaxRuns \in Nat /\ MaxSwaps \in Nat
    /\ Calls \subseteq [bare : BOOLEAN, params : Seq(ValueTypes), args : Seq(Vals),
                        aligned : BOOLEAN, refused : BOOLEAN]
    /\ Clobbered \subseteq CallerSaved

VARIABLES
    cpu,         \* the program counter, registers and stack pointer of each thread
    ctx,         \* the Contexts: the guest's and each thread's HOST_CTX
    stack,       \* the guest's stack
    call,        \* the call being made
    status,      \* what the Instance knows of it
    called,      \* history: each thread's stack pointer when it called swap
    runs, swaps  \* bounds: how many there have been

vars == <<cpu, ctx, stack, call, status, called, runs, swaps>>

Word(what) == <<what, 0>>
Zero == Word("zero")
Junk == Word("junk")

-----------------------------------------------------------------------------
(* Values.                                                                 *)

\* Val::value_type
ValueType(ctor) ==
    CASE ctor \in {"CPtr", "GuestPtr", "U8", "U16", "U32", "I8", "I16", "I32", "USize", "ISize",
                   "Bool"} -> "I32"
      [] ctor \in {"U64", "I64"} -> "I64"
      [] ctor \in {"F32", "F64"} -> ctor

\* val_to_reg: which kind of register takes a value.
RegVal(ctor) == IF ctor \in {"F32", "F64"} THEN "fp" ELSE "gp"

\* run_func puts the vmctx, the heap's address, before the arguments.
WithVmctx(args) == IF call.bare THEN args ELSE <<"CPtr">> \o args

-----------------------------------------------------------------------------
(* Context::init_with_callback.                                            *)

\* The loop over the arguments: the first six and the first eight are for registers.
Place(args, p, i) ==
    LET kind == RegVal(args[i]) IN
    IF Len(p[kind]) >= Len(ArgRegs[kind]) THEN [p EXCEPT !.spilled = Append(@, <<"arg", i>>)]
    ELSE [p EXCEPT ![kind] = Append(@, <<"arg", i>>)]

Placing(args) ==
    LET after[n \in 0 .. Len(args)] ==
            IF n = 0 THEN [gp |-> <<>>, fp |-> <<>>, spilled |-> <<>>]
            ELSE Place(args, after[n - 1], n)
    IN  after
Placed(args) == Placing(args)[Len(args)]

\* CallStackBuilder::store_args
StoreArgsUnpadded(spilled) == Reverse(spilled)
StoreArgs(spilled) == (IF Len(spilled) % 2 = 1 THEN <<Zero>> ELSE <<>>) \o Reverse(spilled)

GpValues(gp) == [i \in 1 .. 6 |-> IF i <= Len(gp) THEN gp[i] ELSE Zero]

InitialStack(args) ==
    LET p == Placed(args) IN
    StoreArgs(p.spilled) \o <<Word("backstop"), Word("fptr")>> \o GpValues(p.gp)
        \o <<Word("bootstrap")>>

\* The registers and the callback; the return values and the parent stay as they are.
InitialCtx(c, args) ==
    LET fp == Placed(args).fp IN
    [c EXCEPT !.rsp = <<"sp", Len(InitialStack(args))>>,
              !.regs = [r \in Kept |->
                  IF r = "rbp" THEN <<"ctx", Guest>>
                  ELSE IF \E i \in DOMAIN fp : ArgRegs.fp[i] = r
                       THEN fp[CHOOSE i \in DOMAIN fp : ArgRegs.fp[i] = r]
                       ELSE @[r]],
              !.callback = IF call.bare THEN @ ELSE Word("exit_guest_region"),
              !.data = IF call.bare THEN @ ELSE Word("instance")]

\* Instance::install_activator, on the context and on the top of the stack.
Activated(c, s) ==
    [c EXCEPT !.regs["rbx"] = Last(s), !.regs["rsi"] = Word("enter_guest_region"),
              !.regs["rdi"] = c.data]
ActivatorOn(s) == [s EXCEPT ![Len(s)] = Word("activate")]

-----------------------------------------------------------------------------
(* The machine.                                                            *)

\* The word that a stack pointer points to, when the guest's stack is s: on a host's
\* stack, the way back from swap.
At(rsp, s) == IF rsp[1] = "sp" THEN s[rsp[2]] ELSE Word("host")

\* `ret`, for a processor m whose registers are loaded.
Return(m, s) ==
    [m EXCEPT !.pc = At(m.rsp, s)[1],
              !.rsp = IF m.rsp[1] = "sp" THEN <<"sp", m.rsp[2] - 1>> ELSE m.rsp]

\* lucet_context_swap's two halves.  A register that is not in a Context stays.
Save(m, c) == [c EXCEPT !.regs = [r \in Kept |-> m.regs[r]], !.rsp = m.rsp]
Load(m, c) ==
    [m EXCEPT !.regs = [r \in Registers |-> IF r \in Kept THEN c.regs[r] ELSE m.regs[r]],
              !.rsp = c.rsp]

\* Context::swap by thread h, with m as its processor, from context `from` to context
\* `to`, which then is c, with the guest's stack s.
AdoptedOnce(c, from) == IF c.parent = Nobody THEN [c EXCEPT !.parent = from] ELSE c
Adopted(c, from) == [c EXCEPT !.parent = from]

Swap(h, m, from, to, c, s) ==
    /\ ctx' = [ctx EXCEPT ![from] = Save(m, @), ![to] = Adopted(c, from)]
    /\ cpu' = [cpu EXCEPT ![h] = Return(Load(m, c), s)]
    /\ stack' = s

\* lucet_context_set to the thread's HOST_CTX
SetHost(h) ==
    /\ cpu' = [cpu EXCEPT ![h] = Return(Load(cpu[h], ctx[h]), stack)]
    /\ UNCHANGED <<ctx, stack>>

\* What is left in registers by a function that keeps to the calling convention.
Scratched(regs, S) == [r \in Registers |-> IF r \in S THEN Junk ELSE regs[r]]

-----------------------------------------------------------------------------

\* Context::new
NewContext == [regs |-> [r \in Kept |-> Zero], rsp |-> Zero, parent |-> Nobody, gp |-> Zero,
               fp |-> Zero, callback |-> Word("default"), data |-> Zero]

HostRegs(h) == [r \in Registers |-> IF r \in CallerSaved THEN Junk ELSE <<r, h>>]

Init ==
    /\ cpu = [h \in Hosts |-> [pc |-> "host", regs |-> HostRegs(h), rsp |-> <<"host", 0>>]]
    /\ ctx = [c \in {Guest} \cup Hosts |-> NewContext]
    /\ stack = <<>>
    /\ call \in Calls
    /\ status = "ready"
    /\ called = [h \in Hosts |-> <<"host", 0>>]
    /\ runs = 0
    /\ swaps = 0

AtHost == \A h \in Hosts : cpu[h].pc = "host"

\* The host calls swap: its registers are its own, and the depth of its stack differs
\* from call to call.
EnterFrom(h, c, s) ==
    LET sp == <<"host", runs + swaps + 1>> IN
    /\ called' = [called EXCEPT ![h] = sp]
    /\ Swap(h, [cpu[h] EXCEPT !.rsp = sp], h, Guest, c, s)

\* Are there as many arguments as parameters, and do their types agree?
Typechecks(c) ==
    /\ Len(c.args) = Len(c.params)
    /\ \A i \in DOMAIN c.args : ValueType(c.args[i]) = c.params[i]

\* Instance::run_func, or the calls of a test: init, the activator, and the swap.
Run(h) ==
    LET args == WithVmctx(call.args)
        s == InitialStack(args)
        c == InitialCtx(IF call.bare THEN NewContext ELSE ctx[Guest], args)
    IN
    /\ AtHost
    /\ runs < MaxRuns
    /\ status \in {"ready", "terminated"}
    /\ runs' = runs + 1
    /\ UNCHANGED <<call, swaps>>
    /\ \/ /\ ~call.bare /\ ~Typechecks(call)
          /\ status' = "refused"
          /\ UNCHANGED <<cpu, ctx, stack, called>>
       \/ /\ call.bare /\ ~call.aligned
          /\ status' = "refused"
          /\ UNCHANGED <<cpu, ctx, stack, called>>
       \/ /\ call.aligned /\ (call.bare \/ Typechecks(call))
          /\ status' = "running"
          /\ IF call.bare THEN EnterFrom(h, c, s) ELSE EnterFrom(h, Activated(c, s), ActivatorOn(s))

\* A resume, by any thread.
Resume(h) ==
    /\ AtHost
    /\ status = "yielded"
    /\ status' = "running"
    /\ EnterFrom(h, ctx[Guest], stack)
    /\ UNCHANGED <<call, runs, swaps>>

\* lucet_context_activate: `call *%rsi`, and then `jmp *%rbx`.  enter_guest_region
\* terminates a cancelled instance instead of returning.
Activate(h) ==
    LET m == cpu[h] IN
    /\ m.pc = "activate"
    /\ \/ /\ cpu' = [cpu EXCEPT ![h].pc = m.regs["rbx"][1], ![h].regs = Scratched(@, Clobbered)]
          /\ UNCHANGED <<ctx, stack, status>>
       \/ SetHost(h) /\ status' = "terminated"
    /\ UNCHANGED <<call, called, runs, swaps>>

\* lucet_context_bootstrap: six pops, and `ret`.
Bootstrap(h) ==
    LET m == cpu[h]
        top == m.rsp[2]
        Popped(r) == stack[top - 6 + (CHOOSE i \in 1 .. 6 : ArgRegs.gp[i] = r)]
        regs == [r \in Registers |-> IF r \in Range(ArgRegs.gp) THEN Popped(r) ELSE m.regs[r]]
    IN
    /\ m.pc = "bootstrap"
    /\ cpu' = [cpu EXCEPT ![h] = Return([m EXCEPT !.regs = regs, !.rsp = <<"sp", top - 6>>], stack)]
    /\ UNCHANGED <<ctx, stack, call, status, called, runs, swaps>>

-----------------------------------------------------------------------------
(* The entrypoint function.                                                *)

\* It saves the registers that it owes its caller, and uses all of them.
EntrypointBegins(h) ==
    LET m == cpu[h]
        saved == [i \in DOMAIN CalleeSaved |-> m.regs[CalleeSaved[i]]]
    IN
    /\ m.pc = "fptr"
    /\ stack' = SubSeq(stack, 1, m.rsp[2]) \o saved
    /\ cpu' = [cpu EXCEPT ![h] =
          [pc |-> "guest", rsp |-> <<"sp", m.rsp[2] + Len(saved)>>,
           regs |-> [r \in Registers |-> IF r \in CallerSaved THEN Junk ELSE Word(r)]]]
    /\ UNCHANGED <<ctx, call, status, called, runs, swaps>>

\* Vmctx::yield_impl: swap from the guest's context to the thread's HOST_CTX.
Yield(h) ==
    LET m == cpu[h]
        top == m.rsp[2]
    IN
    /\ m.pc = "guest"
    /\ swaps < MaxSwaps
    /\ Swap(h, [m EXCEPT !.rsp = <<"sp", top + 1>>], Guest, h, ctx[h],
            SubSeq(stack, 1, top) \o <<Word("guest")>>)
    /\ status' = "yielded"
    /\ swaps' = swaps + 1
    /\ UNCHANGED <<call, called, runs>>

\* Instance::terminate, the signal handler, or a test's Context::set.  An instance is
\* terminable from enter_guest_region on, so that the alarm of a KillSwitch may come before
\* the function begins, and after it has returned, where exit_guest_region waits for it;
\* the return values that the backstop has stored by then are never read.
Terminate(h) ==
    /\ \/ cpu[h].pc = "guest"
       \/ ~call.bare /\ cpu[h].pc \in {"bootstrap", "fptr", "backstop"}
    /\ SetHost(h)
    /\ status' = "terminated"
    /\ UNCHANGED <<call, called, runs, swaps>>

\* It gives back what it saved and returns.  Its arguments on the stack are its own.
EntrypointReturns(h) ==
    LET m == cpu[h]
        top == m.rsp[2] - Len(CalleeSaved)
        Restored(r) == stack[top + (CHOOSE i \in DOMAIN CalleeSaved : CalleeSaved[i] = r)]
        regs == [r \in Registers |->
                    CASE r = "rax" -> <<"result", runs>>
                      [] r = "xmm0" -> <<"result", runs>>
                      [] r \in Range(CalleeSaved) -> Restored(r)
                      [] OTHER -> Junk]
    IN
    /\ m.pc = "guest"
    /\ stack' = [i \in 1 .. top |-> IF i < top THEN Junk ELSE stack[i]]
    /\ cpu' = [cpu EXCEPT ![h] = Return([m EXCEPT !.regs = regs, !.rsp = <<"sp", top>>], stack)]
    /\ UNCHANGED <<ctx, call, status, called, runs, swaps>>

\* lucet_context_backstop, with rbp as the context: it stores the return values, calls
\* the callback, which returns here and does not in Terminate, and swaps to the parent.
\* It is a jump, so no parent is recorded.
StoredLate(m, c) == [c EXCEPT !.gp = Junk, !.fp = Junk]
Stored(m, c) == [c EXCEPT !.gp = m.regs["rax"], !.fp = m.regs["xmm0"]]

Backstop(h) ==
    LET m == cpu[h]
        c == m.regs["rbp"][2]
        after == [m EXCEPT !.regs = Scratched(@, CallerSaved)]
    IN
    /\ m.pc = "backstop"
    /\ m.regs["rbp"][1] = "ctx"
    /\ ctx' = [ctx EXCEPT ![c] = Save(after, Stored(m, @))]
    /\ cpu' = [cpu EXCEPT ![h] = Return(Load(after, ctx[ctx[c].parent]), stack)]
    /\ UNCHANGED <<stack, call, status, called, runs, swaps>>

\* swap_and_return, back on the host with a state of Running: the function returned.
Collect(h) ==
    /\ AtHost
    /\ status = "running"
    /\ status' = "ready"
    /\ UNCHANGED <<cpu, ctx, stack, call, called, runs, swaps>>

Next ==
    \E h \in Hosts :
        \/ Run(h) \/ Resume(h) \/ Activate(h) \/ Bootstrap(h) \/ EntrypointBegins(h)
        \/ Yield(h) \/ Terminate(h) \/ EntrypointReturns(h) \/ Backstop(h) \/ Collect(h)

Spec == Init /\ [][Next]_vars

-----------------------------------------------------------------------------
(* The System V calling convention, as the entrypoint function sees it.    *)

Args == WithVmctx(call.args)
Before(i, kind) == Cardinality({j \in 1 .. i - 1 : RegVal(Args[j]) = kind})
InRegister(i) == Before(i, RegVal(Args[i])) < Len(ArgRegs[RegVal(Args[i])])
InMemoryBefore(i) == Cardinality({j \in 1 .. i - 1 : ~InRegister(j)})

\* What the function finds where argument i is passed, when its return address is on
\* top of the stack.
Found(m, i) ==
    IF InRegister(i) THEN m.regs[ArgRegs[RegVal(Args[i])][Before(i, RegVal(Args[i])) + 1]]
    ELSE stack[m.rsp[2] - 1 - InMemoryBefore(i)]

\* The entrypoint is entered as the calling convention has it: every argument is where
\* it is passed, the vmctx first, the stack is aligned for a call, and the function
\* returns to the backstop.  The callbacks are called with an aligned stack, and
\* enter_guest_region with the instance.
EntryMeetsABI ==
    \A h \in Hosts :
        LET m == cpu[h] IN
        /\ m.pc = "fptr" =>
            /\ \A i \in DOMAIN Args : Found(m, i) = <<"arg", i>>
            /\ m.rsp[2] % 2 = 1
            /\ At(m.rsp, stack) = Word("backstop")
        /\ m.pc \in {"activate", "backstop"} => m.rsp[2] % 2 = 0
        /\ m.pc = "activate" =>
            m.regs["rsi"] = Word("enter_guest_region") /\ m.regs["rdi"] = Word("instance")

\* Whoever is switched to goes on where it called swap: a host thread with its own
\* registers and stack pointer, the guest with its own.  No `ret` leads anywhere else.
SwitchesRestore ==
    \A h \in Hosts :
        LET m == cpu[h] IN
        /\ m.pc \in {"host", "activate", "bootstrap", "fptr", "guest", "backstop"}
        /\ m.pc = "host" =>
            m.rsp = called[h] /\ \A r \in Range(CalleeSaved) : m.regs[r] = <<r, h>>
        /\ m.pc = "guest" =>
            \A r \in Range(CalleeSaved) : m.regs[r] = Word(r)
        /\ m.pc = "backstop" => m.regs["rbp"] = <<"ctx", Guest>>

\* What run returns when the function has returned is what this call of it returned, and
\* a call is refused, for its arguments' types or the stack's alignment, when it should be.
ResultIsFresh ==
    /\ AtHost /\ status = "running" =>
        ctx[Guest].gp = <<"result", runs>> /\ ctx[Guest].fp = <<"result", runs>>
    /\ status # "ready" => (status = "refused") = call.refused
=============================================================================
