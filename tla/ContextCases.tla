---------------------------- MODULE ContextCases ----------------------------
(***************************************************************************)
(* The calls of the repository's tests of contexts and entrypoints, for    *)
(* ContextSwitch, which makes each of them with every course that a call   *)
(* can take: the ones the tests take (a return, one or two swaps back, a   *)
(* set, a second call) are among these.                                    *)
(*                                                                         *)
(* Sources: lucet-runtime-internals/src/context/tests/*.rs,                *)
(* lucet-runtime-tests/src/entrypoint.rs                                   *)
(***************************************************************************)
EXTENDS ContextSwitch

Of(type, n) == [i \in 1 .. n |-> type]

\* A context by itself, and inst.run of a function.
Bare(args) == [bare |-> TRUE, params |-> <<>>, args |-> args, aligned |-> TRUE, refused |-> FALSE]
InstRun(params, args) ==
    [bare |-> FALSE, params |-> params, args |-> args, aligned |-> TRUE, refused |-> FALSE]
Refused(c) == [c EXCEPT !.refused = TRUE]

\* context/tests
Init_rejects_unaligned == Refused([Bare(<<>>) EXCEPT !.aligned = FALSE])
Call_child == Bare(Of("CPtr", 2))
Call_child_twice == Bare(Of("CPtr", 2))
Call_child_setcontext == Bare(<<>>)
Call_child_setcontext_twice == Bare(<<>>)
Call_returning_child == Bare(<<>>)
Returning_add_u32 == Bare(Of("U32", 2))
Returning_add_u64 == Bare(Of("U64", 2))
Returning_add_f32 == Bare(Of("F32", 2))
Returning_add_f64 == Bare(Of("F64", 2))
Child_n_args == {Bare(Of("U64", n)) : n \in 3 .. 10}
Child_n_fp_args == {Bare(Of("F64", n)) : n \in 6 .. 10}
C_child_n_args == {Bare(Of("U64", n)) : n \in 3 .. 10}
Guest_realloc_string == Bare(Of("U64", 7))

\* mock_calculator_module
Add_2 == Of("I64", 2)
Add_4_reexport == Of("I64", 4)
Add_10 == Of("I64", 10)
Mul_2 == Of("I64", 2)
Add_f32_2 == Of("F32", 2)
Add_f64_2 == Of("F64", 2)
Add_f32_10 == Of("F32", 10)
Add_f64_10 == Of("F64", 10)
Add_mixed_20 ==
    << "F64", "I32", "F32", "F64", "I32", "F32", "F64", "I32", "F32", "F64",
       "I32", "F32", "F64", "I32", "F32", "F64", "I64", "F32", "F64", "I64" >>

\* entrypoint.rs
Calc_add_2 == InstRun(Add_2, Of("U64", 2))
Calc_add_10 == InstRun(Add_10, Of("U64", 10))
Calc_mul_2 == InstRun(Mul_2, Of("U64", 2))
Calc_add_f32_2 == InstRun(Add_f32_2, Of("F32", 2))
Calc_add_f64_2 == InstRun(Add_f64_2, Of("F64", 2))
Calc_add_f32_10 == InstRun(Add_f32_10, Of("F32", 10))
Calc_add_f64_10 == InstRun(Add_f64_10, Of("F64", 10))
Calc_add_mixed_20 ==
    InstRun(Add_mixed_20,
            << "F64", "U8", "F32", "F64", "U16", "F32", "F64", "U32", "F32", "F64",
               "Bool", "F32", "F64", "U32", "F32", "F64", "U64", "F32", "F64", "U64" >>)
Typecheck_entrypoint_wrong_args == Refused(InstRun(Add_2, Of("F64", 2)))
Typecheck_entrypoint_too_few_args == Refused(InstRun(Add_2, Of("U64", 1)))
Typecheck_entrypoint_too_many_args == Refused(InstRun(Add_2, Of("U64", 3)))
Imported_entrypoint == InstRun(Add_4_reexport, Of("U64", 4))

\* lucet_instance_run and lucet_instance_run_func_idx, which make a Val of each lucet_val:
\* I8 and I16 come out wider than they were.
CTypes == << "C_Ptr", "GuestPtr", "U8", "U16", "U32", "U64", "I8", "I16", "I32", "I64",
             "USize", "ISize", "Bool", "F32", "F64" >>
FromC(ty) == CASE ty = "C_Ptr" -> "CPtr"
               [] ty = "I8" -> "I16"
               [] ty = "I16" -> "I32"
               [] OTHER -> ty
LucetInstanceRun(params, args) == InstRun(params, [i \in DOMAIN args |-> FromC(args[i])])

\* The parameters of a guest function, compiled for wasm32, that is declared with them
ParamOfC(ty) ==
    IF ty \in {"U64", "I64"} THEN "I64" ELSE IF ty \in {"F32", "F64"} THEN ty ELSE "I32"

C_all_types == LucetInstanceRun([i \in DOMAIN CTypes |-> ParamOfC(CTypes[i])], CTypes)

TestCases ==
    { Init_rejects_unaligned, Call_child, Call_child_twice, Call_child_setcontext,
      Call_child_setcontext_twice, Call_returning_child, Returning_add_u32, Returning_add_u64,
      Returning_add_f32, Returning_add_f64, Guest_realloc_string, Calc_add_2, Calc_add_10,
      Calc_mul_2, Calc_add_f32_2, Calc_add_f64_2, Calc_add_f32_10, Calc_add_f64_10,
      Calc_add_mixed_20, Typecheck_entrypoint_wrong_args, Typecheck_entrypoint_too_few_args,
      Typecheck_entrypoint_too_many_args, Imported_entrypoint, C_all_types }
    \cup Child_n_args \cup Child_n_fp_args \cup C_child_n_args

\* Up to eight integers and ten floating-point numbers, in two orders: all the ways to
\* fill the registers of each kind exactly, to miss that by one and to exceed it.
Sweep ==
    LET ints(n) == Of("I32", n)
        floats(n) == Of("F64", n)
    IN  {InstRun([i \in DOMAIN a |-> ValueType(a[i])], a) :
            a \in {ints(n) \o floats(k) : n \in 4 .. 8, k \in 7 .. 10}
                  \cup {floats(k) \o ints(n) : n \in 4 .. 8, k \in 7 .. 10}}
=============================================================================
