-------------------------- MODULE MCContextSwitch --------------------------
(* ContextSwitch with the calls of the tests and the sweep around them.    *)
EXTENDS ContextCases

MCCalls == TestCases \cup Sweep

\* A callback that is compiled to integer code.
IntegerScratch == Range(ArgRegs.gp) \cup {"rax"}
=============================================================================
