---------------------------- MODULE SignalTests ----------------------------
(***************************************************************************)
(* The repository's tests of the host's signal handlers and signal stacks, *)
(* as scripts for the threads of SignalState, besides the threads that do  *)
(* whatever SignalState allows.                                            *)
(*                                                                         *)
(* The sleeps with which the tests arrange an order are left out: what a   *)
(* test asserts has to hold in every order.                                *)
(*                                                                         *)
(* Sources: lucet-runtime-tests/src/guest_fault.rs, start.rs and           *)
(* helpers.rs                                                              *)
(***************************************************************************)
EXTENDS SignalState, Sequences

VARIABLES
    test,        \* the test that is run, or Free
    todo         \* what each thread has left of its script

Free == 0

Do(op, ensure, stack) == [op |-> op, ensure |-> ensure, stack |-> stack]
Only(op) == Do(op, FALSE, FALSE)

\* inst.run, or inst.run_start, with both flags as new_instance sets them, with
\* ensure_signal_handler_installed(false), and with ensure_sigstack_installed(false)
Run == Do("run", TRUE, TRUE)
RunManual == Do("run", FALSE, TRUE)
RunOnOwnStack == Do("run", TRUE, FALSE)

\* install_lucet_signal_handler and remove_lucet_signal_handler
InstallIt == Only("install")
RemoveIt == Only("remove")

\* RECOVERABLE_PTR is written to, and the handler of the test, if it has one, has run
Segfault == Only("signal")

\* The assertions: with_unchanged_signal_handlers finds the host's handlers, and
\* sigaltstack the stack that was there before
HandlersUnchanged == Only("handlers")
StackUnchanged == Only("stack")

\* child.join()
Join == Only("join")

\* A test: what its threads do, whether the child's guest loops, and the host's disposition.
Test(main, child, loops, host) ==
    [main |-> main, child |-> child, loops |-> loops, host |-> host]
Alone(main) == Test(main, <<>>, FALSE, {"SigDfl", "SigIgn", "Handler"})

With_unchanged_signal_handlers(body) == body \o <<HandlersUnchanged>>

Illegal_instr_manual_signal ==
    Alone(With_unchanged_signal_handlers(<<InstallIt, RunManual, RunManual, RemoveIt>>))
Illegal_instr_manuals_signal ==
    Alone(With_unchanged_signal_handlers(
        <<InstallIt, InstallIt, InstallIt, RunManual, RunManual, RemoveIt, RemoveIt, RemoveIt,
          RemoveIt, InstallIt, RunManual, RemoveIt>>))
Illegal_instr_manual_sigstack == Alone(<<RunOnOwnStack, RunOnOwnStack, StackUnchanged>>)
Sigsegv_handler_saved_restored ==
    Test(With_unchanged_signal_handlers(<<Run, Segfault>>), <<>>, FALSE, {"Handler"})
Sigsegv_handler_during_guest ==
    Test(With_unchanged_signal_handlers(<<Segfault, Join>>), <<Run>>, FALSE, {"Handler"})
Handle_host_signal == Test(<<Segfault>>, <<Run>>, TRUE, {"SigDfl"})
Sigaltstack_restores == Alone(<<Run, StackUnchanged>>)
Manual_signal_handler_ok ==
    Alone(With_unchanged_signal_handlers(
        <<InstallIt, RunManual, RunManual, RunManual, RunManual, RemoveIt>>))
Manual_sigstack_ok ==
    Alone(<<RunOnOwnStack, RunOnOwnStack, RunOnOwnStack, RunOnOwnStack, StackUnchanged>>)

Tests ==
    << Illegal_instr_manual_signal, Illegal_instr_manuals_signal, Illegal_instr_manual_sigstack,
       Sigsegv_handler_saved_restored, Sigsegv_handler_during_guest, Handle_host_signal,
       Sigaltstack_restores, Manual_signal_handler_ok, Manual_sigstack_ok >>

Main == CHOOSE t \in Threads : TRUE
Child == CHOOSE t \in Threads \ {Main} : TRUE

TestInit ==
    /\ Init
    /\ test \in DOMAIN Tests \cup {Free}
    /\ test # Free => hostAction \in Tests[test].host
    /\ todo = [t \in Threads |-> IF test = Free THEN <<>>
                                 ELSE IF t = Main THEN Tests[test].main
                                 ELSE IF t = Child THEN Tests[test].child
                                 ELSE <<>>]

Through(t) == todo[t] = <<>> /\ thread[t].at = "host"

\* A thread in its own code does the next thing in its script.  A thread whose assertion
\* fails does nothing more.
Begins(t, do) ==
    \/ do.op = "run" /\ Enter(t, do.ensure, do.stack)
    \/ do.op = "install" /\ Install(t)
    \/ do.op = "remove" /\ Remove(t)
    \/ do.op = "signal" /\ \E g \in Signals : Signalled(t, g)
    \/ do.op = "handlers" /\ (\A g \in Signals : action[g] = Host) /\ UNCHANGED vars
    \/ do.op = "stack" /\ altstack[t] = Host /\ UNCHANGED vars
    \/ do.op = "join" /\ Through(Child) /\ UNCHANGED vars

Scripted(t) ==
    /\ test # Free
    /\ UNCHANGED test
    /\ \/ /\ todo[t] # <<>> /\ At(t, "host")
          /\ Begins(t, Head(todo[t]))
          /\ todo' = [todo EXCEPT ![t] = Tail(@)]
       \/ ~Tests[test].loops /\ Leave(t) /\ UNCHANGED todo

InRuntime(t) == Runtime(t) /\ UNCHANGED <<test, todo>>

TestNext ==
    \/ test = Free /\ Next /\ UNCHANGED <<test, todo>>
    \/ \E t \in Threads : Scripted(t) \/ (test # Free /\ InRuntime(t))

testVars == <<vars, test, todo>>

TestSpec ==
    /\ TestInit
    /\ [][TestNext]_testVars
    /\ \A t \in Threads : WF_testVars(InRuntime(t)) /\ WF_testVars(Scripted(t))

-----------------------------------------------------------------------------

Ended ==
    IF test = Free THEN TRUE
    ELSE IF Tests[test].loops THEN dead
    ELSE ~dead /\ \A t \in Threads : Through(t)

\* The tests come to their end, in every order of their threads' steps: no assertion fails,
\* that is, the host has its handlers and the thread its signal stack again whenever a test
\* looks; no thread hangs; and handle_host_signal alone ends the process.
TestsPass == <>Ended
=============================================================================
