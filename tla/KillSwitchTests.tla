-------------------------- MODULE KillSwitchTests --------------------------
(***************************************************************************)
(* The repository's KillSwitch tests, as schedules of KillSwitch: each     *)
(* test lets the host thread and the threads that terminate go on to the   *)
(* testpoints it waits at, in its order, and asserts what the calls come   *)
(* to.  KillSwitch has to allow every schedule, and to give the outcome    *)
(* the test asserts however the rest is interleaved.  Besides the tests    *)
(* there is KillSwitch itself, with no test to hold its threads.           *)
(*                                                                         *)
(* A testpoint is the place in KillSwitch's program counters where its     *)
(* check() stands.  terminate_after_guest_drop is left out: KillSwitch     *)
(* does not drop the instance.                                             *)
(*                                                                         *)
(* Sources: lucet-concurrency-tests/src/killswitch.rs and                  *)
(* lucet-runtime-internals/src/lock_testpoints.rs                          *)
(***************************************************************************)
EXTENDS KillSwitch, Sequences

CONSTANTS
    s1, s2,      \* the KillSwitches of the tests
    FreeCalls    \* bound: MaxCalls, where there is no test

VARIABLES
    test,        \* which test is run, or Free
    line,        \* the line of its script that is being carried out
    func,        \* the guest function that the instance runs
    called,      \* has that function made its hostcall?
    held         \* where the test last held the host thread

testVars == <<test, line, func, called, held>>

-----------------------------------------------------------------------------
(* Scripts.                                                                *)

\* LockTestpoints: where a thread stands at the testpoints the tests use.
Testpoint ==
    [ entering_guest_before_domain_change |-> "enter",
      entering_guest_after_domain_change |-> "guest",
      entering_hostcall_before_domain_change |-> "begin",
      entering_hostcall_after_domain_change |-> "hostcall",
      exiting_hostcall_before_domain_change |-> "end",
      exiting_hostcall_after_domain_change |-> "guest",
      exiting_guest_before_acquiring_terminable |-> "exit",
      exiting_guest_without_terminable |-> "spin",
      exiting_guest_after_domain_change |-> "signals_off",
      after_clearing_current_instance |-> "finish",
      signal_handler_before_disabling_termination |-> "handler",
      signal_handler_before_returning |-> "signals_off",
      kill_switch_after_acquiring_termination |-> "lock",
      kill_switch_before_guest_alarm |-> "alarm",
      kill_switch_after_guest_alarm |-> "wait" ]

\* The lines of a script: who goes on, what it starts with, how far it gets, and what
\* the test then finds, if it looks.
Line(do, who, start, to, want) == [do |-> do, who |-> who, start |-> start, to |-> to, want |-> want]
Anything == "anything"

\* inst.kill_switch(), inst.reset() and inst.run() or inst.resume(), to its end or to a
\* testpoint.
Take(s) == Line("take", s, "", "", Anything)
ResetIt == Line("reset", s1, "", "", Anything)
RunTo(f, point) == Line("host", s1, f, Testpoint[point], Anything)
RunOf(f, want) == Line("host", s1, f, "host", want)
ResumeIt(want) == Line("host", s1, "resume", "host", want)
HostTo(point) == Line("host", s1, "", Testpoint[point], Anything)
HostEnds(want) == Line("host", s1, "", "host", want)

\* kill_switch.terminate(), to its end or to a testpoint, while the host thread is held
\* where it is.
Kill(s, want) == Line("kill", s, "", "idle", want)
KillTo(s, point) == Line("kill", s, "", Testpoint[point], Anything)
KillGoesOn(s, want) == Line("free", s, "", "idle", want)

RunsAgain == <<ResetIt, RunOf("returns", "Ready")>>

Terminate_in_guest ==
    << Take(s1), Take(s2), RunTo("loops", "entering_guest_after_domain_change"),
       Kill(s1, "Signalled"), HostEnds("Terminated"), Kill(s2, "Invalid"),
       Take(s1), Kill(s1, "Cancelled") >>

Terminate_entering_guest(point) ==
    << Take(s1), RunTo("returns", point), Kill(s1, Anything), HostEnds("Terminated") >>

Terminate_exiting_guest_before_domain_change ==
    << Take(s1), RunTo("returns", "exiting_guest_before_acquiring_terminable"),
       Kill(s1, "Signalled"), HostEnds("Terminated") >>

Terminate_exiting_guest_after_domain_change ==
    << Take(s1), RunTo("returns", "exiting_guest_after_domain_change"),
       Kill(s1, "NotTerminable"), HostEnds("Ready") >>

Terminate_exiting_guest_during_terminable_check ==
    << Take(s1), RunTo("returns", "exiting_guest_before_acquiring_terminable"),
       KillTo(s1, "kill_switch_after_acquiring_termination"),
       HostTo("exiting_guest_without_terminable"),
       KillTo(s1, "kill_switch_before_guest_alarm"),
       KillGoesOn(s1, "Signalled"), HostEnds("Terminated") >>

Terminate_during_guest_fault ==
    << Take(s1), RunTo("faults", "signal_handler_before_disabling_termination"),
       KillTo(s1, "kill_switch_after_guest_alarm"),
       HostTo("signal_handler_before_returning"),
       KillGoesOn(s1, "Signalled"), HostEnds("Faulted") >> \o RunsAgain

Terminate_during_guest_fault_racing_deschedule ==
    << Take(s1), RunTo("faults", "signal_handler_before_disabling_termination"),
       KillTo(s1, "kill_switch_after_acquiring_termination"),
       HostTo("after_clearing_current_instance"),
       KillGoesOn(s1, "NotTerminable"), HostEnds("Faulted") >> \o RunsAgain

Terminate_after_guest_fault ==
    << Take(s1), RunOf("faults", "Faulted"), Kill(s1, "Invalid") >> \o RunsAgain

Terminate_in_hostcall ==
    << Take(s1), RunTo("hostcall", "exiting_hostcall_before_domain_change"),
       Kill(s1, "Pending"), HostEnds("Terminated") >>

\* The second point of terminate_exiting_hostcall is in the guest, after its hostcall.
Terminate_exiting_hostcall(point) ==
    << Take(s1), RunTo("hostcall", "exiting_hostcall_before_domain_change"), HostTo(point),
       Kill(s1, Anything), HostEnds("Terminated") >>

Terminate_entering_hostcall(point) ==
    << Take(s1), RunTo("hostcall", point), Kill(s1, Anything), HostEnds("Terminated") >>

Timeout_after_guest_runs ==
    << Take(s1), RunOf("returns", "Ready"), Kill(s1, "Invalid"), RunOf("returns", "Ready") >>
        \o RunsAgain

Timeout_while_yielded ==
    << Take(s1), RunOf("yields", "Yielded"), Kill(s1, "Pending"),
       Take(s2), Kill(s2, "NotTerminable"), ResumeIt("Terminated") >> \o RunsAgain

Double_terminate ==
    << Take(s1), Take(s2), RunTo("loops", "entering_guest_after_domain_change"),
       Kill(s1, "Signalled"), HostEnds("Terminated"), Kill(s2, "Invalid") >>
        \o RunsAgain \o << Take(s1), Kill(s1, "Cancelled") >>

Timeout_before_guest_runs ==
    << Take(s1), Kill(s1, "Cancelled"), Take(s2), Kill(s2, "NotTerminable"),
       RunOf("returns", "Terminated") >> \o RunsAgain

Timeout_after_guest_reset ==
    << Take(s1), ResetIt, Kill(s1, "Invalid"), RunOf("returns", "Ready") >>

Tests ==
    << Terminate_in_guest,
       Terminate_entering_guest("entering_guest_before_domain_change"),
       Terminate_entering_guest("entering_guest_after_domain_change"),
       Terminate_exiting_guest_before_domain_change,
       Terminate_exiting_guest_after_domain_change,
       Terminate_exiting_guest_during_terminable_check,
       Terminate_during_guest_fault,
       Terminate_during_guest_fault_racing_deschedule,
       Terminate_after_guest_fault,
       Terminate_in_hostcall,
       Terminate_exiting_hostcall("exiting_hostcall_after_domain_change"),
       Terminate_entering_hostcall("entering_hostcall_before_domain_change"),
       Terminate_entering_hostcall("entering_hostcall_after_domain_change"),
       Timeout_after_guest_runs,
       Timeout_while_yielded,
       Double_terminate,
       Timeout_before_guest_runs,
       Timeout_after_guest_reset >>

-----------------------------------------------------------------------------
(* Carrying out a script.                                                  *)

Free == 0
Script == Tests[test]
Ended == IF test = Free THEN TRUE ELSE line > Len(Script)
Now == Script[line]

TestInit ==
    /\ Init
    /\ test \in DOMAIN Tests \cup {Free}
    /\ line = 1
    /\ func = "none"
    /\ called = FALSE
    /\ held = "host"

\* Is what the line is about done, after the step?
Done(l) ==
    CASE l.do \in {"take", "reset"} -> TRUE
      [] l.do = "host" -> pc' = l.to
      [] l.do \in {"kill", "free"} ->
            kpc'[l.who] = l.to /\ (l.to = "idle" => result'[l.who] # NoResult)

\* What the test asserts of it: the result of a terminate, or the state in which a run has
\* left the instance.  A test that fails goes no further.
Asserted(l) ==
    l.want # Anything => l.want = IF l.do = "host" THEN state' ELSE result'[l.who]

\* The guest functions of mock_killswitch_module, at the guest's choices.
CallsNow == func \in {"hostcall", "yields"} /\ ~called
GuestFunction ==
    /\ \/ /\ func \notin {"loops", "faults"}
          /\ GuestStep /\ pc' = IF CallsNow THEN "begin" ELSE "exit"
          /\ UNCHANGED called
       \/ /\ func = "faults"
          /\ GuestFault /\ state' = "Faulted"
          /\ UNCHANGED called
       \/ /\ HostcallBody
          /\ IF func = "yields" /\ ~called THEN state' = "Yielding" ELSE pc' = "end"
          /\ called' = TRUE
    /\ UNCHANGED func

\* The host thread starts the call that the line asks for, which does not fail.
Starts ==
    /\ pc = "host"
    /\ Now.do = "host"
    /\ IF Now.start = "resume" THEN Resume /\ UNCHANGED <<func, called>>
       ELSE Now.start # "" /\ Run /\ func' = Now.start /\ called' = FALSE
    /\ pc' # "host"

\* Syncpoint::check: the host thread goes on unless the test holds it where it stands.
\* A SIGALRM reaches it there too.  Its set-up does not fail.
HostMoves ==
    /\ Now.do \in {"host", "kill", "free"}
    /\ \/ Now.do = "kill" /\ pc = held /\ TakeAlarm /\ UNCHANGED <<func, called>>
       \/ (Now.do = "kill" => pc # held) /\ Runtime /\ UNCHANGED <<func, called>>
       \/ (Now.do = "kill" => pc # held) /\ GuestFunction
    /\ ~(pc = "signals_on" /\ pc' = "unset_tid")

\* SyncWaiter::wait_and_then, pause and resume: a thread that terminates goes on.
SwitchMoves ==
    /\ Now.do \in {"kill", "free"}
    /\ Terminate(Now.who) \/ (Now.do = "kill" /\ Upgrade(Now.who))
    /\ UNCHANGED <<func, called>>

\* Calls of the test that are over at once.
TestCalls ==
    /\ \/ Now.do = "take" /\ TakeKillSwitch(Now.who)
       \/ Now.do = "reset" /\ Reset
    /\ UNCHANGED <<func, called>>

\* A join of a thread that has ended already.
Joins ==
    /\ Now.do = "host" /\ Now.start = ""
    /\ pc = Now.to
    /\ UNCHANGED <<vars, func, called>>

TestStep ==
    /\ test # Free
    /\ crash = NoCrash /\ ~Ended
    /\ Starts \/ HostMoves \/ SwitchMoves \/ TestCalls \/ Joins
    /\ Done(Now) => Asserted(Now)
    /\ line' = IF Done(Now) THEN line + 1 ELSE line
    /\ held' = IF Done(Now) THEN pc' ELSE held
    /\ UNCHANGED test

WithinFreeCalls == call' <= FreeCalls /\ (pc' # "host" => call < FreeCalls)

TestNext ==
    \/ test = Free /\ Next /\ WithinFreeCalls /\ UNCHANGED testVars
    \/ TestStep
    \/ test # Free /\ UNCHANGED <<vars, testVars>>

\* Threads that are not held by a test go on, and so does the test.
TestSpec ==
    TestInit /\ [][TestNext]_<<vars, testVars>> /\ WF_<<vars, testVars>>(TestStep)

-----------------------------------------------------------------------------

\* Every test comes to its end: each terminate and each run comes to what the test
\* asserts, the schedule is one that the code allows, none of the threads hangs, and
\* nothing panics.
TestsPass == <>Ended
=============================================================================
