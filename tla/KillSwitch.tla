----------------------------- MODULE KillSwitch -----------------------------
(***************************************************************************)
(* Remote termination of a Lucet instance.                                 *)
(*                                                                         *)
(* One host thread runs one instance, call after call; any number of other *)
(* threads hold KillSwitches on it and call KillSwitch::terminate at any   *)
(* time.  They share a KillState: the flag `terminable`, the mutex-guarded *)
(* `execution_domain`, the thread id with its condition variable, and the  *)
(* flag `ignore_alarm`.  A call into the guest that ends replaces the      *)
(* instance's KillState, so KillStates are numbered: kill state g serves   *)
(* the g-th call, and a switch may still hold an old one.                  *)
(*                                                                         *)
(* The step of a thread between two shared accesses is one action.  A      *)
(* critical section that contains no other shared access is one action as  *)
(* well; only KillSwitch::terminate keeps a lock across actions.           *)
(*                                                                         *)
(* A definition that directly precedes one of nearly the same name and is  *)
(* used nowhere (DomainUnguarded, TerminableRead, ...) is that definition  *)
(* with a slip in it: the properties below are known to notice each slip.  *)
(*                                                                         *)
(* Sources: lucet-runtime-internals/src/instance/execution.rs,             *)
(* instance/signals.rs, instance.rs and vmctx.rs.                          *)
(***************************************************************************)
EXTENDS Naturals, FiniteSets

CONSTANTS
    Switches,      \* the threads that hold a KillSwitch
    MaxCalls,      \* bound: how many KillStates the instance goes through
    GuestFaults,   \* may the guest raise SIGSEGV, SIGBUS, SIGFPE or SIGILL?
    SetupFails     \* may with_current_instance or with_signals_on return Err?

ASSUME MaxCallsAssumption == MaxCalls \in Nat
ASSUME FlagsAssumption ==
    /\ GuestFaults \in BOOLEAN
    /\ SetupFails \in BOOLEAN

Calls == 0 .. MaxCalls

VARIABLES
    \* The host thread and the instance it owns.
    pc,            \* where the host thread is
    state,         \* Instance.state
    ctx,           \* Instance.ctx: where a context swap enters the guest
    failed,        \* did with_current_instance/with_signals_on return Err?
    current,       \* is CURRENT_INSTANCE set on the host thread?
    handler,       \* is Lucet's SIGALRM handler installed?
    alarm,         \* is a SIGALRM pending for the host thread?
    call,          \* the KillState that Instance.kill_state points to
    \* The KillStates.
    terminable, domain, domainLock, threadId, ignoreAlarm,
    \* The threads that hold a KillSwitch.
    kpc, target, result,
    \* The first panic or abort; the model stops there.
    crash

hostVars == <<pc, state, ctx, failed, current, handler, call>>
killStateVars == <<terminable, domain, domainLock, threadId, ignoreAlarm>>
switchVars == <<kpc, target, result>>
vars == <<hostVars, alarm, killStateVars, switchVars, crash>>

-----------------------------------------------------------------------------

State == {"Ready", "Running", "Terminating", "Terminated", "Yielding",
          "Yielded", "BoundExpired", "Faulted"}

Domain == {"Pending", "Guest", "Hostcall", "Terminated", "Cancelled"}

\* Guest code proper, and the runtime code the guest thread runs while the
\* execution domain is still Guest.
GuestPc == {"guest", "begin", "exit", "leave", "spin", "handler"}

\* After the context swap back to the host, up to the return of
\* swap_and_return.
TailPc == {"signals_off", "unset_tid", "notify", "settle", "clear", "finish"}

HostPc == {"host", "schedule", "signals_on", "enter", "hostcall", "end"}

Pc == GuestPc \cup TailPc \cup HostPc

KillSuccess == {"Signalled", "Pending", "Cancelled"}
KillError == {"NotTerminable", "Invalid"}

\* A thread inside KillSwitch::terminate that has upgraded its Weak pointer.
Upgraded == {"swap", "lock", "alarm", "wait", "woken", "return"}

NoCall == MaxCalls + 1
NoResult == "none"
Unlocked == "unlocked"
NoCrash == "none"

Crash == {"enter_domain", "begin_domain", "end_domain", "exit_domain",
          "strong_count", "not_running", "silenced_twice", "host_alarm"}

ASSUME SwitchesAssumption == Unlocked \notin Switches

\* Arc::strong_count of KillState g: the instance's reference and those of
\* the switches that have upgraded theirs.
Holders(g) == {s \in Switches : target[s] = g /\ kpc[s] \in Upgraded}

\* Weak::upgrade succeeds.
Alive(g) == call = g \/ Holders(g) # {}

\* The domain mutex of the instance's KillState can be taken.
DomainUnguarded == TRUE
DomainFree == domainLock[call] = Unlocked

\* terminable.swap(false): in exit_guest_region, disable_termination and
\* KillSwitch::terminate.
TerminableRead(g) == terminable
TerminableTaken(g) == [terminable EXCEPT ![g] = FALSE]

\* KillState::silence_alarm and KillState::alarm_active
AlarmHeeded(g) == ignoreAlarm
AlarmSilenced(g) == [ignoreAlarm EXCEPT ![g] = TRUE]
AlarmWhileTerminable == terminable[call]
AlarmActive == ~ignoreAlarm[call]

Init ==
    /\ pc = "host"
    /\ state = "Ready"
    /\ ctx = "enter"
    /\ failed = FALSE
    /\ current = FALSE
    /\ handler \in BOOLEAN
    /\ alarm = FALSE
    /\ call = 0
    /\ terminable = [g \in Calls |-> TRUE]
    /\ domain = [g \in Calls |-> "Pending"]
    /\ domainLock = [g \in Calls |-> Unlocked]
    /\ threadId = [g \in Calls |-> FALSE]
    /\ ignoreAlarm = [g \in Calls |-> FALSE]
    /\ kpc = [s \in Switches |-> "idle"]
    /\ target = [s \in Switches |-> NoCall]
    /\ result = [s \in Switches |-> NoResult]
    /\ crash = NoCrash

-----------------------------------------------------------------------------
(* Embedder code on the host thread.                                       *)

\* Entering swap_and_return: the instance is marked Running, then
\* with_current_instance either claims the thread or, when another instance
\* already runs on it, fails.
SwapIn(from) ==
    /\ ctx' = from
    /\ current' = TRUE
    /\ state' = "Running"
    /\ pc' = "schedule"
    /\ UNCHANGED <<failed, handler, call, alarm, killStateVars, switchVars, crash>>

\* The error path of swap_and_return: with_current_instance refused.  The
\* state is set back to Ready because it is still Running.
SwapRefused(from) ==
    /\ SetupFails
    /\ ctx' = from
    /\ state' = "Ready"
    /\ UNCHANGED <<pc, failed, current, handler, call, alarm, killStateVars,
                   switchVars, crash>>

\* Instance::run and run_func: the instance must be ready or have faulted
\* without being fatally faulted.
Run ==
    /\ pc = "host"
    /\ call < MaxCalls
    /\ state \in {"Ready", "Faulted"}
    /\ SwapIn("enter") \/ SwapRefused("enter")

\* Instance::resume, resume_with_val and resume_bounded: re-enter the
\* hostcall that yielded.
Resume ==
    /\ pc = "host"
    /\ call < MaxCalls
    /\ state \in {"Yielded", "BoundExpired"}
    /\ SwapIn(ctx) \/ SwapRefused(ctx)

ResetInPlace ==
    /\ pc = "host"
    /\ state' = "Ready"
    /\ terminable' = [terminable EXCEPT ![call] = TRUE]
    /\ domain' = [domain EXCEPT ![call] = "Pending"]
    /\ UNCHANGED <<pc, ctx, failed, current, handler, call, alarm, domainLock,
                   threadId, ignoreAlarm, switchVars, crash>>

\* Instance::reset: a fresh KillState, whatever the instance was doing.
Reset ==
    /\ pc = "host"
    /\ call < MaxCalls
    /\ state' = "Ready"
    /\ call' = call + 1
    /\ UNCHANGED <<pc, ctx, failed, current, handler, alarm, killStateVars,
                   switchVars, crash>>

\* Instance::kill_switch: a new KillSwitch for the current KillState, handed
\* to thread s.
TakeKillSwitch(s) ==
    /\ pc = "host"
    /\ kpc[s] = "idle"
    /\ target' = [target EXCEPT ![s] = call]
    /\ result' = [result EXCEPT ![s] = NoResult]
    /\ UNCHANGED <<hostVars, alarm, killStateVars, kpc, crash>>

-----------------------------------------------------------------------------
(* Entering the guest.                                                     *)

\* The host thread moves on.
Goto(from, to) == pc = from /\ pc' = to

\* tid_change_notifier.notify_all()
NotifyNobody == UNCHANGED kpc
NotifyAll ==
    kpc' = [s \in Switches |->
              IF kpc[s] = "wait" /\ target[s] = call THEN "woken" ELSE kpc[s]]

\* KillState::schedule
Schedule ==
    /\ Goto("schedule", "signals_on")
    /\ threadId' = [threadId EXCEPT ![call] = TRUE]
    /\ NotifyAll
    /\ UNCHANGED <<state, ctx, failed, current, handler, call, alarm, terminable,
                   domain, domainLock, ignoreAlarm, target, result, crash>>

\* The prologue of with_signals_on: install the handlers and swap to the
\* guest context.
SignalsOn ==
    /\ Goto("signals_on", ctx)
    /\ handler' = TRUE
    /\ UNCHANGED <<state, ctx, failed, current, call, alarm, killStateVars,
                   switchVars, crash>>

\* with_signals_on fails before it installs anything (validate_sigstack_size)
\* and with_current_instance goes straight to deschedule.
SignalsRefused ==
    /\ SetupFails
    /\ Goto("signals_on", "unset_tid")
    /\ failed' = TRUE
    /\ UNCHANGED <<state, ctx, current, handler, call, alarm, killStateVars,
                   switchVars, crash>>

\* The domains in which enter_guest_region goes on into the guest, and in which
\* it swaps back to the host.
EnterableLoose == {"Pending", "Cancelled"}
Enterable == {"Pending"}

\* execution::enter_guest_region.
EnterGuestRegion ==
    /\ pc = "enter"
    /\ DomainFree
    /\ \/ /\ domain[call] \in Enterable
          /\ domain' = [domain EXCEPT ![call] = "Guest"]
          /\ pc' = "guest"
          /\ UNCHANGED <<state, crash>>
       \/ /\ domain[call] = "Cancelled"
          /\ state' = "Terminating"
          /\ pc' = "signals_off"
          /\ UNCHANGED <<domain, crash>>
       \/ /\ domain[call] \notin {"Pending", "Cancelled"}
          /\ crash' = "enter_domain"
          /\ UNCHANGED <<domain, pc, state>>
    /\ UNCHANGED <<ctx, failed, current, handler, call, alarm, terminable,
                   domainLock, threadId, ignoreAlarm, switchVars>>

-----------------------------------------------------------------------------
(* Guest code and hostcalls.                                               *)

\* The guest calls an imported function, or its entrypoint returns to
\* lucet_context_backstop.
GuestStep ==
    /\ Goto("guest", "begin") \/ Goto("guest", "exit")
    /\ UNCHANGED <<state, ctx, failed, current, handler, call, alarm,
                   killStateVars, switchVars, crash>>

\* KillState::begin_hostcall.
BeginHostcall ==
    /\ pc = "begin"
    /\ DomainFree
    /\ IF domain[call] = "Guest"
       THEN /\ domain' = [domain EXCEPT ![call] = "Hostcall"]
            /\ pc' = "hostcall"
            /\ UNCHANGED crash
       ELSE /\ crash' = "begin_domain"
            /\ UNCHANGED <<domain, pc>>
    /\ UNCHANGED <<state, ctx, failed, current, handler, call, alarm,
                   terminable, domainLock, threadId, ignoreAlarm, switchVars>>

\* The body of a hostcall: it returns, it yields (Vmctx::yield_impl, for a
\* value or because the instruction bound expired), or it panics and the
\* hostcall wrapper terminates the instance.
HostcallBody ==
    /\ pc = "hostcall"
    /\ \/ /\ pc' = "end"
          /\ UNCHANGED <<state, ctx>>
       \/ /\ state' \in {"Yielding", "BoundExpired"}
          /\ ctx' = "hostcall"
          /\ pc' = "signals_off"
       \/ /\ state' = "Terminating"
          /\ pc' = "signals_off"
          /\ UNCHANGED ctx
    /\ UNCHANGED <<failed, current, handler, call, alarm, killStateVars,
                   switchVars, crash>>

\* The domains in which end_hostcall hands control back to the guest.
ReturnableLoose == {"Hostcall", "Terminated"}
Returnable == {"Hostcall"}

\* KillState::end_hostcall and the end of Instance::uninterruptable.
EndHostcall ==
    /\ pc = "end"
    /\ DomainFree
    /\ \/ /\ domain[call] \in Returnable
          /\ domain' = [domain EXCEPT ![call] = "Guest"]
          /\ pc' = "guest"
          /\ UNCHANGED <<state, crash>>
       \/ /\ domain[call] = "Terminated"
          /\ state' = "Terminating"
          /\ pc' = "signals_off"
          /\ UNCHANGED <<domain, crash>>
       \/ /\ domain[call] \notin {"Hostcall", "Terminated"}
          /\ crash' = "end_domain"
          /\ UNCHANGED <<domain, pc, state>>
    /\ UNCHANGED <<ctx, failed, current, handler, call, alarm, terminable,
                   domainLock, threadId, ignoreAlarm, switchVars>>

\* execution::exit_guest_region: take `terminable`, or spin until the
\* SIGALRM that somebody else is about to send.
TakeTerminable ==
    /\ pc = "exit"
    /\ pc' = IF terminable[call] THEN "leave" ELSE "spin"
    /\ terminable' = TerminableTaken(call)
    /\ UNCHANGED <<state, ctx, failed, current, handler, call, alarm, domain,
                   domainLock, threadId, ignoreAlarm, switchVars, crash>>

\* execution::exit_guest_region, with `terminable` taken: the domain must be
\* Guest and the instance must hold the only strong reference.
LeaveGuestRegion ==
    /\ pc = "leave"
    /\ DomainFree
    /\ \/ /\ domain[call] = "Guest"
          /\ Holders(call) = {}
          /\ pc' = "signals_off"
          /\ UNCHANGED crash
       \/ /\ domain[call] = "Guest"
          /\ Holders(call) # {}
          /\ crash' = "strong_count"
          /\ UNCHANGED pc
       \/ /\ domain[call] # "Guest"
          /\ crash' = "exit_domain"
          /\ UNCHANGED pc
    /\ UNCHANGED <<state, ctx, failed, current, handler, call, alarm,
                   killStateVars, switchVars>>

-----------------------------------------------------------------------------
(* Signals on the host thread.                                             *)

\* handle_signal for a guest fault, up to the new state: SignalBehavior
\* Terminate or Default.  SIGALRM stays masked until the handler returns.
\* (Continue changes nothing.)
GuestFault ==
    /\ GuestFaults
    /\ Goto("guest", "handler")
    /\ state' \in {"Terminating", "Faulted"}
    /\ UNCHANGED <<ctx, failed, current, handler, call, alarm, killStateVars,
                   switchVars, crash>>

\* handle_signal after the state is set: disable termination, and when a
\* switch has already done that, have its alarm ignored.  Returning from the
\* handler resumes the host context.
DisableTermination ==
    /\ pc = "handler"
    /\ terminable' = TerminableTaken(call)
    /\ IF terminable[call]
       THEN /\ pc' = "signals_off"
            /\ UNCHANGED <<ignoreAlarm, crash>>
       ELSE /\ ignoreAlarm' = AlarmSilenced(call)
            /\ IF ignoreAlarm[call]
               THEN crash' = "silenced_twice" /\ UNCHANGED pc
               ELSE pc' = "signals_off" /\ UNCHANGED crash
    /\ UNCHANGED <<state, ctx, failed, current, handler, call, alarm, domain,
                   domainLock, threadId, switchVars>>

\* handle_signal for SIGALRM.  Without Lucet's handler, or without a current
\* instance, the alarm goes to the host's disposition, which by default kills
\* the process.  An alarm that is not ignored jumps to the host context from
\* wherever the thread is.
TakeAlarm ==
    /\ alarm
    /\ pc # "handler"
    /\ alarm' = FALSE
    /\ \/ /\ handler /\ current
          /\ AlarmActive
          /\ state' = "Terminating"
          /\ pc' = "signals_off"
          /\ UNCHANGED crash
       \/ /\ handler /\ current
          /\ ~AlarmActive
          /\ UNCHANGED <<state, pc, crash>>
       \/ /\ ~(handler /\ current)
          /\ crash' = "host_alarm"
          /\ UNCHANGED <<state, pc>>
    /\ UNCHANGED <<ctx, failed, current, handler, call, killStateVars, switchVars>>

-----------------------------------------------------------------------------
(* Back in the host context.  The kernel interrupts the thread with a      *)
(* pending SIGALRM before the thread gets past its next system call or     *)
(* contended lock, so these steps wait for ~alarm.                         *)

\* The epilogue of with_signals_on.  The handler stays if another instance runs,
\* or if install_lucet_signal_handler was called.
SignalsOff ==
    /\ ~alarm
    /\ Goto("signals_off", "unset_tid")
    /\ handler' \in BOOLEAN
    /\ UNCHANGED <<state, ctx, failed, current, call, alarm, killStateVars,
                   switchVars, crash>>

\* KillState::deschedule, first the thread id ...
UnsetThreadId ==
    /\ ~alarm
    /\ Goto("unset_tid", "notify")
    /\ threadId' = [threadId EXCEPT ![call] = FALSE]
    /\ UNCHANGED <<state, ctx, failed, current, handler, call, alarm,
                   terminable, domain, domainLock, ignoreAlarm, switchVars, crash>>

\* ... then the switch that waits for it ...
NotifyDescheduled ==
    /\ ~alarm
    /\ Goto("notify", "settle")
    /\ NotifyAll
    /\ UNCHANGED <<state, ctx, failed, current, handler, call, alarm,
                   killStateVars, target, result, crash>>

\* ... then the domain, which turns from Guest to Terminated.
SettleDomain ==
    /\ ~alarm
    /\ DomainFree
    /\ Goto("settle", "clear")
    /\ domain' = [domain EXCEPT ![call] = IF @ = "Guest" THEN "Terminated" ELSE @]
    /\ UNCHANGED <<state, ctx, failed, current, handler, call, alarm,
                   terminable, domainLock, threadId, ignoreAlarm, switchVars, crash>>

\* The end of with_current_instance.
ClearCurrentInstance ==
    /\ ~alarm
    /\ Goto("clear", "finish")
    /\ current' = FALSE
    /\ UNCHANGED <<state, ctx, failed, handler, call, alarm, killStateVars,
                   switchVars, crash>>

\* What swap_and_return leaves in Instance.state.
RestingState(st) ==
    CASE st = "Running" -> "Ready"
      [] st = "Terminating" -> "Terminated"
      [] st = "Yielding" -> "Yielded"
      [] OTHER -> st

\* The states in which swap_and_return keeps the KillState.
UnfinishedOrFaulted == {"Yielding", "BoundExpired", "Faulted"}
Unfinished == {"Yielding", "BoundExpired"}

\* The end of swap_and_return.  A call that is over gets a fresh KillState;
\* one that yielded keeps it; an error keeps it too.
Finish ==
    /\ ~alarm
    /\ Goto("finish", "host")
    /\ state' = RestingState(state)
    /\ call' = IF failed \/ state \in Unfinished
               THEN call ELSE call + 1
    /\ failed' = FALSE
    /\ UNCHANGED <<ctx, current, handler, alarm, killStateVars, switchVars, crash>>

-----------------------------------------------------------------------------
(* KillSwitch::terminate on thread s.                                      *)

Return(s, r) ==
    /\ kpc' = [kpc EXCEPT ![s] = "return"]
    /\ result' = [result EXCEPT ![s] = r]

\* state.upgrade()
Upgrade(s) ==
    /\ kpc[s] = "idle"
    /\ target[s] # NoCall
    /\ IF Alive(target[s])
       THEN /\ kpc' = [kpc EXCEPT ![s] = "swap"]
            /\ result' = [result EXCEPT ![s] = NoResult]
       ELSE /\ result' = [result EXCEPT ![s] = "Invalid"]
            /\ UNCHANGED kpc
    /\ UNCHANGED <<hostVars, alarm, killStateVars, target, crash>>

\* terminable.swap(false)
SwapTerminable(s) ==
    /\ kpc[s] = "swap"
    /\ IF terminable[target[s]]
       THEN /\ kpc' = [kpc EXCEPT ![s] = "lock"]
            /\ UNCHANGED result
       ELSE Return(s, "NotTerminable")
    /\ terminable' = TerminableTaken(target[s])
    /\ UNCHANGED <<hostVars, alarm, domain, domainLock, threadId, ignoreAlarm,
                   target, crash>>

\* execution_domain.lock() and the match on the domain.  In every domain but
\* Guest the outcome is known at once and the lock is released again.
LockDomain(s) ==
    LET g == target[s] IN
    /\ kpc[s] = "lock"
    /\ domainLock[g] = Unlocked
    /\ \/ /\ domain[g] = "Guest"
          /\ domainLock' = [domainLock EXCEPT ![g] = s]
          /\ kpc' = [kpc EXCEPT ![s] = "alarm"]
          /\ UNCHANGED <<domain, result>>
       \/ /\ domain[g] = "Hostcall"
          /\ domain' = [domain EXCEPT ![g] = "Terminated"]
          /\ Return(s, "Pending")
          /\ UNCHANGED domainLock
       \/ /\ domain[g] = "Pending"
          /\ domain' = [domain EXCEPT ![g] = "Cancelled"]
          /\ Return(s, "Cancelled")
          /\ UNCHANGED domainLock
       \/ /\ domain[g] \in {"Cancelled", "Terminated"}
          /\ Return(s, "NotTerminable")
          /\ UNCHANGED <<domain, domainLock>>
    /\ UNCHANGED <<hostVars, alarm, terminable, threadId, ignoreAlarm, target, crash>>

\* With the domain locked in Guest: lock the thread id, send SIGALRM, and
\* wait on the condition variable, which releases the thread id again.
SendAlarm(s) ==
    /\ kpc[s] = "alarm"
    /\ IF threadId[target[s]]
       THEN /\ alarm' = TRUE
            /\ kpc' = [kpc EXCEPT ![s] = "wait"]
            /\ UNCHANGED crash
       ELSE /\ crash' = "not_running"
            /\ UNCHANGED <<alarm, kpc>>
    /\ UNCHANGED <<hostVars, killStateVars, target, result>>

\* Back from the condition variable: done when the thread id is None, and the
\* domain is released as Terminated.
Woken(s) ==
    LET g == target[s] IN
    /\ kpc[s] = "woken"
    /\ IF threadId[g]
       THEN /\ kpc' = [kpc EXCEPT ![s] = "wait"]
            /\ UNCHANGED <<domain, domainLock, result>>
       ELSE /\ domain' = [domain EXCEPT ![g] = "Terminated"]
            /\ domainLock' = [domainLock EXCEPT ![g] = Unlocked]
            /\ Return(s, "Signalled")
    /\ UNCHANGED <<hostVars, alarm, terminable, threadId, ignoreAlarm, target, crash>>

\* terminate returns, which drops the upgraded reference.
DropReference(s) ==
    /\ kpc[s] = "return"
    /\ kpc' = [kpc EXCEPT ![s] = "idle"]
    /\ UNCHANGED <<hostVars, alarm, killStateVars, target, result, crash>>

-----------------------------------------------------------------------------

Embedder ==
    Run \/ Resume \/ Reset \/ (\E s \in Switches : TakeKillSwitch(s))

\* What the guest and the hostcalls it makes may do, or never do.
Guest == GuestStep \/ HostcallBody \/ GuestFault

\* Runtime code on the host thread, which always gets on with it.
Runtime ==
    \/ Schedule \/ SignalsOn \/ SignalsRefused
    \/ EnterGuestRegion \/ BeginHostcall \/ EndHostcall
    \/ TakeTerminable \/ LeaveGuestRegion
    \/ DisableTermination \/ TakeAlarm
    \/ SignalsOff \/ UnsetThreadId \/ NotifyDescheduled \/ SettleDomain
    \/ ClearCurrentInstance \/ Finish

Terminate(s) ==
    \/ SwapTerminable(s) \/ LockDomain(s) \/ SendAlarm(s) \/ Woken(s)
    \/ DropReference(s)

\* The embedder may stop using the instance, and after a crash nothing
\* happens any more.
Stopped == (pc = "host" \/ crash # NoCrash) /\ UNCHANGED vars

Next ==
    \/ /\ crash = NoCrash
       /\ \/ Embedder
          \/ Guest
          \/ Runtime
          \/ \E s \in Switches : Upgrade(s) \/ Terminate(s)
    \/ Stopped

Spec == Init /\ [][Next]_vars

\* The scheduler runs the host thread's runtime code and a thread inside
\* terminate eventually.  Nothing is assumed of the embedder, of the guest,
\* of hostcalls, or of when terminate is called.
Fairness ==
    /\ WF_vars(crash = NoCrash /\ Runtime)
    /\ \A s \in Switches : WF_vars(crash = NoCrash /\ Terminate(s))

FairSpec == Spec /\ Fairness

-----------------------------------------------------------------------------
(* What makes remote termination correct.                                  *)

HostTypeOK ==
    /\ pc \in Pc
    /\ state \in State
    /\ ctx \in {"enter", "hostcall"}
    /\ failed \in BOOLEAN
    /\ current \in BOOLEAN
    /\ handler \in BOOLEAN
    /\ alarm \in BOOLEAN
    /\ call \in Calls
    /\ crash \in Crash \cup {NoCrash}

KillStateTypeOK ==
    /\ terminable \in [Calls -> BOOLEAN]
    /\ domain \in [Calls -> Domain]
    /\ domainLock \in [Calls -> Switches \cup {Unlocked}]
    /\ threadId \in [Calls -> BOOLEAN]
    /\ ignoreAlarm \in [Calls -> BOOLEAN]

SwitchTypeOK ==
    /\ kpc \in [Switches -> Upgraded \cup {"idle"}]
    /\ target \in [Switches -> Calls \cup {NoCall}]
    /\ result \in [Switches -> KillSuccess \cup KillError \cup {NoResult}]

\* Every variable has its type: the host thread's, the KillStates', the switches'.
TypeOK == HostTypeOK /\ KillStateTypeOK /\ SwitchTypeOK

\* A SIGALRM that would act (handle_signal does not ignore it) finds the thread
\* in guest code of the very call its sender aimed at: it never interrupts a
\* hostcall, the embedder, the teardown of a call or a later call.  One that is
\* ignored arrives before deschedule, while CURRENT_INSTANCE is still set.
AlarmOnlyInGuest ==
    alarm =>
        /\ current
        /\ \E s \in Switches : kpc[s] = "wait" /\ target[s] = call
        /\ IF ignoreAlarm[call]
           THEN pc \in {"signals_off", "unset_tid"}
           ELSE pc \in {"guest", "begin", "exit", "spin", "handler"}

\* Some switch was told that it terminated the current call.
Killed == \E s \in Switches : result[s] \in KillSuccess /\ target[s] = call

\* Once terminate has returned Ok for a call, that call executes no more guest
\* code, and it does not end as if the guest had returned normally
\* (enter_guest_region, end_hostcall and the domain lock see to it).
KilledStaysKilled ==
    Killed => /\ pc \notin GuestPc
              /\ pc \in TailPc /\ ~failed => state # "Running"

\* Of the switches on one KillState at most one is told that it succeeded
\* (`terminable` is taken once).
OneWinner ==
    \A s, t \in Switches :
        /\ result[s] \in KillSuccess /\ result[t] \in KillSuccess
        /\ target[s] = target[t]
        => s = t

\* While terminate is deciding how to stop a guest, or waits for it to stop,
\* the guest neither enters a hostcall nor is replaced by a later call: the
\* lock on execution_domain pins both the call and its domain.
LockPinsDomain ==
    \A g \in Calls :
        domainLock[g] # Unlocked => g = call /\ domain[g] = "Guest"

\* None of the "Invalid state" panics of enter_guest_region, begin_hostcall,
\* end_hostcall and exit_guest_region is reachable, nor the assertion of
\* handle_signal that an alarm is silenced at most once.
NoInvalidState ==
    crash \notin {"enter_domain", "begin_domain", "end_domain", "exit_domain",
                  "silenced_twice"}

\* The assertion of exit_guest_region: a guest that took `terminable` holds the
\* only strong reference to its KillState, no KillSwitch having upgraded its own.
SoleReferenceAtExit == crash # "strong_count"

\* The "logic error" branch of KillSwitch::terminate, a Guest domain without a
\* thread to signal, is never taken.  It is taken: README.md, Disagreements.
SwitchFindsThread == crash # "not_running"

\* A switch that fires finds the thread it must signal, and its SIGALRM finds
\* Lucet's handler and not the one the host had before, unless handle_signal has
\* silenced the alarm because the guest faulted as well.
FiringFindsGuest ==
    ~ignoreAlarm[call] => crash \notin {"not_running", "host_alarm"}

NoRevivalStep ==
    \A g \in Calls :
        /\ ~terminable[g] => ~terminable'[g]
        /\ domain[g] \in {"Terminated", "Cancelled"} => domain'[g] = domain[g]

\* A KillState, once taken by a switch, by the exiting guest or by a fault, is
\* never terminable again, and the Terminated and Cancelled domains are final.
NoRevival == [][NoRevivalStep]_vars

\* terminate always returns: it never waits forever for the domain lock or for
\* the guest to be descheduled.
TerminateReturns ==
    \A s \in Switches : kpc[s] # "idle" ~> kpc[s] = "idle" \/ crash # NoCrash

\* A guest that spins in exit_guest_region because somebody else holds
\* `terminable` is always rescued by the alarm, and the call returns.
SpinEnds == pc = "spin" ~> pc = "host" \/ crash # NoCrash

\* A guest that was sent a SIGALRM leaves the guest, even one that loops forever.
SignalledGuestStops ==
    (\E s \in Switches : kpc[s] = "wait") ~> pc = "host" \/ crash # NoCrash

-----------------------------------------------------------------------------
(* The calls into the instance keep the contract of TerminationContract.   *)

\* The guest has returned and the call is being torn down.
Returned == pc \in TailPc /\ state = "Running"

Phase ==
    CASE pc \in GuestPc -> "guest"
      [] pc \in {"hostcall", "end"} -> "hostcall"
      [] pc \in TailPc /\ state \in {"Terminating", "Faulted"} -> "stopping"
      [] state \in {"Yielding", "Yielded", "BoundExpired"} -> "suspended"
      [] pc \in {"schedule", "signals_on"} /\ ctx = "hostcall" -> "suspended"
      [] OTHER -> "rest"

\* A switch holds the lock on a Guest domain, or the domain says that the call
\* was stopped; deschedule's Terminated mark on a call that returned says less.
Doomed ==
    /\ ~Returned
    /\ \/ domainLock[call] # Unlocked
       \/ domain[call] \in {"Terminated", "Cancelled"}

Contract == INSTANCE TerminationContract WITH phase <- Phase, doomed <- Doomed

\* Every run of the instance keeps the contract: a call that a switch decided to
\* stop is never started, resumed into the guest or reported as returned.
KeepsContract == Contract!Spec
=============================================================================
