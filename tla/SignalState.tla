---------------------------- MODULE SignalState ----------------------------
(***************************************************************************)
(* The process-wide signal state: threads run instances with signals on,   *)
(* the first of them installs Lucet's handlers and panic hook and the last *)
(* restores the host's, an embedder may install and remove them by hand,   *)
(* and threads that run no instance get signals that have to be passed on  *)
(* to the host.                                                            *)
(*                                                                         *)
(* A signal hits a thread in its own code or in the guest, never inside    *)
(* the runtime: the comment on handle_signal assumes as much.  What the    *)
(* handler does for a guest is in KillSwitch and Lifecycle.  The system    *)
(* calls for the signals are separate steps: any thread's signal may come  *)
(* between them.  A definition that directly precedes one of nearly the    *)
(* same name and is used nowhere is that definition with a slip in it.     *)
(*                                                                         *)
(* Source: lucet-runtime-internals/src/instance/signals.rs                 *)
(***************************************************************************)
EXTENDS Naturals, FiniteSets

CONSTANTS
    Threads,     \* the threads of the process
    NSignals     \* how many signals have a handler: SIGBUS, SIGFPE, SIGILL, ...

Signals == 1 .. NSignals

None == "none"
Lucet == "lucet"
Host == "host"

ASSUME SignalAssumption == NSignals \in Nat \ {0} /\ IsFiniteSet(Threads)
ASSUME ThreadsAssumption == None \notin Threads

VARIABLES
    action,      \* the kernel's disposition of each signal
    hook,        \* the panic hook
    counter,     \* SignalState::counter, 0 when LUCET_SIGNAL_STATE is None
    saved,       \* the dispositions in the SignalState
    lock,        \* who holds LUCET_SIGNAL_STATE
    manual,      \* SIGNAL_HANDLER_MANUALLY_INSTALLED, ...
    manualLock,  \* ... and who holds it
    thread,      \* what each thread is doing
    altstack,    \* each thread's alternate signal stack
    hostAction,  \* the host's disposition: default, ignored or a function
    dead         \* has a default disposition ended the process?

vars == <<action, hook, counter, saved, lock, manual, manualLock, thread, altstack,
          hostAction, dead>>

\* A thread: where it is, the flags of the instance that it runs, how many signals of
\* the present installation or restoration are done, the signal it handles, and
\* whether the host has seen that one.
AtHost == [at |-> "host", ensure |-> FALSE, stack |-> FALSE, done |-> 0, sig |-> 0, seen |-> FALSE]

Init ==
    /\ action = [g \in Signals |-> Host]
    /\ hook = Host
    /\ counter = 0
    /\ saved = [g \in Signals |-> None]
    /\ lock = None
    /\ manual = FALSE
    /\ manualLock = None
    /\ thread = [t \in Threads |-> AtHost]
    /\ altstack = [t \in Threads |-> Host]
    /\ hostAction \in {"SigDfl", "SigIgn", "Handler"}
    /\ dead = FALSE

-----------------------------------------------------------------------------

At(t, at) == ~dead /\ thread[t].at = at
Become(t, th) == thread' = [thread EXCEPT ![t] = th]
Goto(t, at) == Become(t, [thread[t] EXCEPT !.at = at])

\* with_signals_on, up to the signal state: the instance's own signal stack goes in.
\* An instance that does not install the handlers needs them to be installed by hand,
\* as the comment on install_lucet_signal_handler has it.
Enter(t, ensure, stack) ==
    /\ At(t, "host")
    /\ ensure \/ (manual /\ manualLock = None)
    /\ altstack' = [altstack EXCEPT ![t] = IF stack THEN t ELSE @]
    /\ Become(t, [AtHost EXCEPT !.at = IF ensure THEN "increment" ELSE "guest",
                                !.ensure = ensure, !.stack = stack])
    /\ UNCHANGED <<action, hook, counter, saved, lock, manual, manualLock, hostAction, dead>>

\* The first steps of install_lucet_signal_handler and remove_lucet_signal_handler:
\* the outer lock.  An embedder that keeps to the comment above does not remove the
\* handlers under an instance that relies on them.  A call too many does nothing.
Install(t) ==
    /\ At(t, "host") /\ manualLock = None
    /\ \/ manual /\ UNCHANGED <<manualLock, thread>>
       \/ /\ ~manual
          /\ manualLock' = t
          /\ Goto(t, "increment")
    /\ UNCHANGED <<action, hook, counter, saved, lock, manual, altstack, hostAction, dead>>

Remove(t) ==
    /\ At(t, "host") /\ manualLock = None
    /\ \/ ~manual /\ UNCHANGED <<manualLock, thread>>
       \/ /\ manual
          /\ \A u \in Threads : thread[u].at # "host" => thread[u].ensure \/ thread[u].sig # 0
          /\ manualLock' = t
          /\ Goto(t, "decrement")
    /\ UNCHANGED <<action, hook, counter, saved, lock, manual, altstack, hostAction, dead>>

\* What follows a change of the count, when its lock is released.
AfterIncrement(t) ==
    /\ lock' = None
    /\ IF manualLock = t THEN manual' = TRUE /\ manualLock' = None /\ Become(t, AtHost)
       ELSE Goto(t, "guest") /\ UNCHANGED <<manual, manualLock>>

AfterDecrement(t) ==
    /\ lock' = None
    /\ IF manualLock = t THEN manual' = FALSE /\ manualLock' = None /\ Become(t, AtHost)
       ELSE Goto(t, "unstack") /\ UNCHANGED <<manual, manualLock>>

\* increment_lucet_signal_state, and the first instance's setup_guest_signal_state.
First(n) == n = 0

Increment(t) ==
    /\ At(t, "increment") /\ lock = None
    /\ \/ /\ ~First(counter)
          /\ counter' = counter + 1
          /\ AfterIncrement(t)
       \/ /\ First(counter)
          /\ lock' = t
          /\ Become(t, [thread[t] EXCEPT !.at = "install", !.done = 0])
          /\ UNCHANGED <<counter, manual, manualLock>>
    /\ UNCHANGED <<action, hook, saved, altstack, hostAction, dead>>

Setup(t) ==
    /\ At(t, "install")
    /\ \/ LET g == thread[t].done + 1 IN
          /\ thread[t].done < NSignals
          /\ saved' = [saved EXCEPT ![g] = action[g]]
          /\ action' = [action EXCEPT ![g] = Lucet]
          /\ Become(t, [thread[t] EXCEPT !.done = g])
          /\ UNCHANGED <<hook, counter, lock, manual, manualLock>>
       \/ /\ thread[t].done = NSignals
          /\ hook' = Lucet
          /\ counter' = 1
          /\ AfterIncrement(t)
          /\ UNCHANGED <<action, saved>>
    /\ UNCHANGED <<altstack, hostAction, dead>>

\* The guest returns to with_signals_on.
Leave(t) ==
    /\ At(t, "guest")
    /\ Goto(t, IF thread[t].ensure THEN "decrement" ELSE "unstack")
    /\ UNCHANGED <<action, hook, counter, saved, lock, manual, manualLock, altstack,
                   hostAction, dead>>

\* decrement_lucet_signal_state, and the last one's restore_host_signal_state.
LastEarly(n) == n <= 2
Last(n) == n = 1

Decrement(t) ==
    /\ At(t, "decrement") /\ lock = None
    /\ counter' = counter - 1
    /\ IF Last(counter) THEN /\ lock' = t
                             /\ Become(t, [thread[t] EXCEPT !.at = "restore", !.done = 0])
                             /\ UNCHANGED <<manual, manualLock>>
                        ELSE AfterDecrement(t)
    /\ UNCHANGED <<action, hook, saved, altstack, hostAction, dead>>

\* The signals that restore_host_signal_state restores.
RestoredAllButOne == 1 .. NSignals - 1
Restored == Signals

Restore(t) ==
    /\ At(t, "restore")
    /\ \/ LET g == thread[t].done + 1 IN
          /\ g \in Signals
          /\ action' = IF g \in Restored THEN [action EXCEPT ![g] = saved[g]] ELSE action
          /\ Become(t, [thread[t] EXCEPT !.done = g])
          /\ UNCHANGED <<hook, saved, lock, manual, manualLock>>
       \/ /\ thread[t].done = NSignals
          /\ hook' = Host
          /\ saved' = [g \in Signals |-> None]
          /\ AfterDecrement(t)
          /\ UNCHANGED action
    /\ UNCHANGED <<counter, altstack, hostAction, dead>>

\* The end of with_signals_on: the thread's previous signal stack comes back.
StackRestored(t) == IF thread[t].stack THEN Host ELSE altstack[t]

Unstack(t) ==
    /\ At(t, "unstack")
    /\ altstack' = [altstack EXCEPT ![t] = StackRestored(t)]
    /\ Become(t, AtHost)
    /\ UNCHANGED <<action, hook, counter, saved, lock, manual, manualLock, hostAction, dead>>

-----------------------------------------------------------------------------
(* A signal for a thread that runs no instance.                            *)

\* What the kernel does with a signal for thread t.
Deliver(t, g) ==
    IF action[g] = Lucet
    THEN Become(t, [AtHost EXCEPT !.at = "handler", !.sig = g]) /\ UNCHANGED dead
    ELSE /\ dead' = (hostAction = "SigDfl")
         /\ Become(t, [AtHost EXCEPT !.at = "answered", !.sig = g, !.seen = TRUE])

Signalled(t, g) ==
    /\ At(t, "host")
    /\ Deliver(t, g)
    /\ UNCHANGED <<action, hook, counter, saved, lock, manual, manualLock, altstack, hostAction>>

\* reraise_host_signal_in_handler, as far as the saved disposition.  If the last
\* instance has restored the host's by now, the lock is kept: the guard is a temporary
\* of the `if let`, and lives to the end of its `else`.
KeptToTheEnd(t) == t

ReraisesNever == FALSE
Reraises == counter = 0

Reraise(t) ==
    /\ At(t, "handler") /\ lock = None
    /\ \/ Reraises /\ lock' = KeptToTheEnd(t) /\ Goto(t, "raise")
       \/ /\ ~Reraises
          /\ Become(t, [thread[t] EXCEPT
                !.at = IF saved[thread[t].sig] = Host /\ hostAction = "SigDfl" THEN "default"
                       ELSE "answered",
                !.seen = (saved[thread[t].sig] = Host)])
          /\ UNCHANGED lock
    /\ UNCHANGED <<action, hook, counter, saved, manual, manualLock, altstack, hostAction, dead>>

\* The signal is raised again, with whatever handler is there by then.
Raise(t) ==
    /\ At(t, "raise")
    /\ Deliver(t, thread[t].sig)
    /\ UNCHANGED <<action, hook, counter, saved, lock, manual, manualLock, altstack, hostAction>>

\* The default disposition is put back, and the signal raised: the process ends.
DefaultIgnored(t) == UNCHANGED <<action, dead>>
Default(t) == action' = [action EXCEPT ![thread[t].sig] = Host] /\ dead' = TRUE

RaiseDefault(t) ==
    /\ At(t, "default")
    /\ Default(t)
    /\ Goto(t, "answered")
    /\ UNCHANGED <<hook, counter, saved, lock, manual, manualLock, altstack, hostAction>>

\* The handler returns.
ReleasedNot(t) == lock
Released(t) == IF lock = t THEN None ELSE lock

HandlerReturns(t) ==
    /\ At(t, "answered")
    /\ lock' = Released(t)
    /\ Become(t, AtHost)
    /\ UNCHANGED <<action, hook, counter, saved, manual, manualLock, altstack, hostAction, dead>>

-----------------------------------------------------------------------------

\* A thread's next step in the runtime, once it is there.
Runtime(t) ==
    \/ Increment(t) \/ Setup(t) \/ Decrement(t) \/ Restore(t) \/ Unstack(t)
    \/ Reraise(t) \/ Raise(t) \/ RaiseDefault(t) \/ HandlerReturns(t)

Next ==
    \E t \in Threads :
        \/ \E ensure, stack \in BOOLEAN : Enter(t, ensure, stack)
        \/ Install(t) \/ Remove(t) \/ Leave(t) \/ Runtime(t)
        \/ \E g \in Signals : Signalled(t, g)

Spec == Init /\ [][Next]_vars

\* The scheduler runs every thread that is in the runtime and can go on.
FairSpec == Spec /\ \A t \in Threads : WF_vars(Runtime(t))

-----------------------------------------------------------------------------

\* A guest runs with all of Lucet's handlers and with its panic hook, however the runs,
\* the installations by hand and the removals of other threads interleave; and, where
\* the instance asks for one, on its own signal stack.
GuestIsCovered ==
    \A t \in Threads : thread[t].at = "guest" /\ ~dead =>
        /\ \A g \in Signals : action[g] = Lucet
        /\ hook = Lucet
        /\ thread[t].stack => altstack[t] = t

\* What the runtime saves is the host's handlers, never its own, or passing a signal on
\* would come back to handle_signal for ever; once nobody uses the signal state, the host
\* has its handlers and hook back; and a thread outside of the runtime has its own signal
\* stack.
HostIsRestored ==
    /\ \A g \in Signals : counter > 0 => saved[g] = Host
    /\ counter = 0 /\ lock = None => hook = Host /\ \A g \in Signals : action[g] = Host
    /\ \A t \in Threads : thread[t].at = "host" => altstack[t] = Host

\* A signal that Lucet's handler caught on a host thread is not dropped, even if the
\* handlers are being restored or installed under it: the host has seen it when the
\* handler returns.  And a signal that is raised again does not come back to
\* handle_signal ("we shouldn't end up back here if we reraise"), where the thread would
\* wait for a lock that it holds.
SignalsReachHost ==
    [][\A t \in Threads :
          /\ thread[t].sig # 0 /\ thread'[t].sig = 0 => thread[t].seen
          /\ thread[t].at = "raise" => thread'[t].at # "handler"]_vars

\* The lock is never kept: no critical section waits for anything, so a handler that
\* needs the lock in a signal can wait for it.
LockIsReleased == \A t \in Threads : lock = t ~> lock # t \/ dead
=============================================================================
