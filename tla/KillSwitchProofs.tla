-------------------------- MODULE KillSwitchProofs --------------------------
(***************************************************************************)
(* Theorems about KillSwitch, for any set of switches and any number of    *)
(* calls, with or without guest faults and failing set-ups.                *)
(***************************************************************************)
EXTENDS KillSwitch, TLAPS

-----------------------------------------------------------------------------
(* The inductive invariant.                                                *)

\* Threads in KillSwitch::terminate that took `terminable`, and those of them
\* that hold the domain lock.
Holding == {"alarm", "wait", "woken"}
Firing == Holding \cup {"lock"}

\* Where the thread id of the current KillState is set.
RunningPc == GuestPc \cup {"signals_on", "enter", "hostcall", "end",
                           "signals_off", "unset_tid"}

\* Host code that runs with the instance descheduled.
RestPc == {"host", "schedule", "signals_on", "enter", "clear", "finish"}

\* A switch inside terminate has a KillState, no newer than the instance's.
TargetInv ==
    \A s \in Switches :
        /\ kpc[s] # "idle" => target[s] # NoCall
        /\ target[s] # NoCall => target[s] <= call

\* The domain lock is held by the switch that says so, in domain Guest.
LockInv ==
    /\ \A s \in Switches : kpc[s] \in Holding => domainLock[target[s]] = s
    /\ \A g \in Calls : domainLock[g] # Unlocked =>
          /\ kpc[domainLock[g]] \in Holding
          /\ target[domainLock[g]] = g
          /\ domain[g] = "Guest"

\* At most one switch per KillState fires, having taken `terminable`.
FiringInv ==
    /\ \A s \in Switches : kpc[s] \in Firing => ~terminable[target[s]]
    /\ \A s, t \in Switches :
          kpc[s] \in Firing /\ kpc[t] \in Firing /\ target[s] = target[t] => s = t

\* KillStates to come are fresh, and those of calls that are over are inert.
OtherCallsInv ==
    \A g \in Calls :
        /\ g > call => /\ domain[g] = "Pending" /\ terminable[g]
                       /\ ~threadId[g] /\ ~ignoreAlarm[g]
        /\ g < call => domain[g] # "Guest"

\* What the domain says about where the host thread is.
DomainInv ==
    /\ pc \in GuestPc => domain[call] = "Guest"
    /\ pc \in {"hostcall", "end"} => domain[call] \in {"Hostcall", "Terminated"}
    /\ pc \in RestPc => domain[call] # "Guest"
    /\ threadId[call] <=> pc \in RunningPc
    /\ current <=> pc \notin {"host", "finish"}

\* Set-up errors occur before the guest runs; faults leave by `handler`.
TailInv ==
    /\ failed => /\ pc \in TailPc \ {"signals_off"}
                 /\ state = "Running"
                 /\ domain[call] # "Guest"
    /\ ignoreAlarm[call] => pc \in TailPc /\ state \in {"Terminating", "Faulted"}
    /\ pc \in (GuestPc \ {"handler"}) \cup {"hostcall", "end"} => state = "Running"
    /\ pc = "handler" => state \in {"Terminating", "Faulted"}
    /\ pc # "host" => call < MaxCalls

\* A guest that returns has `terminable`, and no switch fires at it; one that
\* spins is being fired at; a switch that still aims at a stopped guest has had
\* its alarm silenced.
ExitInv ==
    /\ pc = "leave" \/ (pc \in TailPc /\ state = "Running" /\ ~failed) =>
          /\ ~terminable[call]
          /\ \A s \in Switches : target[s] = call => kpc[s] \notin Firing
          /\ \A s \in Switches : target[s] = call => result[s] \notin KillSuccess
    /\ pc \in {"signals_off", "unset_tid"} /\ domain[call] = "Guest" =>
          /\ ~terminable[call]
          /\ \A s \in Switches : target[s] = call /\ kpc[s] \in {"lock", "alarm"} =>
                ignoreAlarm[call]

\* A pending alarm has its sender waiting, and has a guest or was silenced.
AlarmInv ==
    alarm => /\ \E s \in Switches : kpc[s] = "wait" /\ target[s] = call
             /\ pc \in GuestPc \cup {"signals_off", "unset_tid"}
             /\ pc \in {"signals_off", "unset_tid"} => ignoreAlarm[call]
             /\ pc # "leave"

\* A switch that succeeded has stopped its KillState for good, alone.
WinnerInv ==
    \A s \in Switches :
        result[s] \in KillSuccess =>
            /\ target[s] # NoCall
            /\ ~terminable[target[s]]
            /\ domain[target[s]] \in {"Terminated", "Cancelled"}
            /\ kpc[s] \in {"idle", "return"}
            /\ \A t \in Switches : target[t] = target[s] =>
                  /\ kpc[t] \notin Firing
                  /\ result[t] \in KillSuccess => t = s

\* The state of an instance at rest, and of one being set up or torn down; a
\* suspended call is inside its hostcall.
SuspendInv ==
    /\ pc = "host" => state \in {"Ready", "Faulted", "Terminated", "Yielded", "BoundExpired"}
    /\ pc \in {"schedule", "signals_on", "enter"} => state = "Running"
    /\ pc \in TailPc =>
          state \in {"Running", "Terminating", "Faulted", "Yielding", "BoundExpired"}
    /\ \/ state \in {"Yielding", "Yielded", "BoundExpired"}
       \/ pc \in {"schedule", "signals_on"} /\ ctx = "hostcall"
       => ctx = "hostcall" /\ domain[call] \in {"Hostcall", "Terminated"}

\* Without set-up errors a call that is about to start has a fresh KillState,
\* or one that was cancelled.
FreshInv ==
    ~SetupFails =>
        /\ ~failed
        /\ \/ pc = "host" /\ state \notin {"Yielded", "BoundExpired"}
           \/ pc \in {"schedule", "signals_on"} /\ ctx = "enter"
           \/ pc = "enter"
           => domain[call] \in {"Pending", "Cancelled"}

IndInv ==
    /\ TypeOK
    /\ TargetInv
    /\ LockInv
    /\ FiringInv
    /\ OtherCallsInv
    /\ DomainInv
    /\ TailInv
    /\ ExitInv
    /\ AlarmInv
    /\ WinnerInv
    /\ SuspendInv
    /\ FreshInv

-----------------------------------------------------------------------------
(* The step from one state to the next.                                    *)

USE MaxCallsAssumption, FlagsAssumption, SwitchesAssumption
USE DEF Calls, NoCall

\* The disjuncts of Next, one by one.
LEMMA NextCases ==
    ASSUME Next, vars' # vars
    PROVE  \/ Run \/ Resume \/ Reset \/ Guest \/ Runtime
           \/ \E s \in Switches : TakeKillSwitch(s) \/ Upgrade(s) \/ Terminate(s)
  BY DEF Next, Embedder, Stopped

\* Every step keeps the types.
LEMMA TypeStep ==
    ASSUME TypeOK, TargetInv, TailInv, Next
    PROVE  TypeOK'
  <1> USE DEF TypeOK, hostVars, killStateVars, switchVars
  <1> USE DEF HostTypeOK, Pc, GuestPc, TailPc, HostPc, State, Crash, NoCrash
  <1> USE DEF KillStateTypeOK, Domain
  <1> USE DEF SwitchTypeOK, KillSuccess, KillError, NoResult, Upgraded
  <1>1. CASE vars' = vars
    BY <1>1 DEF vars
  <1>2. ASSUME Run PROVE TypeOK'
    BY <1>2 DEF Run, SwapIn, SwapRefused
  <1>3. ASSUME Resume PROVE TypeOK'
    BY <1>3 DEF Resume, SwapIn, SwapRefused
  <1>4. ASSUME Reset PROVE TypeOK'
    BY <1>4 DEF Reset
  <1>5. ASSUME Schedule PROVE TypeOK'
    BY <1>5 DEF Schedule, Goto, NotifyAll
  <1>6. ASSUME SignalsOn PROVE TypeOK'
    BY <1>6 DEF SignalsOn, Goto
  <1>7. ASSUME SignalsRefused PROVE TypeOK'
    BY <1>7 DEF SignalsRefused, Goto
  <1>8. ASSUME EnterGuestRegion PROVE TypeOK'
    BY <1>8 DEF EnterGuestRegion, DomainFree, Enterable
  <1>9. ASSUME GuestStep PROVE TypeOK'
    BY <1>9 DEF GuestStep, Goto
  <1>10. ASSUME BeginHostcall PROVE TypeOK'
    BY <1>10 DEF BeginHostcall, DomainFree
  <1>11. ASSUME HostcallBody PROVE TypeOK'
    BY <1>11 DEF HostcallBody
  <1>12. ASSUME EndHostcall PROVE TypeOK'
    BY <1>12 DEF EndHostcall, DomainFree, Returnable
  <1>13. ASSUME TakeTerminable PROVE TypeOK'
    BY <1>13 DEF TakeTerminable, TerminableTaken
  <1>14. ASSUME LeaveGuestRegion PROVE TypeOK'
    BY <1>14 DEF LeaveGuestRegion, DomainFree, Holders
  <1>15. ASSUME GuestFault PROVE TypeOK'
    BY <1>15 DEF GuestFault, Goto
  <1>16. ASSUME DisableTermination PROVE TypeOK'
    <2> USE <1>16 DEF DisableTermination, TerminableTaken, AlarmSilenced
    <2>1. HostTypeOK'
      OBVIOUS
    <2>2. KillStateTypeOK'
      OBVIOUS
    <2>3. SwitchTypeOK'
      OBVIOUS
    <2> QED
      BY <2>1, <2>2, <2>3
  <1>17. ASSUME TakeAlarm PROVE TypeOK'
    <2> USE <1>17 DEF TakeAlarm, AlarmActive
    <2>1. HostTypeOK'
      <3>1. pc' \in Pc /\ state' \in State
        OBVIOUS
      <3>2. crash' \in Crash \cup {NoCrash}
        OBVIOUS
      <3>3. alarm' \in BOOLEAN /\ call' \in Calls
        OBVIOUS
      <3> QED
        BY <3>1, <3>2, <3>3
    <2>2. KillStateTypeOK'
      OBVIOUS
    <2>3. SwitchTypeOK'
      OBVIOUS
    <2> QED
      BY <2>1, <2>2, <2>3
  <1>18. ASSUME SignalsOff PROVE TypeOK'
    BY <1>18 DEF SignalsOff, Goto
  <1>19. ASSUME UnsetThreadId PROVE TypeOK'
    BY <1>19 DEF UnsetThreadId, Goto
  <1>20. ASSUME NotifyDescheduled PROVE TypeOK'
    BY <1>20 DEF NotifyDescheduled, Goto, NotifyAll
  <1>21. ASSUME SettleDomain PROVE TypeOK'
    BY <1>21 DEF SettleDomain, Goto, DomainFree
  <1>22. ASSUME ClearCurrentInstance PROVE TypeOK'
    BY <1>22 DEF ClearCurrentInstance, Goto
  <1>23. ASSUME Finish PROVE TypeOK'
    <2> USE <1>23 DEF Finish, Goto, RestingState, Unfinished, TailInv
    <2>1. HostTypeOK'
      <3>1. pc' \in Pc /\ state' \in State
        OBVIOUS
      <3>2. crash' \in Crash \cup {NoCrash}
        OBVIOUS
      <3>3. alarm' \in BOOLEAN /\ call' \in Calls
        OBVIOUS
      <3> QED
        BY <3>1, <3>2, <3>3
    <2>2. KillStateTypeOK'
      OBVIOUS
    <2>3. SwitchTypeOK'
      OBVIOUS
    <2> QED
      BY <2>1, <2>2, <2>3
  <1>24. ASSUME NEW s \in Switches, TakeKillSwitch(s) PROVE TypeOK'
    BY <1>24 DEF TakeKillSwitch, TargetInv
  <1>25. ASSUME NEW s \in Switches, Upgrade(s) PROVE TypeOK'
    <2> USE <1>25 DEF Upgrade, Alive, Holders, TargetInv
    <2>1. HostTypeOK'
      OBVIOUS
    <2>2. KillStateTypeOK'
      OBVIOUS
    <2>3. SwitchTypeOK'
      OBVIOUS
    <2> QED
      BY <2>1, <2>2, <2>3
  <1>26. ASSUME NEW s \in Switches, SwapTerminable(s) PROVE TypeOK'
    <2> USE <1>26 DEF SwapTerminable, Return, TerminableTaken, TargetInv
    <2>1. HostTypeOK'
      OBVIOUS
    <2>2. KillStateTypeOK'
      OBVIOUS
    <2>3. SwitchTypeOK'
      OBVIOUS
    <2> QED
      BY <2>1, <2>2, <2>3
  <1>27. ASSUME NEW s \in Switches, LockDomain(s) PROVE TypeOK'
    <2> USE <1>27 DEF LockDomain, Return, TargetInv
    <2>1. HostTypeOK'
      OBVIOUS
    <2>2. KillStateTypeOK'
      <3>1. CASE domain[target[s]] = "Guest"
        BY <3>1, SMTT(30)
      <3>2. CASE domain[target[s]] = "Hostcall"
        BY <3>2
      <3>3. CASE domain[target[s]] = "Pending"
        BY <3>3
      <3>4. CASE domain[target[s]] \in {"Cancelled", "Terminated"}
        BY <3>4
      <3> QED
        BY <3>1, <3>2, <3>3, <3>4
    <2>3. SwitchTypeOK'
      OBVIOUS
    <2> QED
      BY <2>1, <2>2, <2>3
  <1>28. ASSUME NEW s \in Switches, SendAlarm(s) PROVE TypeOK'
    <2> USE <1>28 DEF SendAlarm, TargetInv
    <2>1. HostTypeOK'
      <3>1. pc' \in Pc /\ state' \in State
        OBVIOUS
      <3>2. crash' \in Crash \cup {NoCrash}
        OBVIOUS
      <3>3. alarm' \in BOOLEAN /\ call' \in Calls
        OBVIOUS
      <3> QED
        BY <3>1, <3>2, <3>3
    <2>2. KillStateTypeOK'
      OBVIOUS
    <2>3. SwitchTypeOK'
      OBVIOUS
    <2> QED
      BY <2>1, <2>2, <2>3
  <1>29. ASSUME NEW s \in Switches, Woken(s) PROVE TypeOK'
    <2> USE <1>29 DEF Woken, Return, TargetInv
    <2>1. HostTypeOK'
      OBVIOUS
    <2>2. KillStateTypeOK'
      BY SMTT(30)
    <2>3. SwitchTypeOK'
      OBVIOUS
    <2> QED
      BY <2>1, <2>2, <2>3
  <1>30. ASSUME NEW s \in Switches, DropReference(s) PROVE TypeOK'
    BY <1>30 DEF DropReference, TargetInv
  <1> QED
    BY <1>1, <1>2, <1>3, <1>4, <1>5, <1>6, <1>7, <1>8, <1>9, <1>10, <1>11,
       <1>12, <1>13, <1>14, <1>15, <1>16, <1>17, <1>18, <1>19, <1>20, <1>21,
       <1>22, <1>23, <1>24, <1>25, <1>26, <1>27, <1>28, <1>29, <1>30, NextCases
       DEF Guest, Runtime, Terminate

\* Every step keeps the invariant.
LEMMA InvStep ==
    ASSUME IndInv, Next
    PROVE  IndInv'
  <1> USE DEF IndInv, hostVars, killStateVars, switchVars, Firing, Holding
  <1> USE DEF TypeOK, HostTypeOK, KillStateTypeOK, SwitchTypeOK
  <1> USE DEF Pc, GuestPc, TailPc, HostPc, RunningPc, RestPc, State, Domain
  <1> USE DEF KillSuccess, KillError, NoResult, Upgraded
  <1> TypeOK'
    BY TypeStep
  <1>1. CASE vars' = vars
    BY <1>1 DEF vars, TargetInv, LockInv, FiringInv, OtherCallsInv, DomainInv, TailInv,
                ExitInv, AlarmInv, WinnerInv, SuspendInv, FreshInv
  <1>2. ASSUME Run PROVE IndInv'
    <2> USE <1>2 DEF Run, SwapIn, SwapRefused
    <2>1. TargetInv' /\ LockInv' /\ FiringInv' /\ WinnerInv'
      BY DEF TargetInv, LockInv, DomainInv, FiringInv, OtherCallsInv,
         WinnerInv
    <2>2. OtherCallsInv' /\ DomainInv'
      BY DEF OtherCallsInv, DomainInv, TargetInv, LockInv
    <2>3. TailInv' /\ SuspendInv' /\ FreshInv'
      BY DEF TailInv, DomainInv, OtherCallsInv, LockInv, TargetInv,
         SuspendInv, FreshInv
    <2>4. ExitInv' /\ AlarmInv'
      BY DEF ExitInv, TailInv, DomainInv, OtherCallsInv, LockInv, TargetInv,
         FiringInv, AlarmInv, WinnerInv
    <2> QED
      BY <2>1, <2>2, <2>3, <2>4
  <1>3. ASSUME Resume PROVE IndInv'
    <2> USE <1>3 DEF Resume, SwapIn, SwapRefused
    <2>1. TargetInv' /\ LockInv' /\ FiringInv' /\ WinnerInv'
      BY DEF TargetInv, LockInv, DomainInv, FiringInv, OtherCallsInv,
         WinnerInv
    <2>2. OtherCallsInv' /\ DomainInv'
      BY DEF OtherCallsInv, DomainInv, TargetInv, LockInv
    <2>3. TailInv' /\ SuspendInv' /\ FreshInv'
      BY DEF TailInv, DomainInv, OtherCallsInv, LockInv, TargetInv,
         SuspendInv, FreshInv
    <2>4. ExitInv' /\ AlarmInv'
      BY DEF ExitInv, TailInv, DomainInv, OtherCallsInv, LockInv, TargetInv,
         FiringInv, AlarmInv, WinnerInv
    <2> QED
      BY <2>1, <2>2, <2>3, <2>4
  <1>4. ASSUME Reset PROVE IndInv'
    <2> USE <1>4 DEF Reset
    <2>1. TargetInv' /\ LockInv' /\ FiringInv' /\ WinnerInv'
      BY DEF TargetInv, LockInv, DomainInv, FiringInv, OtherCallsInv,
         WinnerInv
    <2>2. OtherCallsInv' /\ DomainInv'
      BY DEF OtherCallsInv, DomainInv, TargetInv, LockInv
    <2>3. TailInv' /\ SuspendInv' /\ FreshInv'
      BY DEF TailInv, DomainInv, OtherCallsInv, LockInv, TargetInv,
         SuspendInv, FreshInv
    <2>4. ExitInv' /\ AlarmInv'
      BY DEF ExitInv, TailInv, DomainInv, OtherCallsInv, LockInv, TargetInv,
         FiringInv, AlarmInv, WinnerInv
    <2> QED
      BY <2>1, <2>2, <2>3, <2>4
  <1>5. ASSUME Schedule PROVE IndInv'
    <2> USE <1>5 DEF Schedule, Goto, NotifyAll
    <2>1. TargetInv' /\ LockInv' /\ FiringInv' /\ WinnerInv'
      BY DEF TargetInv, LockInv, DomainInv, FiringInv, OtherCallsInv,
         WinnerInv
    <2>2. OtherCallsInv' /\ DomainInv'
      BY DEF OtherCallsInv, DomainInv, TargetInv, LockInv
    <2>3. TailInv' /\ SuspendInv' /\ FreshInv'
      BY DEF TailInv, DomainInv, OtherCallsInv, LockInv, TargetInv,
         SuspendInv, FreshInv
    <2>4. ExitInv' /\ AlarmInv'
      BY DEF ExitInv, TailInv, DomainInv, OtherCallsInv, LockInv, TargetInv,
         FiringInv, AlarmInv, WinnerInv
    <2> QED
      BY <2>1, <2>2, <2>3, <2>4
  <1>6. ASSUME SignalsOn PROVE IndInv'
    <2> USE <1>6 DEF SignalsOn, Goto
    <2>1. TargetInv' /\ LockInv' /\ FiringInv' /\ WinnerInv'
      BY DEF TargetInv, LockInv, DomainInv, FiringInv, OtherCallsInv,
         WinnerInv
    <2>2. OtherCallsInv' /\ DomainInv'
      BY DEF OtherCallsInv, DomainInv, TargetInv, LockInv, SuspendInv
    <2>3. TailInv' /\ SuspendInv' /\ FreshInv'
      BY DEF TailInv, DomainInv, OtherCallsInv, LockInv, TargetInv,
         SuspendInv, FreshInv
    <2>4. ExitInv' /\ AlarmInv'
      BY DEF ExitInv, TailInv, DomainInv, OtherCallsInv, LockInv, TargetInv,
         FiringInv, AlarmInv, WinnerInv
    <2> QED
      BY <2>1, <2>2, <2>3, <2>4
  <1>7. ASSUME SignalsRefused PROVE IndInv'
    <2> USE <1>7 DEF SignalsRefused, Goto
    <2>1. TargetInv' /\ LockInv' /\ FiringInv' /\ WinnerInv'
      BY DEF TargetInv, LockInv, DomainInv, FiringInv, OtherCallsInv,
         WinnerInv
    <2>2. OtherCallsInv' /\ DomainInv'
      BY DEF OtherCallsInv, DomainInv, TargetInv, LockInv, SuspendInv
    <2>3. TailInv' /\ SuspendInv' /\ FreshInv'
      BY DEF TailInv, DomainInv, OtherCallsInv, LockInv, TargetInv,
         SuspendInv, FreshInv
    <2>4. ExitInv' /\ AlarmInv'
      BY DEF ExitInv, TailInv, DomainInv, OtherCallsInv, LockInv, TargetInv,
         FiringInv, AlarmInv, WinnerInv
    <2> QED
      BY <2>1, <2>2, <2>3, <2>4
  <1>8. ASSUME EnterGuestRegion PROVE IndInv'
    <2> USE <1>8 DEF EnterGuestRegion, DomainFree, Enterable
    <2>1. TargetInv' /\ LockInv' /\ FiringInv' /\ WinnerInv'
      BY DEF TargetInv, LockInv, DomainInv, FiringInv, OtherCallsInv,
         WinnerInv
    <2>2. OtherCallsInv' /\ DomainInv'
      BY DEF OtherCallsInv, DomainInv, TargetInv, LockInv, SuspendInv
    <2>3. TailInv' /\ SuspendInv' /\ FreshInv'
      BY DEF TailInv, DomainInv, OtherCallsInv, LockInv, TargetInv,
         SuspendInv, FreshInv
    <2>4. ExitInv' /\ AlarmInv'
      BY DEF ExitInv, TailInv, DomainInv, OtherCallsInv, LockInv, TargetInv,
         FiringInv, AlarmInv, WinnerInv
    <2> QED
      BY <2>1, <2>2, <2>3, <2>4
  <1>9. ASSUME GuestStep PROVE IndInv'
    <2> USE <1>9 DEF GuestStep, Goto
    <2>1. TargetInv' /\ LockInv' /\ FiringInv' /\ WinnerInv'
      BY DEF TargetInv, LockInv, DomainInv, FiringInv, OtherCallsInv,
         WinnerInv
    <2>2. OtherCallsInv' /\ DomainInv'
      BY DEF OtherCallsInv, DomainInv, TargetInv, LockInv
    <2>3. TailInv' /\ SuspendInv' /\ FreshInv'
      BY DEF TailInv, DomainInv, OtherCallsInv, LockInv, TargetInv,
         SuspendInv, FreshInv
    <2>4. ExitInv' /\ AlarmInv'
      BY DEF ExitInv, TailInv, DomainInv, OtherCallsInv, LockInv, TargetInv,
         FiringInv, AlarmInv, WinnerInv
    <2> QED
      BY <2>1, <2>2, <2>3, <2>4
  <1>10. ASSUME BeginHostcall PROVE IndInv'
    <2> USE <1>10 DEF BeginHostcall, DomainFree
    <2>1. TargetInv'
      BY DEF TargetInv
    <2>2. LockInv'
      BY DEF LockInv, TargetInv, DomainInv
    <2>3. FiringInv'
      BY DEF FiringInv, TargetInv, OtherCallsInv
    <2>4. WinnerInv'
      <3>1. domain[call] = "Guest"
        BY DEF DomainInv
      <3>2. \A g \in Calls : domain[g] # "Guest" => domain'[g] = domain[g]
        BY <3>1
      <3>3. \A s \in Switches : target[s] # NoCall => target[s] \in Calls
        OBVIOUS
      <3> QED
        BY <3>2, <3>3 DEF WinnerInv
    <2>5. OtherCallsInv' /\ DomainInv'
      BY DEF OtherCallsInv, DomainInv, TargetInv, LockInv
    <2>6. TailInv' /\ SuspendInv' /\ FreshInv'
      BY DEF TailInv, DomainInv, OtherCallsInv, LockInv, TargetInv,
         SuspendInv, FreshInv
    <2>7. ExitInv' /\ AlarmInv'
      BY DEF ExitInv, TailInv, DomainInv, OtherCallsInv, LockInv, TargetInv,
         FiringInv, AlarmInv, WinnerInv
    <2> QED
      BY <2>1, <2>2, <2>3, <2>4, <2>5, <2>6, <2>7
  <1>11. ASSUME HostcallBody PROVE IndInv'
    <2> USE <1>11 DEF HostcallBody
    <2>1. TargetInv' /\ LockInv' /\ FiringInv' /\ WinnerInv'
      BY DEF TargetInv, LockInv, DomainInv, FiringInv, OtherCallsInv,
         WinnerInv
    <2>2. OtherCallsInv' /\ DomainInv'
      BY DEF OtherCallsInv, DomainInv, TargetInv, LockInv
    <2>3. TailInv' /\ SuspendInv' /\ FreshInv'
      BY DEF TailInv, DomainInv, OtherCallsInv, LockInv, TargetInv,
         SuspendInv, FreshInv
    <2>4. ExitInv' /\ AlarmInv'
      BY DEF ExitInv, TailInv, DomainInv, OtherCallsInv, LockInv, TargetInv,
         FiringInv, AlarmInv, WinnerInv
    <2> QED
      BY <2>1, <2>2, <2>3, <2>4
  <1>12. ASSUME EndHostcall PROVE IndInv'
    <2> USE <1>12 DEF EndHostcall, DomainFree, Returnable
    <2>1. TargetInv' /\ LockInv' /\ FiringInv' /\ WinnerInv'
      BY DEF TargetInv, LockInv, DomainInv, FiringInv, OtherCallsInv,
         WinnerInv
    <2>2. OtherCallsInv' /\ DomainInv'
      BY DEF OtherCallsInv, DomainInv, TargetInv, LockInv
    <2>3. TailInv' /\ SuspendInv' /\ FreshInv'
      BY DEF TailInv, DomainInv, OtherCallsInv, LockInv, TargetInv,
         SuspendInv, FreshInv
    <2>4. ExitInv' /\ AlarmInv'
      BY DEF ExitInv, TailInv, DomainInv, OtherCallsInv, LockInv, TargetInv,
         FiringInv, AlarmInv, WinnerInv
    <2> QED
      BY <2>1, <2>2, <2>3, <2>4
  <1>13. ASSUME TakeTerminable PROVE IndInv'
    <2> USE <1>13 DEF TakeTerminable, TerminableTaken
    <2>1. TargetInv' /\ LockInv' /\ FiringInv' /\ WinnerInv'
      BY DEF TargetInv, LockInv, DomainInv, FiringInv, OtherCallsInv,
         WinnerInv
    <2>2. OtherCallsInv' /\ DomainInv'
      BY DEF OtherCallsInv, DomainInv, TargetInv, LockInv
    <2>3. TailInv' /\ SuspendInv' /\ FreshInv'
      BY DEF TailInv, DomainInv, OtherCallsInv, LockInv, TargetInv,
         SuspendInv, FreshInv
    <2>4. ExitInv' /\ AlarmInv'
      BY DEF ExitInv, TailInv, DomainInv, OtherCallsInv, LockInv, TargetInv,
         FiringInv, AlarmInv, WinnerInv
    <2> QED
      BY <2>1, <2>2, <2>3, <2>4
  <1>14. ASSUME LeaveGuestRegion PROVE IndInv'
    <2> USE <1>14 DEF LeaveGuestRegion, DomainFree, Holders
    <2>1. TargetInv' /\ LockInv' /\ FiringInv' /\ WinnerInv'
      BY DEF TargetInv, LockInv, DomainInv, FiringInv, OtherCallsInv,
         WinnerInv
    <2>2. OtherCallsInv' /\ DomainInv'
      BY DEF OtherCallsInv, DomainInv, TargetInv, LockInv
    <2>3. TailInv' /\ SuspendInv' /\ FreshInv'
      BY DEF TailInv, DomainInv, OtherCallsInv, LockInv, TargetInv,
         SuspendInv, FreshInv
    <2>4. ExitInv' /\ AlarmInv'
      BY DEF ExitInv, TailInv, DomainInv, OtherCallsInv, LockInv, TargetInv,
         FiringInv, AlarmInv, WinnerInv
    <2> QED
      BY <2>1, <2>2, <2>3, <2>4
  <1>15. ASSUME GuestFault PROVE IndInv'
    <2> USE <1>15 DEF GuestFault, Goto
    <2>1. TargetInv' /\ LockInv' /\ FiringInv' /\ WinnerInv'
      BY DEF TargetInv, LockInv, DomainInv, FiringInv, OtherCallsInv,
         WinnerInv
    <2>2. OtherCallsInv' /\ DomainInv'
      BY DEF OtherCallsInv, DomainInv, TargetInv, LockInv
    <2>3. TailInv' /\ SuspendInv' /\ FreshInv'
      BY DEF TailInv, DomainInv, OtherCallsInv, LockInv, TargetInv,
         SuspendInv, FreshInv
    <2>4. ExitInv' /\ AlarmInv'
      BY DEF ExitInv, TailInv, DomainInv, OtherCallsInv, LockInv, TargetInv,
         FiringInv, AlarmInv, WinnerInv
    <2> QED
      BY <2>1, <2>2, <2>3, <2>4
  <1>16. ASSUME DisableTermination PROVE IndInv'
    <2> USE <1>16 DEF DisableTermination, TerminableTaken, AlarmSilenced
    <2>1. TargetInv' /\ LockInv' /\ FiringInv' /\ WinnerInv'
      BY DEF TargetInv, LockInv, DomainInv, FiringInv, OtherCallsInv,
         WinnerInv
    <2>2. OtherCallsInv' /\ DomainInv'
      BY DEF OtherCallsInv, DomainInv, TargetInv, LockInv
    <2>3. SuspendInv' /\ FreshInv'
      BY DEF SuspendInv, DomainInv, OtherCallsInv, LockInv, TargetInv,
         TailInv, FreshInv
    <2>4. TailInv'
      <3>1. state \in {"Terminating", "Faulted"}
        BY DEF TailInv
      <3> QED
        BY <3>1 DEF TailInv
    <2>5. ExitInv' /\ AlarmInv'
      BY DEF ExitInv, TailInv, DomainInv, OtherCallsInv, LockInv, TargetInv,
         FiringInv, AlarmInv, WinnerInv, SuspendInv
    <2> QED
      BY <2>1, <2>2, <2>3, <2>4, <2>5
  <1>17. ASSUME TakeAlarm PROVE IndInv'
    <2> USE <1>17 DEF TakeAlarm, AlarmActive
    <2>1. TargetInv' /\ LockInv' /\ FiringInv' /\ WinnerInv'
      BY DEF TargetInv, LockInv, DomainInv, FiringInv, OtherCallsInv,
         WinnerInv
    <2>2. OtherCallsInv' /\ DomainInv'
      BY DEF OtherCallsInv, DomainInv, TargetInv, LockInv, AlarmInv
    <2>3. TailInv' /\ SuspendInv' /\ FreshInv'
      BY DEF TailInv, DomainInv, OtherCallsInv, LockInv, TargetInv, AlarmInv,
         SuspendInv, FreshInv
    <2>4. ExitInv' /\ AlarmInv'
      BY DEF ExitInv, TailInv, DomainInv, OtherCallsInv, LockInv, TargetInv,
         FiringInv, AlarmInv, WinnerInv
    <2> QED
      BY <2>1, <2>2, <2>3, <2>4
  <1>18. ASSUME SignalsOff PROVE IndInv'
    <2> USE <1>18 DEF SignalsOff, Goto
    <2>1. TargetInv' /\ LockInv' /\ FiringInv' /\ WinnerInv'
      BY DEF TargetInv, LockInv, DomainInv, FiringInv, OtherCallsInv,
         WinnerInv
    <2>2. OtherCallsInv' /\ DomainInv'
      BY DEF OtherCallsInv, DomainInv, TargetInv, LockInv
    <2>3. TailInv' /\ SuspendInv' /\ FreshInv'
      BY DEF TailInv, DomainInv, OtherCallsInv, LockInv, TargetInv,
         SuspendInv, FreshInv
    <2>4. ExitInv' /\ AlarmInv'
      BY DEF ExitInv, TailInv, DomainInv, OtherCallsInv, LockInv, TargetInv,
         FiringInv, AlarmInv, WinnerInv
    <2> QED
      BY <2>1, <2>2, <2>3, <2>4
  <1>19. ASSUME UnsetThreadId PROVE IndInv'
    <2> USE <1>19 DEF UnsetThreadId, Goto
    <2>1. TargetInv' /\ LockInv' /\ FiringInv' /\ WinnerInv'
      BY DEF TargetInv, LockInv, DomainInv, FiringInv, OtherCallsInv,
         WinnerInv
    <2>2. OtherCallsInv' /\ DomainInv'
      BY DEF OtherCallsInv, DomainInv, TargetInv, LockInv
    <2>3. TailInv' /\ SuspendInv' /\ FreshInv'
      BY DEF TailInv, DomainInv, OtherCallsInv, LockInv, TargetInv,
         SuspendInv, FreshInv
    <2>4. ExitInv' /\ AlarmInv'
      BY DEF ExitInv, TailInv, DomainInv, OtherCallsInv, LockInv, TargetInv,
         FiringInv, AlarmInv, WinnerInv
    <2> QED
      BY <2>1, <2>2, <2>3, <2>4
  <1>20. ASSUME NotifyDescheduled PROVE IndInv'
    <2> USE <1>20 DEF NotifyDescheduled, Goto, NotifyAll
    <2>1. TargetInv' /\ LockInv' /\ FiringInv' /\ WinnerInv'
      BY DEF TargetInv, LockInv, DomainInv, FiringInv, OtherCallsInv,
         WinnerInv
    <2>2. OtherCallsInv' /\ DomainInv'
      BY DEF OtherCallsInv, DomainInv, TargetInv, LockInv
    <2>3. TailInv' /\ SuspendInv' /\ FreshInv'
      BY DEF TailInv, DomainInv, OtherCallsInv, LockInv, TargetInv,
         SuspendInv, FreshInv
    <2>4. ExitInv' /\ AlarmInv'
      BY DEF ExitInv, TailInv, DomainInv, OtherCallsInv, LockInv, TargetInv,
         FiringInv, AlarmInv, WinnerInv
    <2> QED
      BY <2>1, <2>2, <2>3, <2>4
  <1>21. ASSUME SettleDomain PROVE IndInv'
    <2> USE <1>21 DEF SettleDomain, Goto, DomainFree
    <2>1. TargetInv' /\ LockInv' /\ FiringInv' /\ WinnerInv'
      BY DEF TargetInv, LockInv, DomainInv, FiringInv, OtherCallsInv,
         WinnerInv
    <2>2. OtherCallsInv' /\ DomainInv'
      BY DEF OtherCallsInv, DomainInv, TargetInv, LockInv
    <2>3. TailInv' /\ SuspendInv' /\ FreshInv'
      BY DEF TailInv, DomainInv, OtherCallsInv, LockInv, TargetInv,
         SuspendInv, FreshInv
    <2>4. ExitInv' /\ AlarmInv'
      BY DEF ExitInv, TailInv, DomainInv, OtherCallsInv, LockInv, TargetInv,
         FiringInv, AlarmInv, WinnerInv
    <2> QED
      BY <2>1, <2>2, <2>3, <2>4
  <1>22. ASSUME ClearCurrentInstance PROVE IndInv'
    <2> USE <1>22 DEF ClearCurrentInstance, Goto
    <2>1. TargetInv' /\ LockInv' /\ FiringInv' /\ WinnerInv'
      BY DEF TargetInv, LockInv, DomainInv, FiringInv, OtherCallsInv,
         WinnerInv
    <2>2. OtherCallsInv' /\ DomainInv'
      BY DEF OtherCallsInv, DomainInv, TargetInv, LockInv
    <2>3. TailInv' /\ SuspendInv' /\ FreshInv'
      BY DEF TailInv, DomainInv, OtherCallsInv, LockInv, TargetInv,
         SuspendInv, FreshInv
    <2>4. ExitInv' /\ AlarmInv'
      BY DEF ExitInv, TailInv, DomainInv, OtherCallsInv, LockInv, TargetInv,
         FiringInv, AlarmInv, WinnerInv
    <2> QED
      BY <2>1, <2>2, <2>3, <2>4
  <1>23. ASSUME Finish PROVE IndInv'
    <2> USE <1>23 DEF Finish, Goto, RestingState, Unfinished
    <2>1. TargetInv' /\ LockInv' /\ FiringInv' /\ WinnerInv'
      BY DEF TargetInv, LockInv, DomainInv, FiringInv, OtherCallsInv,
         WinnerInv
    <2>2. OtherCallsInv' /\ DomainInv'
      BY DEF OtherCallsInv, DomainInv, TargetInv, LockInv, TailInv, SuspendInv
    <2>3. TailInv' /\ SuspendInv' /\ FreshInv'
      BY DEF TailInv, DomainInv, OtherCallsInv, LockInv, TargetInv,
         SuspendInv, FreshInv
    <2>4. ExitInv' /\ AlarmInv'
      BY DEF ExitInv, TailInv, DomainInv, OtherCallsInv, LockInv, TargetInv,
         FiringInv, AlarmInv, WinnerInv
    <2> QED
      BY <2>1, <2>2, <2>3, <2>4
  <1>24. ASSUME NEW s \in Switches, TakeKillSwitch(s) PROVE IndInv'
    <2> USE <1>24 DEF TakeKillSwitch
    <2>1. TargetInv' /\ LockInv' /\ FiringInv' /\ WinnerInv'
      BY DEF TargetInv, LockInv, DomainInv, FiringInv, OtherCallsInv,
         WinnerInv
    <2>2. OtherCallsInv' /\ DomainInv'
      BY DEF OtherCallsInv, DomainInv, TargetInv, LockInv
    <2>3. TailInv' /\ SuspendInv' /\ FreshInv'
      BY DEF TailInv, DomainInv, OtherCallsInv, LockInv, TargetInv,
         SuspendInv, FreshInv
    <2>4. ExitInv' /\ AlarmInv'
      BY DEF ExitInv, TailInv, DomainInv, OtherCallsInv, LockInv, TargetInv,
         FiringInv, AlarmInv, WinnerInv
    <2> QED
      BY <2>1, <2>2, <2>3, <2>4
  <1>25. ASSUME NEW s \in Switches, Upgrade(s) PROVE IndInv'
    <2> USE <1>25 DEF Upgrade, Alive, Holders
    <2> target[s] \in Calls /\ target[s] <= call
      BY DEF TargetInv
    <2>1. TargetInv' /\ WinnerInv'
      BY DEF TargetInv, WinnerInv, LockInv, FiringInv, DomainInv,
         OtherCallsInv
    <2>2. LockInv'
      <3>1. ASSUME NEW t \in Switches, kpc'[t] \in Holding
            PROVE  domainLock'[target'[t]] = t
        BY <3>1 DEF LockInv, TargetInv
      <3>2. ASSUME NEW g \in Calls, domainLock'[g] # Unlocked
            PROVE  /\ kpc'[domainLock'[g]] \in Holding
                   /\ target'[domainLock'[g]] = g
                   /\ domain'[g] = "Guest"
        <4>1. domainLock'[g] \in Switches
          BY <3>2
        <4> QED
          BY <3>2, <4>1 DEF LockInv
      <3> QED
        BY <3>1, <3>2 DEF LockInv
    <2>3. FiringInv'
      <3>1. ASSUME NEW t \in Switches, kpc'[t] \in Firing
            PROVE  ~terminable'[target'[t]]
        BY <3>1 DEF FiringInv, TargetInv
      <3>2. ASSUME NEW t \in Switches, NEW u \in Switches,
                   kpc'[t] \in Firing, kpc'[u] \in Firing, target'[t] = target'[u]
            PROVE  t = u
        BY <3>2 DEF FiringInv
      <3> QED
        BY <3>1, <3>2 DEF FiringInv
    <2>4. OtherCallsInv' /\ DomainInv'
      BY DEF OtherCallsInv, DomainInv, TargetInv, LockInv
    <2>5. TailInv' /\ SuspendInv' /\ FreshInv'
      BY DEF TailInv, DomainInv, OtherCallsInv, LockInv, TargetInv,
         SuspendInv, FreshInv
    <2>6. ExitInv' /\ AlarmInv'
      BY DEF ExitInv, TailInv, DomainInv, OtherCallsInv, LockInv, TargetInv,
         FiringInv, AlarmInv, WinnerInv
    <2> QED
      BY <2>1, <2>2, <2>3, <2>4, <2>5, <2>6
  <1>26. ASSUME NEW s \in Switches, SwapTerminable(s) PROVE IndInv'
    <2> USE <1>26 DEF SwapTerminable, Return, TerminableTaken
    <2> target[s] \in Calls /\ target[s] <= call
      BY DEF TargetInv
    <2>1. TargetInv'
      BY DEF TargetInv
    <2>2. WinnerInv'
      BY DEF WinnerInv, LockInv, FiringInv, TargetInv, DomainInv,
         OtherCallsInv
    <2>3. LockInv'
      <3>1. ASSUME NEW t \in Switches, kpc'[t] \in Holding
            PROVE  domainLock'[target'[t]] = t
        BY <3>1 DEF LockInv, TargetInv
      <3>2. ASSUME NEW g \in Calls, domainLock'[g] # Unlocked
            PROVE  /\ kpc'[domainLock'[g]] \in Holding
                   /\ target'[domainLock'[g]] = g
                   /\ domain'[g] = "Guest"
        <4>1. domainLock'[g] \in Switches
          BY <3>2
        <4> QED
          BY <3>2, <4>1 DEF LockInv
      <3> QED
        BY <3>1, <3>2 DEF LockInv
    <2>4. FiringInv'
      <3>1. ASSUME NEW t \in Switches, kpc'[t] \in Firing
            PROVE  ~terminable'[target'[t]]
        BY <3>1 DEF FiringInv, TargetInv
      <3>2. ASSUME NEW t \in Switches, NEW u \in Switches,
                   kpc'[t] \in Firing, kpc'[u] \in Firing, target'[t] = target'[u]
            PROVE  t = u
        BY <3>2 DEF FiringInv
      <3> QED
        BY <3>1, <3>2 DEF FiringInv
    <2>5. OtherCallsInv' /\ DomainInv'
      BY DEF OtherCallsInv, DomainInv, TargetInv, LockInv
    <2>6. TailInv' /\ SuspendInv' /\ FreshInv'
      BY DEF TailInv, DomainInv, OtherCallsInv, LockInv, TargetInv,
         SuspendInv, FreshInv
    <2>7. AlarmInv'
      BY DEF AlarmInv, ExitInv, TailInv, DomainInv, LockInv, TargetInv,
         FiringInv, OtherCallsInv
    <2>8. ExitInv'
      <3>1. ~terminable[call] => ~terminable'[call]
        OBVIOUS
      <3>2. ASSUME NEW t \in Switches, target[t] = call, ~terminable[call]
            PROVE  /\ kpc[t] \notin Firing => kpc'[t] \notin Firing
                   /\ result[t] \notin KillSuccess => result'[t] \notin KillSuccess
                   /\ kpc'[t] \in {"lock", "alarm"} => kpc[t] \in {"lock", "alarm"}
        BY <3>2
      <3>3. ASSUME NEW t \in Switches, target[t] = call, terminable[call],
                   pc \in {"signals_off", "unset_tid"}, domain[call] = "Guest"
            PROVE  FALSE
        BY <3>3 DEF ExitInv, TailInv, DomainInv
      <3> QED
        BY <3>1, <3>2, <3>3 DEF ExitInv
    <2> QED
      BY <2>1, <2>2, <2>3, <2>4, <2>5, <2>6, <2>7, <2>8
  <1>27. ASSUME NEW s \in Switches, LockDomain(s) PROVE IndInv'
    <2> USE <1>27 DEF LockDomain, Return
    <2> target[s] \in Calls /\ target[s] <= call
      BY DEF TargetInv
    <2>1. TargetInv'
      BY DEF TargetInv
    <2>2. WinnerInv'
      BY DEF WinnerInv, LockInv, FiringInv, TargetInv, DomainInv,
         OtherCallsInv
    <2>3. LockInv'
      <3>1. ASSUME NEW t \in Switches, kpc'[t] \in Holding
            PROVE  domainLock'[target'[t]] = t
        BY <3>1 DEF LockInv, TargetInv
      <3>2. ASSUME NEW g \in Calls, domainLock'[g] # Unlocked
            PROVE  /\ kpc'[domainLock'[g]] \in Holding
                   /\ target'[domainLock'[g]] = g
                   /\ domain'[g] = "Guest"
        <4>1. domainLock'[g] \in Switches
          BY <3>2
        <4> QED
          BY <3>2, <4>1 DEF LockInv
      <3> QED
        BY <3>1, <3>2 DEF LockInv
    <2>4. FiringInv'
      <3>1. ASSUME NEW t \in Switches, kpc'[t] \in Firing
            PROVE  ~terminable'[target'[t]]
        BY <3>1 DEF FiringInv, TargetInv
      <3>2. ASSUME NEW t \in Switches, NEW u \in Switches,
                   kpc'[t] \in Firing, kpc'[u] \in Firing, target'[t] = target'[u]
            PROVE  t = u
        BY <3>2 DEF FiringInv
      <3> QED
        BY <3>1, <3>2 DEF FiringInv
    <2>5. OtherCallsInv' /\ DomainInv'
      BY DEF OtherCallsInv, DomainInv, TargetInv, LockInv
    <2>6. TailInv' /\ SuspendInv' /\ FreshInv'
      BY DEF TailInv, DomainInv, OtherCallsInv, LockInv, TargetInv,
         SuspendInv, FreshInv
    <2>7. ExitInv' /\ AlarmInv'
      BY DEF ExitInv, TailInv, DomainInv, OtherCallsInv, LockInv, TargetInv,
         FiringInv, AlarmInv, WinnerInv
    <2> QED
      BY <2>1, <2>2, <2>3, <2>4, <2>5, <2>6, <2>7
  <1>28. ASSUME NEW s \in Switches, SendAlarm(s) PROVE IndInv'
    <2> USE <1>28 DEF SendAlarm
    <2> target[s] \in Calls /\ target[s] <= call
      BY DEF TargetInv
    <2>1. TargetInv'
      BY DEF TargetInv
    <2>2. FiringInv'
      BY DEF FiringInv, TargetInv, OtherCallsInv
    <2>3. WinnerInv'
      BY DEF WinnerInv, LockInv, FiringInv, TargetInv, DomainInv,
         OtherCallsInv
    <2>4. LockInv'
      <3>1. ASSUME NEW t \in Switches, kpc'[t] \in Holding
            PROVE  domainLock'[target'[t]] = t
        BY <3>1 DEF LockInv, TargetInv
      <3>2. ASSUME NEW g \in Calls, domainLock'[g] # Unlocked
            PROVE  /\ kpc'[domainLock'[g]] \in Holding
                   /\ target'[domainLock'[g]] = g
                   /\ domain'[g] = "Guest"
        <4>1. domainLock'[g] \in Switches
          BY <3>2
        <4>2. kpc[domainLock[g]] \in Holding => kpc'[domainLock[g]] \in Holding
          BY <4>1
        <4> QED
          BY <3>2, <4>1, <4>2 DEF LockInv
      <3> QED
        BY <3>1, <3>2 DEF LockInv
    <2>5. OtherCallsInv' /\ DomainInv'
      BY DEF OtherCallsInv, DomainInv, TargetInv, LockInv
    <2>6. TailInv' /\ SuspendInv' /\ FreshInv'
      BY DEF TailInv, DomainInv, OtherCallsInv, LockInv, TargetInv,
         SuspendInv, FreshInv
    <2>7. ExitInv'
      BY DEF ExitInv, TailInv, DomainInv, OtherCallsInv, LockInv, TargetInv,
         FiringInv, AlarmInv, WinnerInv
    <2>8. AlarmInv'
      <3>1. domainLock[target[s]] = s /\ domain[target[s]] = "Guest"
        BY DEF LockInv
      <3>2. target[s] = call
        BY <3>1 DEF OtherCallsInv
      <3>3. CASE threadId[call]
        <4>1. pc \in GuestPc \cup {"signals_off", "unset_tid"}
          BY <3>1, <3>2, <3>3 DEF DomainInv
        <4>2. pc # "leave" /\ (pc \in {"signals_off", "unset_tid"} => ignoreAlarm[call])
          BY <3>1, <3>2 DEF ExitInv
        <4> QED
          BY <3>2, <3>3, <4>1, <4>2 DEF AlarmInv
      <3>4. CASE ~threadId[call]
        BY <3>2, <3>4 DEF AlarmInv
      <3> QED
        BY <3>3, <3>4
    <2> QED
      BY <2>1, <2>2, <2>3, <2>4, <2>5, <2>6, <2>7, <2>8
  <1>29. ASSUME NEW s \in Switches, Woken(s) PROVE IndInv'
    <2> USE <1>29 DEF Woken, Return
    <2> target[s] \in Calls /\ target[s] <= call
      BY DEF TargetInv
    <2>1. TargetInv'
      BY DEF TargetInv
    <2>2. WinnerInv'
      <3>1. CASE threadId[target[s]]
        BY <3>1 DEF WinnerInv
      <3>2. CASE ~threadId[target[s]]
        <4>1. \A w \in Switches :
                 result[w] \in KillSuccess => target[w] # target[s] /\ w # s
          BY DEF WinnerInv
        <4>2. ASSUME NEW t \in Switches, target[t] = target[s]
              PROVE  kpc'[t] \notin Firing /\ (t # s => result'[t] \notin KillSuccess)
          BY <3>2, <4>1, <4>2 DEF FiringInv
        <4>3. /\ ~terminable'[target'[s]] /\ target'[s] # NoCall
              /\ domain'[target'[s]] = "Terminated" /\ kpc'[s] = "return"
          BY <3>2 DEF FiringInv
        <4>4. ASSUME NEW w \in Switches, w # s, result'[w] \in KillSuccess
              PROVE  /\ result[w] \in KillSuccess /\ target[w] # target[s]
                     /\ kpc'[w] = kpc[w] /\ domain'[target[w]] = domain[target[w]]
          BY <3>2, <4>1, <4>4 DEF WinnerInv
        <4>5. ASSUME NEW w \in Switches, w # s, result'[w] \in KillSuccess,
                     NEW t \in Switches, target[t] = target[w]
              PROVE  kpc'[t] = kpc[t] /\ result'[t] = result[t]
          BY <3>2, <4>4, <4>5
        <4> QED
          BY <4>2, <4>3, <4>4, <4>5 DEF WinnerInv
      <3> QED
        BY <3>1, <3>2
    <2>3. LockInv'
      <3>1. ASSUME NEW t \in Switches, kpc'[t] \in Holding
            PROVE  domainLock'[target'[t]] = t
        BY <3>1 DEF LockInv, TargetInv
      <3>2. ASSUME NEW g \in Calls, domainLock'[g] # Unlocked
            PROVE  /\ kpc'[domainLock'[g]] \in Holding
                   /\ target'[domainLock'[g]] = g
                   /\ domain'[g] = "Guest"
        <4>1. CASE threadId[target[s]]
          BY <3>2, <4>1 DEF LockInv
        <4>2. CASE ~threadId[target[s]]
          <5>1. g # target[s] /\ domainLock'[g] = domainLock[g] /\ domain'[g] = domain[g]
            BY <3>2, <4>2
          <5>2. domainLock[g] # s
            BY <3>2, <5>1 DEF LockInv
          <5> QED
            BY <3>2, <4>2, <5>1, <5>2 DEF LockInv
        <4> QED
          BY <4>1, <4>2
      <3> QED
        BY <3>1, <3>2 DEF LockInv
    <2>4. FiringInv'
      <3>1. ASSUME NEW t \in Switches, kpc'[t] \in Firing
            PROVE  ~terminable'[target'[t]]
        BY <3>1 DEF FiringInv, TargetInv
      <3>2. ASSUME NEW t \in Switches, NEW u \in Switches,
                   kpc'[t] \in Firing, kpc'[u] \in Firing, target'[t] = target'[u]
            PROVE  t = u
        BY <3>2 DEF FiringInv
      <3> QED
        BY <3>1, <3>2 DEF FiringInv
    <2>5. OtherCallsInv' /\ DomainInv'
      BY DEF OtherCallsInv, DomainInv, TargetInv, LockInv
    <2>6. TailInv' /\ SuspendInv' /\ FreshInv'
      BY DEF TailInv, DomainInv, OtherCallsInv, LockInv, TargetInv,
         SuspendInv, FreshInv
    <2>7. ExitInv' /\ AlarmInv'
      BY DEF ExitInv, TailInv, DomainInv, OtherCallsInv, LockInv, TargetInv,
         FiringInv, AlarmInv, WinnerInv
    <2> QED
      BY <2>1, <2>2, <2>3, <2>4, <2>5, <2>6, <2>7
  <1>30. ASSUME NEW s \in Switches, DropReference(s) PROVE IndInv'
    <2> USE <1>30 DEF DropReference
    <2> target[s] \in Calls /\ target[s] <= call
      BY DEF TargetInv
    <2>1. TargetInv' /\ LockInv' /\ FiringInv' /\ WinnerInv'
      BY DEF TargetInv, LockInv, DomainInv, FiringInv, OtherCallsInv,
         WinnerInv
    <2>2. OtherCallsInv' /\ DomainInv'
      BY DEF OtherCallsInv, DomainInv, TargetInv, LockInv
    <2>3. TailInv' /\ SuspendInv' /\ FreshInv'
      BY DEF TailInv, DomainInv, OtherCallsInv, LockInv, TargetInv,
         SuspendInv, FreshInv
    <2>4. ExitInv' /\ AlarmInv'
      BY DEF ExitInv, TailInv, DomainInv, OtherCallsInv, LockInv, TargetInv,
         FiringInv, AlarmInv, WinnerInv
    <2> QED
      BY <2>1, <2>2, <2>3, <2>4
  <1> QED
    BY <1>1, <1>2, <1>3, <1>4, <1>5, <1>6, <1>7, <1>8, <1>9, <1>10, <1>11,
       <1>12, <1>13, <1>14, <1>15, <1>16, <1>17, <1>18, <1>19, <1>20, <1>21,
       <1>22, <1>23, <1>24, <1>25, <1>26, <1>27, <1>28, <1>29, <1>30, NextCases
       DEF Guest, Runtime, Terminate

\* A fresh instance satisfies the invariant.
LEMMA InvInit == Init => IndInv
  <1> SUFFICES ASSUME Init PROVE IndInv
    OBVIOUS
  <1> USE DEF Init, Pc, GuestPc, TailPc, HostPc, RunningPc, RestPc, Firing, Holding
  <1>1. TypeOK
    <2>1. HostTypeOK
      <3>1. pc \in Pc /\ state \in State /\ ctx \in {"enter", "hostcall"} /\ call \in Calls
        BY DEF State
      <3>2. crash \in Crash \cup {NoCrash}
        OBVIOUS
      <3>3. {failed, current, handler, alarm} \subseteq BOOLEAN
        OBVIOUS
      <3> QED
        BY <3>1, <3>2, <3>3 DEF HostTypeOK
    <2>2. KillStateTypeOK
      BY DEF KillStateTypeOK, Domain
    <2>3. SwitchTypeOK
      BY DEF SwitchTypeOK, Upgraded, NoResult
    <2> QED
      BY <2>1, <2>2, <2>3 DEF TypeOK
  <1>2. TargetInv /\ LockInv /\ FiringInv /\ OtherCallsInv /\ WinnerInv
    BY DEF TargetInv, LockInv, FiringInv, OtherCallsInv, WinnerInv, KillSuccess, NoResult
  <1>3. DomainInv /\ TailInv /\ ExitInv /\ AlarmInv /\ SuspendInv /\ FreshInv
    BY DEF DomainInv, TailInv, ExitInv, AlarmInv, SuspendInv, FreshInv
  <1> QED
    BY <1>1, <1>2, <1>3 DEF IndInv

\* The invariant holds throughout every behaviour of the runtime.
THEOREM Invariance == Spec => []IndInv
  <1>1. IndInv /\ [Next]_vars => IndInv'
    <2> SUFFICES ASSUME IndInv, [Next]_vars PROVE IndInv'
      OBVIOUS
    <2>1. CASE Next
      BY <2>1, InvStep
    <2>2. CASE UNCHANGED vars
      BY <2>2 DEF vars, hostVars, killStateVars, switchVars, IndInv, TypeOK, HostTypeOK, KillStateTypeOK, SwitchTypeOK,
         TargetInv, LockInv, FiringInv, OtherCallsInv, DomainInv, TailInv, ExitInv,
         AlarmInv, WinnerInv, SuspendInv, FreshInv
    <2> QED
      BY <2>1, <2>2
  <1> QED
    BY <1>1, InvInit, PTL DEF Spec

-----------------------------------------------------------------------------
(* The properties.                                                         *)

\* Every variable keeps its type, whatever the switches do.
THEOREM TypeCorrect == Spec => []TypeOK
  <1>1. IndInv => TypeOK
    BY DEF IndInv
  <1> QED
    BY <1>1, Invariance, PTL

\* handle_signal acts on a switch's SIGALRM only in guest code of the call it was
\* aimed at, and ignores it only before deschedule.
THEOREM AlarmSafety == Spec => []AlarmOnlyInGuest
  <1>1. IndInv => AlarmOnlyInGuest
    BY DEF IndInv, AlarmOnlyInGuest, AlarmInv, TailInv, DomainInv, TypeOK, HostTypeOK, Pc,
           GuestPc, TailPc, HostPc
  <1> QED
    BY <1>1, Invariance, PTL

\* A call that terminate reported as killed runs no more guest code and is never
\* reported as returned.
THEOREM KillIsFinal == Spec => []KilledStaysKilled
  <1>1. IndInv => KilledStaysKilled
    BY DEF IndInv, KilledStaysKilled, Killed, WinnerInv, DomainInv, ExitInv
  <1> QED
    BY <1>1, Invariance, PTL

\* At most one switch on a KillState is told that it succeeded.
THEOREM KillIsUnique == Spec => []OneWinner
  <1>1. IndInv => OneWinner
    BY DEF IndInv, OneWinner, WinnerInv
  <1> QED
    BY <1>1, Invariance, PTL

\* While a switch holds the domain lock, neither the call nor its domain moves.
THEOREM LockIsPinned == Spec => []LockPinsDomain
  <1>1. IndInv => LockPinsDomain
    BY DEF IndInv, LockPinsDomain, LockInv, OtherCallsInv, TypeOK, HostTypeOK
  <1> QED
    BY <1>1, Invariance, PTL

\* A taken KillState is never terminable again, and no step leaves Terminated or
\* Cancelled.
THEOREM KillStatesAreSpent == Spec => NoRevival
  <1>1. ASSUME IndInv, Next PROVE NoRevivalStep
    <2> USE DEF IndInv, TypeOK, HostTypeOK, KillStateTypeOK, SwitchTypeOK, NoRevivalStep
    <2> USE DEF Domain, killStateVars, Upgraded
    <2>1. CASE UNCHANGED <<terminable, domain>>
      BY <2>1
    <2>2. CASE vars' = vars
      BY <2>2 DEF vars
    <2>3. ASSUME EnterGuestRegion PROVE NoRevivalStep
      BY <2>3, <1>1 DEF EnterGuestRegion, DomainFree, Enterable
    <2>4. ASSUME BeginHostcall PROVE NoRevivalStep
      BY <2>4, <1>1 DEF BeginHostcall, DomainFree
    <2>5. ASSUME EndHostcall PROVE NoRevivalStep
      BY <2>5, <1>1 DEF EndHostcall, DomainFree, Returnable
    <2>6. ASSUME TakeTerminable PROVE NoRevivalStep
      BY <2>6, <1>1 DEF TakeTerminable, TerminableTaken
    <2>7. ASSUME DisableTermination PROVE NoRevivalStep
      BY <2>7, <1>1 DEF DisableTermination, TerminableTaken, AlarmSilenced
    <2>8. ASSUME SettleDomain PROVE NoRevivalStep
      BY <2>8, <1>1 DEF SettleDomain, Goto, DomainFree
    <2>9. ASSUME NEW s \in Switches, SwapTerminable(s) PROVE NoRevivalStep
      BY <2>9, <1>1 DEF SwapTerminable, Return, TerminableTaken, TargetInv, LockInv
    <2>10. ASSUME NEW s \in Switches, LockDomain(s) PROVE NoRevivalStep
      BY <2>10, <1>1 DEF LockDomain, Return, TargetInv, LockInv
    <2>11. ASSUME NEW s \in Switches, Woken(s) PROVE NoRevivalStep
      <3>1. target[s] \in Calls /\ domain[target[s]] = "Guest"
        BY <2>11, <1>1 DEF Woken, TargetInv, LockInv, Holding
      <3> QED
        BY <2>11, <3>1, <1>1 DEF Woken, Return
    <2> QED
      BY <1>1, <2>1, <2>2, <2>3, <2>4, <2>5, <2>6, <2>7, <2>8, <2>9, <2>10, <2>11,
         NextCases DEF Guest, Runtime, Terminate, AlarmActive, Alive,
         ClearCurrentInstance, DomainFree, DropReference, Finish, Goto, GuestFault,
         GuestStep, Holders, HostcallBody, LeaveGuestRegion, NotifyAll,
         NotifyDescheduled, Reset, RestingState, Resume, Run, Schedule, SendAlarm,
         SignalsOff, SignalsOn, SignalsRefused, SwapIn, SwapRefused, TakeAlarm,
         TakeKillSwitch, Unfinished, UnsetThreadId, Upgrade
  <1> QED
    BY <1>1, Invariance, PTL DEF Spec, NoRevival

-----------------------------------------------------------------------------
(* A switch that fires finds the guest.                                    *)

\* Lucet's handler is installed while the guest may run, and a switch that is
\* still about to signal a descheduled guest has had its alarm silenced.
ReachInv ==
    /\ pc \in GuestPc \cup {"enter", "hostcall", "end", "signals_off"} => handler
    /\ pc \in {"notify", "settle"} /\ domain[call] = "Guest" =>
          /\ ~terminable[call]
          /\ \A s \in Switches :
                target[s] = call /\ kpc[s] \in {"lock", "alarm"} => ignoreAlarm[call]
    /\ FiringFindsGuest

\* Every step keeps ReachInv.
LEMMA ReachStep ==
    ASSUME IndInv, ReachInv, Next
    PROVE  ReachInv'
  <1> USE DEF IndInv, TypeOK, HostTypeOK, KillStateTypeOK, SwitchTypeOK
  <1> USE DEF Pc, GuestPc, TailPc, HostPc, RunningPc, RestPc, Holding, Firing
  <1> USE DEF hostVars, killStateVars, switchVars, ReachInv, FiringFindsGuest
  <1>1. CASE vars' = vars
    BY <1>1 DEF vars
  <1>2. CASE vars' # vars
    <2>1. crash = NoCrash
      BY <1>2 DEF Next, Stopped
    <2>2. ASSUME Run PROVE ReachInv'
      BY <2>1, <2>2 DEF Run, SwapIn, SwapRefused, NoCrash, DomainInv, TailInv
    <2>3. ASSUME Resume PROVE ReachInv'
      BY <2>1, <2>3 DEF Resume, SwapIn, SwapRefused, NoCrash, DomainInv, TailInv
    <2>4. ASSUME Reset PROVE ReachInv'
      BY <2>1, <2>4 DEF Reset, NoCrash, DomainInv, TailInv
    <2>5. ASSUME Schedule PROVE ReachInv'
      BY <2>1, <2>5 DEF Schedule, Goto, NotifyAll, NoCrash, DomainInv, TailInv
    <2>6. ASSUME SignalsOn PROVE ReachInv'
      BY <2>1, <2>6 DEF SignalsOn, Goto, NoCrash, DomainInv, TailInv
    <2>7. ASSUME SignalsRefused PROVE ReachInv'
      BY <2>1, <2>7 DEF SignalsRefused, Goto, NoCrash, DomainInv, TailInv
    <2>8. ASSUME EnterGuestRegion PROVE ReachInv'
      BY <2>1, <2>8 DEF EnterGuestRegion, DomainFree, Enterable, NoCrash, DomainInv, TailInv
    <2>9. ASSUME GuestStep PROVE ReachInv'
      BY <2>1, <2>9 DEF GuestStep, Goto, NoCrash, DomainInv, TailInv
    <2>10. ASSUME BeginHostcall PROVE ReachInv'
      BY <2>1, <2>10 DEF BeginHostcall, DomainFree, NoCrash, DomainInv, TailInv
    <2>11. ASSUME HostcallBody PROVE ReachInv'
      BY <2>1, <2>11 DEF HostcallBody, NoCrash, DomainInv, TailInv
    <2>12. ASSUME EndHostcall PROVE ReachInv'
      BY <2>1, <2>12 DEF EndHostcall, DomainFree, Returnable, NoCrash, DomainInv, TailInv
    <2>13. ASSUME TakeTerminable PROVE ReachInv'
      BY <2>1, <2>13 DEF TakeTerminable, TerminableTaken, NoCrash, DomainInv, TailInv
    <2>14. ASSUME LeaveGuestRegion PROVE ReachInv'
      BY <2>1, <2>14 DEF LeaveGuestRegion, DomainFree, Holders, NoCrash, DomainInv, TailInv
    <2>15. ASSUME GuestFault PROVE ReachInv'
      BY <2>1, <2>15 DEF GuestFault, Goto, NoCrash
    <2>16. ASSUME DisableTermination PROVE ReachInv'
      BY <2>1, <2>16 DEF DisableTermination, TerminableTaken, AlarmSilenced, NoCrash, DomainInv, TailInv
    <2>17. ASSUME TakeAlarm PROVE ReachInv'
      <3> USE <2>1, <2>17 DEF TakeAlarm, AlarmActive, NoCrash
      <3>1. pc \in GuestPc \cup {"signals_off", "unset_tid"}
        BY DEF AlarmInv
      <3>2. crash' = "host_alarm" => ignoreAlarm[call]
        <4>1. CASE pc \in GuestPc
          BY <4>1 DEF DomainInv
        <4>2. CASE pc \in {"signals_off", "unset_tid"}
          BY <4>2 DEF AlarmInv
        <4> QED
          BY <3>1, <4>1, <4>2
      <3>3. crash' # "not_running" /\ ignoreAlarm' = ignoreAlarm /\ call' = call
        OBVIOUS
      <3>4. pc' \in GuestPc \cup {"signals_off", "unset_tid"}
        BY <3>1
      <3>5. pc' \in GuestPc \cup {"signals_off"} => handler'
        <4>1. CASE pc' = pc
          BY <4>1
        <4>2. CASE handler /\ current
          BY <4>2
        <4> QED
          BY <4>1, <4>2
      <3> QED
        BY <3>2, <3>3, <3>4, <3>5
    <2>18. ASSUME SignalsOff PROVE ReachInv'
      BY <2>1, <2>18 DEF SignalsOff, Goto, NoCrash, DomainInv, TailInv
    <2>19. ASSUME UnsetThreadId PROVE ReachInv'
      BY <2>1, <2>19 DEF UnsetThreadId, Goto, NoCrash, ExitInv
    <2>20. ASSUME NotifyDescheduled PROVE ReachInv'
      BY <2>1, <2>20 DEF NotifyDescheduled, Goto, NotifyAll, NoCrash, DomainInv, TailInv
    <2>21. ASSUME SettleDomain PROVE ReachInv'
      BY <2>1, <2>21 DEF SettleDomain, Goto, DomainFree, NoCrash, DomainInv, TailInv
    <2>22. ASSUME ClearCurrentInstance PROVE ReachInv'
      BY <2>1, <2>22 DEF ClearCurrentInstance, Goto, NoCrash, DomainInv, TailInv
    <2>23. ASSUME Finish PROVE ReachInv'
      BY <2>1, <2>23 DEF Finish, Goto, RestingState, Unfinished, NoCrash, DomainInv, TailInv
    <2>24. ASSUME NEW s \in Switches, TakeKillSwitch(s) PROVE ReachInv'
      BY <2>1, <2>24 DEF TakeKillSwitch, NoCrash, TargetInv, LockInv
    <2>25. ASSUME NEW s \in Switches, Upgrade(s) PROVE ReachInv'
      BY <2>1, <2>25 DEF Upgrade, Alive, Holders, NoCrash, TargetInv, LockInv
    <2>26. ASSUME NEW s \in Switches, SwapTerminable(s) PROVE ReachInv'
      BY <2>1, <2>26 DEF SwapTerminable, Return, TerminableTaken, NoCrash, TargetInv, LockInv
    <2>27. ASSUME NEW s \in Switches, LockDomain(s) PROVE ReachInv'
      BY <2>1, <2>27 DEF LockDomain, Return, NoCrash, TargetInv, LockInv
    <2>28. ASSUME NEW s \in Switches, SendAlarm(s) PROVE ReachInv'
      <3> USE <2>1, <2>28 DEF SendAlarm, NoCrash
      <3>1. target[s] = call /\ domain[call] = "Guest"
        <4>1. target[s] \in Calls /\ target[s] <= call
          BY DEF TargetInv
        <4>2. domain[target[s]] = "Guest"
          BY <4>1 DEF LockInv
        <4> QED
          BY <4>1, <4>2 DEF OtherCallsInv
      <3>2. CASE threadId[call]
        BY <3>1, <3>2
      <3>3. CASE ~threadId[call]
        <4>1. pc \in {"notify", "settle"}
          BY <3>1, <3>3 DEF DomainInv
        <4>2. ignoreAlarm[call]
          BY <3>1, <4>1
        <4> QED
          BY <3>1, <3>3, <4>1, <4>2
      <3> QED
        BY <3>2, <3>3
    <2>29. ASSUME NEW s \in Switches, Woken(s) PROVE ReachInv'
      BY <2>1, <2>29 DEF Woken, Return, NoCrash, TargetInv, LockInv
    <2>30. ASSUME NEW s \in Switches, DropReference(s) PROVE ReachInv'
      BY <2>1, <2>30 DEF DropReference, NoCrash, TargetInv, LockInv
    <2> QED
      BY <1>2, NextCases, <2>2, <2>3, <2>4, <2>5, <2>6, <2>7, <2>8, <2>9, <2>10, <2>11, <2>12, <2>13, <2>14, <2>15, <2>16, <2>17, <2>18, <2>19, <2>20, <2>21, <2>22, <2>23, <2>24, <2>25, <2>26, <2>27, <2>28, <2>29, <2>30
         DEF Guest, Runtime, Terminate
  <1> QED
    BY <1>1, <1>2

\* A switch that fires finds the thread it must signal and Lucet's handler, unless
\* the guest has faulted and silenced its alarm.
THEOREM FiringReaches == Spec => []FiringFindsGuest
  <1>1. Init => ReachInv
    BY DEF Init, ReachInv, FiringFindsGuest, GuestPc, NoCrash
  <1>2. IndInv /\ ReachInv /\ [Next]_vars => ReachInv'
    <2> SUFFICES ASSUME IndInv, ReachInv, [Next]_vars PROVE ReachInv'
      OBVIOUS
    <2>1. CASE Next
      BY <2>1, ReachStep
    <2>2. CASE UNCHANGED vars
      BY <2>2 DEF vars, hostVars, killStateVars, switchVars, ReachInv, FiringFindsGuest
    <2> QED
      BY <2>1, <2>2
  <1>3. ReachInv => FiringFindsGuest
    BY DEF ReachInv
  <1> QED
    BY <1>1, <1>2, <1>3, Invariance, PTL DEF Spec

=============================================================================
