--------------------------- MODULE ContractProofs ---------------------------
(***************************************************************************)
(* Without set-up errors, KillSwitch implements TerminationContract and    *)
(* reaches none of the runtime's domain panics, for any set of switches    *)
(* and any number of calls.                                                *)
(***************************************************************************)
EXTENDS KillSwitchProofs

USE MaxCallsAssumption, FlagsAssumption, SwitchesAssumption
USE DEF Calls, NoCall

\* What a step of the runtime is to the contract.
ContractStep == Contract!Next \/ UNCHANGED <<Phase, Doomed>>

\* The KillState of the next call is fresh.
LEMMA NextIsFresh ==
    ASSUME IndInv, call < MaxCalls
    PROVE  domain[call + 1] = "Pending" /\ domainLock[call + 1] = Unlocked
  <1> USE DEF IndInv, TypeOK, HostTypeOK, KillStateTypeOK, SwitchTypeOK
  <1>1. call + 1 \in Calls /\ call + 1 > call
    OBVIOUS
  <1>2. domain[call + 1] = "Pending"
    BY <1>1 DEF OtherCallsInv
  <1> QED
    BY <1>1, <1>2 DEF LockInv

\* A switch holds the lock of the current KillState, in domain Guest.
LEMMA HolderIsCurrent ==
    ASSUME IndInv, NEW s \in Switches, kpc[s] \in Holding
    PROVE  target[s] = call /\ domainLock[call] = s /\ domain[call] = "Guest"
  <1> USE DEF IndInv, TypeOK, HostTypeOK, KillStateTypeOK, SwitchTypeOK
  <1>1. target[s] \in Calls /\ target[s] <= call
    BY DEF TargetInv, Holding
  <1>2. domainLock[target[s]] = s
    BY DEF LockInv
  <1>3. s # Unlocked
    BY SwitchesAssumption
  <1>4. domain[target[s]] = "Guest"
    BY <1>1, <1>2, <1>3 DEF LockInv
  <1> QED
    BY <1>1, <1>2, <1>4 DEF OtherCallsInv

\* Every step of the runtime is a step of the contract or none.
LEMMA ContractStepHolds ==
    ASSUME ~SetupFails, IndInv, IndInv', Next
    PROVE  ContractStep
  <1> USE DEF IndInv, hostVars, killStateVars, switchVars, Phase, Doomed, Returned
  <1> USE DEF TypeOK, HostTypeOK, KillStateTypeOK, SwitchTypeOK
  <1> USE DEF Pc, GuestPc, TailPc, HostPc, RunningPc, RestPc, State, Domain, Holding
  <1> USE DEF ContractStep, Contract!Next, Contract!Advance
  <1>1. CASE vars' = vars
    BY <1>1 DEF vars
  <1>2. ASSUME Run PROVE ContractStep
    BY <1>2 DEF Run, SwapIn, SwapRefused, DomainInv, TailInv, SuspendInv, FreshInv
  <1>3. ASSUME Resume PROVE ContractStep
    BY <1>3 DEF Resume, SwapIn, SwapRefused, DomainInv, TailInv, SuspendInv,
       FreshInv
  <1>4. ASSUME Reset PROVE ContractStep
    <2>1. domain[call + 1] = "Pending" /\ domainLock[call + 1] = Unlocked
      BY <1>4, NextIsFresh DEF Reset
    <2>2. Phase' = "rest" /\ Doomed' = FALSE
      BY <1>4, <2>1 DEF Reset
    <2>3. Phase \in {"rest", "suspended"}
      BY <1>4 DEF Reset
    <2> QED
      BY <2>2, <2>3 DEF Contract!Renew
  <1>5. ASSUME Schedule PROVE ContractStep
    BY <1>5 DEF Schedule, Goto, NotifyAll, DomainInv, TailInv, SuspendInv, FreshInv
  <1>6. ASSUME SignalsOn PROVE ContractStep
    BY <1>6 DEF SignalsOn, Goto, Contract!Resume, DomainInv, TailInv, SuspendInv,
       FreshInv
  <1>7. ASSUME SignalsRefused PROVE ContractStep
    BY <1>7 DEF SignalsRefused, Goto, DomainInv, TailInv, SuspendInv, FreshInv
  <1>8. ASSUME EnterGuestRegion PROVE ContractStep
    BY <1>8 DEF EnterGuestRegion, DomainFree, Enterable, Contract!Start,
       Contract!Stop, DomainInv, TailInv, SuspendInv, FreshInv
  <1>9. ASSUME GuestStep PROVE ContractStep
    BY <1>9 DEF GuestStep, Goto, DomainInv, TailInv, SuspendInv, FreshInv
  <1>10. ASSUME BeginHostcall PROVE ContractStep
    BY <1>10 DEF BeginHostcall, DomainFree, Contract!CallHost, DomainInv, TailInv,
       SuspendInv, FreshInv
  <1>11. ASSUME HostcallBody PROVE ContractStep
    BY <1>11 DEF HostcallBody, Contract!Yield, Contract!Stop, DomainInv, TailInv,
       SuspendInv, FreshInv
  <1>12. ASSUME EndHostcall PROVE ContractStep
    BY <1>12 DEF EndHostcall, DomainFree, Returnable, Contract!HostReturns,
       Contract!Stop, DomainInv, TailInv, SuspendInv, FreshInv
  <1>13. ASSUME TakeTerminable PROVE ContractStep
    BY <1>13 DEF TakeTerminable, TerminableTaken, DomainInv, TailInv, SuspendInv,
       FreshInv
  <1>14. ASSUME LeaveGuestRegion PROVE ContractStep
    BY <1>14 DEF LeaveGuestRegion, DomainFree, Holders, Contract!GuestReturns,
       DomainInv, TailInv, SuspendInv, FreshInv, AlarmInv, ExitInv
  <1>15. ASSUME GuestFault PROVE ContractStep
    BY <1>15 DEF GuestFault, Goto, DomainInv, TailInv, SuspendInv, FreshInv
  <1>16. ASSUME DisableTermination PROVE ContractStep
    BY <1>16 DEF DisableTermination, TerminableTaken, AlarmSilenced, Contract!Stop,
       DomainInv, TailInv, SuspendInv, FreshInv
  <1>17. ASSUME TakeAlarm PROVE ContractStep
    BY <1>17 DEF TakeAlarm, AlarmActive, Contract!Stop, DomainInv, TailInv,
       SuspendInv, FreshInv, AlarmInv, ExitInv
  <1>18. ASSUME SignalsOff PROVE ContractStep
    BY <1>18 DEF SignalsOff, Goto, DomainInv, TailInv, SuspendInv, FreshInv
  <1>19. ASSUME UnsetThreadId PROVE ContractStep
    BY <1>19 DEF UnsetThreadId, Goto, DomainInv, TailInv, SuspendInv, FreshInv
  <1>20. ASSUME NotifyDescheduled PROVE ContractStep
    BY <1>20 DEF NotifyDescheduled, Goto, NotifyAll, DomainInv, TailInv, SuspendInv,
       FreshInv
  <1>21. ASSUME SettleDomain PROVE ContractStep
    BY <1>21 DEF SettleDomain, Goto, DomainFree, Contract!Doom, DomainInv, TailInv,
       SuspendInv, FreshInv
  <1>22. ASSUME ClearCurrentInstance PROVE ContractStep
    BY <1>22 DEF ClearCurrentInstance, Goto, DomainInv, TailInv, SuspendInv,
       FreshInv
  <1>23. ASSUME Finish PROVE ContractStep
    <2> USE <1>23 DEF Finish, Goto, RestingState, Unfinished, FreshInv, SuspendInv
    <2>1. CASE state \in Unfinished
      BY <2>1
    <2>2. CASE state \notin Unfinished
      <3>1. domain[call + 1] = "Pending" /\ domainLock[call + 1] = Unlocked
        BY NextIsFresh DEF TailInv
      <3>2. Phase' = "rest" /\ Doomed' = FALSE
        BY <2>2, <3>1
      <3>3. Phase \in {"rest", "stopping"}
        BY <2>2
      <3> QED
        BY <3>2, <3>3 DEF Contract!Renew
    <2> QED
      BY <2>1, <2>2
  <1>24. ASSUME NEW s \in Switches, TakeKillSwitch(s) PROVE ContractStep
    BY <1>24 DEF TakeKillSwitch, DomainInv, TailInv, SuspendInv, FreshInv,
       TargetInv, LockInv, OtherCallsInv
  <1>25. ASSUME NEW s \in Switches, Upgrade(s) PROVE ContractStep
    BY <1>25 DEF Upgrade, Alive, Holders, DomainInv, TailInv, SuspendInv, FreshInv,
       TargetInv, LockInv, OtherCallsInv
  <1>26. ASSUME NEW s \in Switches, SwapTerminable(s) PROVE ContractStep
    BY <1>26 DEF SwapTerminable, Return, TerminableTaken, DomainInv, TailInv,
       SuspendInv, FreshInv, TargetInv, LockInv, OtherCallsInv
  <1>27. ASSUME NEW s \in Switches, LockDomain(s) PROVE ContractStep
    BY <1>27 DEF LockDomain, Return, Contract!Doom, DomainInv, TailInv, SuspendInv,
       FreshInv, TargetInv, LockInv, OtherCallsInv
  <1>28. ASSUME NEW s \in Switches, SendAlarm(s) PROVE ContractStep
    BY <1>28 DEF SendAlarm, DomainInv, TailInv, SuspendInv, FreshInv, TargetInv,
       LockInv, OtherCallsInv
  <1>29. ASSUME NEW s \in Switches, Woken(s) PROVE ContractStep
    <2> USE <1>29 DEF Woken, Return
    <2>1. target[s] = call /\ domainLock[call] = s /\ domain[call] = "Guest"
      BY HolderIsCurrent
    <2>2. Phase' = Phase
      OBVIOUS
    <2>3. Doomed' = Doomed
      BY <2>1 DEF ExitInv, FreshInv
    <2> QED
      BY <2>2, <2>3
  <1>30. ASSUME NEW s \in Switches, DropReference(s) PROVE ContractStep
    BY <1>30 DEF DropReference, DomainInv, TailInv, SuspendInv, FreshInv, TargetInv,
       LockInv, OtherCallsInv
  <1> QED
    BY <1>1, <1>2, <1>3, <1>4, <1>5, <1>6, <1>7, <1>8, <1>9, <1>10, <1>11,
       <1>12, <1>13, <1>14, <1>15, <1>16, <1>17, <1>18, <1>19, <1>20, <1>21,
       <1>22, <1>23, <1>24, <1>25, <1>26, <1>27, <1>28, <1>29, <1>30, NextCases
       DEF Guest, Runtime, Terminate

\* The instance starts at rest.
LEMMA ContractInit ==
    ASSUME Init
    PROVE  Contract!Init
  BY DEF Init, Contract!Init, Phase, Doomed, Returned, GuestPc, TailPc, Unlocked

-----------------------------------------------------------------------------
(* The panics.                                                             *)

\* No step panics on the domain it finds, or silences an alarm twice.
LEMMA NoPanicStep ==
    ASSUME ~SetupFails, IndInv, NoInvalidState, [Next]_vars
    PROVE  NoInvalidState'
  <1> USE DEF IndInv, NoInvalidState, hostVars, killStateVars, switchVars
  <1> USE DEF TypeOK, HostTypeOK, KillStateTypeOK, SwitchTypeOK, GuestPc, TailPc
  <1>1. CASE UNCHANGED vars
    BY <1>1 DEF vars
  <1>2. CASE EnterGuestRegion
    BY <1>2 DEF EnterGuestRegion, FreshInv, Enterable
  <1>3. CASE BeginHostcall
    BY <1>3 DEF BeginHostcall, DomainInv
  <1>4. CASE EndHostcall
    BY <1>4 DEF EndHostcall, DomainInv, Returnable
  <1>5. CASE LeaveGuestRegion
    BY <1>5 DEF LeaveGuestRegion, DomainInv
  <1>6. CASE DisableTermination
    BY <1>6 DEF DisableTermination, TailInv
  <1>7. CASE TakeAlarm
    BY <1>7 DEF TakeAlarm
  <1>8. ASSUME NEW s \in Switches, SendAlarm(s) PROVE NoInvalidState'
    BY <1>8 DEF SendAlarm
  <1>9. CASE Run \/ Resume \/ Reset
    BY <1>9 DEF Run, Resume, Reset, SwapIn, SwapRefused
  <1>10. CASE GuestStep \/ HostcallBody \/ GuestFault \/ TakeTerminable
    BY <1>10 DEF GuestStep, HostcallBody, GuestFault, TakeTerminable
  <1>11. CASE Schedule \/ SignalsOn \/ SignalsRefused
    BY <1>11 DEF Schedule, SignalsOn, SignalsRefused
  <1>12. CASE SignalsOff \/ UnsetThreadId \/ NotifyDescheduled
    BY <1>12 DEF SignalsOff, UnsetThreadId, NotifyDescheduled
  <1>13. CASE SettleDomain \/ ClearCurrentInstance \/ Finish
    BY <1>13 DEF SettleDomain, ClearCurrentInstance, Finish
  <1>14. ASSUME NEW s \in Switches,
                TakeKillSwitch(s) \/ Upgrade(s) \/ SwapTerminable(s)
         PROVE  NoInvalidState'
    BY <1>14 DEF TakeKillSwitch, Upgrade, SwapTerminable
  <1>15. ASSUME NEW s \in Switches, LockDomain(s) \/ Woken(s) \/ DropReference(s)
         PROVE  NoInvalidState'
    BY <1>15 DEF LockDomain, Woken, DropReference
  <1> QED
    BY <1>1, <1>2, <1>3, <1>4, <1>5, <1>6, <1>7, <1>8, <1>9, <1>10, <1>11,
       <1>12, <1>13, <1>14, <1>15, NextCases
       DEF Guest, Runtime, Terminate

\* When no set-up fails, none of the "Invalid state" panics of
\* enter_guest_region, begin_hostcall, end_hostcall and exit_guest_region is
\* ever reached, nor handle_signal's assertion that an alarm is silenced once.
THEOREM NoDomainPanics == ~SetupFails => (Spec => []NoInvalidState)
  <1> SUFFICES ASSUME ~SetupFails PROVE Spec => []NoInvalidState
    OBVIOUS
  <1>1. Init => NoInvalidState
    BY DEF Init, NoInvalidState, NoCrash
  <1>2. IndInv /\ NoInvalidState /\ [Next]_vars => NoInvalidState'
    BY NoPanicStep
  <1>3. Spec => []IndInv
    BY Invariance
  <1> QED
    BY <1>1, <1>2, <1>3, PTL DEF Spec

\* When no set-up fails, every behaviour of the runtime is one of
\* TerminationContract under the mapping Phase, Doomed: a call that a switch has
\* decided to stop is never started, handed control by a hostcall or reported as
\* returned.
THEOREM ContractKept == ~SetupFails => (Spec => KeepsContract)
  <1> SUFFICES ASSUME ~SetupFails PROVE Spec => Contract!Spec
    BY DEF KeepsContract
  <1>1. Init => Contract!Init
    BY ContractInit
  <1>2. IndInv /\ IndInv' /\ [Next]_vars => [Contract!Next]_(Contract!contractVars)
    <2> SUFFICES ASSUME IndInv, IndInv', [Next]_vars
                 PROVE  [Contract!Next]_(Contract!contractVars)
      OBVIOUS
    <2>1. CASE Next
      BY <2>1, ContractStepHolds DEF ContractStep, Contract!contractVars
    <2>2. CASE UNCHANGED vars
      BY <2>2 DEF vars, hostVars, killStateVars, switchVars, Phase, Doomed,
         Returned, Contract!contractVars
    <2> QED
      BY <2>1, <2>2
  <1>3. Spec => []IndInv
    BY Invariance
  <1> QED
    BY <1>1, <1>2, <1>3, PTL DEF Spec, Contract!Spec

=============================================================================
