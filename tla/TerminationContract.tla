------------------------ MODULE TerminationContract ------------------------
(***************************************************************************)
(* What remote termination promises an embedder, one call into the guest   *)
(* after the other.  A call is doomed from the moment a KillSwitch has     *)
(* decided to stop it; from then on the guest may be interrupted at any    *)
(* time, and it never again crosses a border that hands it control: it     *)
(* does not start, does not come back from a hostcall, does not begin one, *)
(* and does not return a value to the embedder.                            *)
(*                                                                         *)
(* Source: the borders a call crosses, and KillSwitch::terminate, in       *)
(* lucet-runtime-internals/src/instance/execution.rs.                      *)
(***************************************************************************)

VARIABLES
    phase,   \* what the call is doing
    doomed   \* has a KillSwitch decided to stop it?

contractVars == <<phase, doomed>>

Phase == {"rest", "guest", "hostcall", "suspended", "stopping"}

Init == phase = "rest" /\ doomed = FALSE

\* One step of the call that only a live call may take.
Advance(from, to) ==
    /\ phase = from
    /\ ~doomed
    /\ phase' = to
    /\ UNCHANGED doomed

Start == Advance("rest", "guest")
CallHost == Advance("guest", "hostcall")
HostReturns == Advance("hostcall", "guest")
GuestReturns == Advance("guest", "rest")

\* Suspension is part of a hostcall: termination waits until it is over.
Yield ==
    /\ phase = "hostcall"
    /\ phase' = "suspended"
    /\ UNCHANGED doomed

Resume ==
    /\ phase = "suspended"
    /\ phase' = "hostcall"
    /\ UNCHANGED doomed

Doom ==
    /\ ~doomed
    /\ doomed' = TRUE
    /\ UNCHANGED phase

\* The call ends without returning: terminated, cancelled before it starts, or
\* faulted.
Stop ==
    /\ \/ phase \in {"guest", "hostcall"}
       \/ phase = "rest" /\ doomed
    /\ phase' = "stopping"
    /\ UNCHANGED doomed

\* The next call starts with a clean slate.
Renew ==
    /\ phase \in {"rest", "suspended", "stopping"}
    /\ phase' = "rest"
    /\ doomed' = FALSE

Next ==
    \/ Start \/ CallHost \/ HostReturns \/ GuestReturns
    \/ Yield \/ Resume \/ Doom \/ Stop \/ Renew

Spec == Init /\ [][Next]_contractVars
=============================================================================
