---------------------------- MODULE SignalProofs ----------------------------
(***************************************************************************)
(* Theorems about SignalState, for any finite set of threads and any       *)
(* number of signals.                                                      *)
(***************************************************************************)
EXTENDS SignalState, FiniteSetTheorems, TLAPS

-----------------------------------------------------------------------------
(* The inductive invariant.                                                *)

\* Where threads change the count of users, and where they answer a signal.
Changing == {"increment", "install", "decrement", "restore"}
Answering == {"handler", "raise", "default", "answered"}

Places == Changing \cup Answering \cup {"host", "guest", "unstack"}

Thread ==
    [at : Places, ensure : BOOLEAN, stack : BOOLEAN, done : 0 .. NSignals,
     sig : 0 .. NSignals, seen : BOOLEAN]

TypeOK ==
    /\ action \in [Signals -> {Host, Lucet}]
    /\ hook \in {Host, Lucet}
    /\ counter \in Nat
    /\ saved \in [Signals -> {None, Host, Lucet}]
    /\ lock \in Threads \cup {None}
    /\ manual \in BOOLEAN
    /\ manualLock \in Threads \cup {None}
    /\ thread \in [Threads -> Thread]
    /\ altstack \in [Threads -> Threads \cup {Host}]
    /\ hostAction \in {"SigDfl", "SigIgn", "Handler"}
    /\ dead \in BOOLEAN

\* What a thread keeps where, and that its signal stack is the one it asked for.  Where
\* the handler is through with a signal, the host has seen it.
ThreadInv ==
    \A t \in Threads :
        LET th == thread[t] IN
        /\ th.at = "host" => ~th.ensure /\ ~th.stack
        /\ th.at \in Answering => th.sig \in Signals /\ ~th.ensure /\ ~th.stack
        /\ th.at \notin Answering => th.sig = 0
        /\ th.at \in {"default", "answered"} => th.seen
        /\ altstack[t] = IF th.stack THEN t ELSE Host

\* The outer lock is held by the thread that installs or removes by hand, and what it
\* installs or removes stays as it is until it is through.  A guest that relies on the
\* installation by hand keeps others from removing it.
ManualInv ==
    \A t \in Threads :
        LET th == thread[t] IN
        /\ manualLock = t <=> th.at \in Changing /\ ~th.ensure
        /\ manualLock = t => ~th.stack /\ (manual <=> th.at \in {"decrement", "restore"})
        /\ th.at = "guest" /\ ~th.ensure => manual /\ manualLock = None

\* Who holds the lock of the signal state: the thread that changes the handlers while
\* nobody uses them, or one that raises a signal again.
LockInv ==
    /\ \A t \in Threads : thread[t].at \in {"install", "restore", "raise"} => lock = t
    /\ \A t \in Threads :
          lock = t => thread[t].at \in {"install", "restore", "raise", "answered"}
    /\ lock # None => counter = 0

\* The users of the signal state: runs, and the installation by hand, which stands
\* under None.
ManualUse == manual /\ \A t \in Threads : manualLock = t => thread[t].at # "restore"
RunUses(t) == thread[t].ensure /\ thread[t].at \in {"guest", "decrement"}
Users == {u \in Threads \cup {None} : IF u = None THEN ManualUse ELSE RunUses(u)}

CountInv == counter = Cardinality(Users)

\* The handlers while there are users, while there are none, and half way between.
HandlersInv ==
    /\ counter > 0 => /\ hook = Lucet
                      /\ \A g \in Signals : saved[g] = Host
                      /\ ~dead => \A g \in Signals : action[g] = Lucet
    /\ counter = 0 /\ (\A t \in Threads : thread[t].at \notin {"install", "restore"}) =>
          hook = Host /\ \A g \in Signals : action[g] = Host
    /\ \A t \in Threads : thread[t].at = "install" /\ ~dead =>
          \A g \in Signals : IF g <= thread[t].done THEN saved[g] = Host /\ action[g] = Lucet
                             ELSE action[g] = Host
    /\ \A t \in Threads : thread[t].at = "restore" /\ ~dead =>
          \A g \in Signals : /\ saved[g] = Host
                             /\ action[g] = IF g <= thread[t].done THEN Host ELSE Lucet

IndInv == TypeOK /\ ThreadInv /\ ManualInv /\ LockInv /\ CountInv /\ HandlersInv

-----------------------------------------------------------------------------
(* The number of users.                                                    *)

USE SignalAssumption, ThreadsAssumption
USE DEF Signals, None, Lucet, Host, Changing, Answering, Places

\* The users are finitely many, so their number is zero only if there are none.
LEMMA UsersFinite ==
    /\ IsFiniteSet(Users)
    /\ Cardinality(Users) \in Nat
    /\ Cardinality(Users) = 0 <=> Users = {}
  <1>1. IsFiniteSet(Threads \cup {None})
    BY FS_AddElement
  <1>2. Users \in SUBSET (Threads \cup {None})
    BY DEF Users
  <1>3. IsFiniteSet(Users)
    BY <1>1, <1>2, FS_Subset
  <1> QED
    BY <1>3, FS_CardinalityType, FS_EmptySet

\* Another user makes one more, and a user less one less.
LEMMA OneMore ==
    ASSUME NEW u, u \notin Users, Users' = Users \cup {u}
    PROVE  Cardinality(Users)' = Cardinality(Users) + 1
  BY UsersFinite, FS_AddElement

\* When one user of the signal state leaves, there is one user less.
LEMMA OneLess ==
    ASSUME NEW u, u \in Users, Users' = Users \ {u}
    PROVE  Cardinality(Users)' = Cardinality(Users) - 1
  BY UsersFinite, FS_RemoveElement

\* Who uses the signal state after a step, from the runs and the installation by hand.
LEMMA SameUsers ==
    ASSUME ManualUse' <=> ManualUse, \A u \in Threads : RunUses(u)' <=> RunUses(u)
    PROVE  Users' = Users
  BY DEF Users

\* One more thread, or the installation by hand, uses the signal state, or one less.
LEMMA RunJoins ==
    ASSUME NEW t \in Threads, ~RunUses(t), RunUses(t)', ManualUse' <=> ManualUse,
           \A u \in Threads : u # t => (RunUses(u)' <=> RunUses(u))
    PROVE  Cardinality(Users)' = Cardinality(Users) + 1
  <1>1. t \notin Users /\ Users' = Users \cup {t}
    BY DEF Users
  <1> QED
    BY <1>1, OneMore

\* An installation by hand is one user more.
LEMMA ManualJoins ==
    ASSUME ~ManualUse, ManualUse', \A u \in Threads : RunUses(u)' <=> RunUses(u)
    PROVE  Cardinality(Users)' = Cardinality(Users) + 1
  <1>1. None \notin Users /\ Users' = Users \cup {None}
    BY DEF Users
  <1> QED
    BY <1>1, OneMore

\* A run that stops using the signal state is one user less.
LEMMA RunLeaves ==
    ASSUME NEW t \in Threads, RunUses(t), ~RunUses(t)', ManualUse' <=> ManualUse,
           \A u \in Threads : u # t => (RunUses(u)' <=> RunUses(u))
    PROVE  Cardinality(Users)' = Cardinality(Users) - 1 /\ Cardinality(Users) > 0
  <1>1. t \in Users /\ Users' = Users \ {t}
    BY DEF Users
  <1>2. Cardinality(Users) > 0
    BY <1>1, UsersFinite
  <1> QED
    BY <1>1, <1>2, OneLess

\* The end of an installation by hand is one user less.
LEMMA ManualLeaves ==
    ASSUME ManualUse, ~ManualUse', \A u \in Threads : RunUses(u)' <=> RunUses(u)
    PROVE  Cardinality(Users)' = Cardinality(Users) - 1 /\ Cardinality(Users) > 0
  <1>1. None \in Users /\ Users' = Users \ {None}
    BY DEF Users
  <1>2. Cardinality(Users) > 0
    BY <1>1, UsersFinite
  <1> QED
    BY <1>1, <1>2, OneLess

\* A guest with its own share in the count, and one that relies on the installation by
\* hand, are reason enough for the count not to be zero.
LEMMA UsedByGuest ==
    ASSUME IndInv, NEW t \in Threads, thread[t].at = "guest"
    PROVE  counter > 0
  <1>1. CASE thread[t].ensure
    <2>1. t \in Users
      BY <1>1 DEF Users, RunUses
    <2> QED
      BY <2>1, UsersFinite DEF IndInv, TypeOK, CountInv
  <1>2. CASE ~thread[t].ensure
    <2>1. None \in Users
      BY <1>2 DEF Users, RunUses, ManualUse, IndInv, ManualInv
    <2> QED
      BY <2>1, UsersFinite DEF IndInv, TypeOK, CountInv
  <1> QED
    BY <1>1, <1>2 DEF IndInv, TypeOK, Thread

\* A thread that is about to give up its share has one.
LEMMA UsedByLeaving ==
    ASSUME IndInv, NEW t \in Threads, thread[t].at = "decrement"
    PROVE  counter > 0
  <1>1. CASE thread[t].ensure
    <2>1. t \in Users
      BY <1>1 DEF Users, RunUses
    <2> QED
      BY <2>1, UsersFinite DEF IndInv, TypeOK, CountInv
  <1>2. CASE ~thread[t].ensure
    <2>1. None \in Users
      BY <1>2 DEF Users, ManualUse, IndInv, ManualInv
    <2> QED
      BY <2>1, UsersFinite DEF IndInv, TypeOK, CountInv
  <1> QED
    BY <1>1, <1>2

-----------------------------------------------------------------------------
(* What a step does to its thread.                                         *)

\* Thread t gets this record, and no other thread changes.
Moves(t, at, ensure, stack, done, sig, seen) ==
    /\ thread' \in [Threads -> Thread]
    /\ \A u \in Threads : u # t => thread'[u] = thread[u]
    /\ thread'[t].at = at
    /\ thread'[t].ensure = ensure
    /\ thread'[t].stack = stack
    /\ thread'[t].done = done
    /\ thread'[t].sig = sig
    /\ thread'[t].seen = seen

\* A thread between two runs is a thread.
LEMMA AtHostType == AtHost \in Thread
  BY DEF AtHost, Thread

\* What the fields of a thread between two runs are.
LEMMA AtHostFields ==
    /\ AtHost \in Thread
    /\ AtHost.at = "host" /\ AtHost.ensure = FALSE /\ AtHost.stack = FALSE
    /\ AtHost.done = 0 /\ AtHost.sig = 0 /\ AtHost.seen = FALSE
  BY AtHostType DEF AtHost

\* Become gives one thread a new state and leaves the others alone.
LEMMA BecomeMoves ==
    ASSUME TypeOK, NEW t \in Threads, NEW th \in Thread, Become(t, th)
    PROVE  Moves(t, th.at, th.ensure, th.stack, th.done, th.sig, th.seen)
  BY DEF TypeOK, Become, Moves

\* Home takes one thread back to its host and leaves the others alone.
LEMMA HomeMoves ==
    ASSUME TypeOK, NEW t \in Threads, Become(t, AtHost)
    PROVE  Moves(t, "host", FALSE, FALSE, 0, 0, FALSE)
  <1>1. Moves(t, AtHost.at, AtHost.ensure, AtHost.stack, AtHost.done, AtHost.sig,
              AtHost.seen)
    BY AtHostType, BecomeMoves
  <1> QED
    BY <1>1 DEF AtHost

\* Goto moves the program counter of one thread and nothing else of it.
LEMMA GotoMoves ==
    ASSUME TypeOK, NEW t \in Threads, NEW at \in Places, Goto(t, at)
    PROVE  Moves(t, at, thread[t].ensure, thread[t].stack, thread[t].done, thread[t].sig,
                 thread[t].seen)
  <1> DEFINE th == [thread[t] EXCEPT !.at = at]
  <1>1. /\ th \in Thread
        /\ th.at = at /\ th.ensure = thread[t].ensure /\ th.stack = thread[t].stack
        /\ th.done = thread[t].done /\ th.sig = thread[t].sig /\ th.seen = thread[t].seen
    <2>1. thread[t] \in Thread
      BY DEF TypeOK
    <2> QED
      BY <2>1 DEF Thread
  <1>2. Moves(t, th.at, th.ensure, th.stack, th.done, th.sig, th.seen)
    BY <1>1, BecomeMoves DEF Goto
  <1> QED
    BY <1>1, <1>2

\* A loop over the signals that starts again, at its own place.
LEMMA RestartMoves ==
    ASSUME TypeOK, NEW t \in Threads, NEW at \in Places,
           Become(t, [thread[t] EXCEPT !.at = at, !.done = 0])
    PROVE  Moves(t, at, thread[t].ensure, thread[t].stack, 0, thread[t].sig, thread[t].seen)
  <1> DEFINE th == [thread[t] EXCEPT !.at = at, !.done = 0]
  <1>1. 0 \in 0 .. NSignals
    OBVIOUS
  <1>2. /\ th \in Thread
        /\ th.at = at /\ th.ensure = thread[t].ensure /\ th.stack = thread[t].stack
        /\ th.done = 0 /\ th.sig = thread[t].sig /\ th.seen = thread[t].seen
    <2>1. thread[t] \in Thread
      BY DEF TypeOK
    <2> QED
      BY <1>1, <2>1 DEF Thread
  <1>3. Moves(t, th.at, th.ensure, th.stack, th.done, th.sig, th.seen)
    BY <1>2, BecomeMoves
  <1> QED
    BY <1>2, <1>3

\* A loop over the signals that has handled n of them.
LEMMA DoneMoves ==
    ASSUME TypeOK, NEW t \in Threads, NEW n \in 0 .. NSignals,
           Become(t, [thread[t] EXCEPT !.done = n])
    PROVE  Moves(t, thread[t].at, thread[t].ensure, thread[t].stack, n, thread[t].sig,
                 thread[t].seen)
  <1> DEFINE th == [thread[t] EXCEPT !.done = n]
  <1>1. /\ th \in Thread
        /\ th.at = thread[t].at /\ th.ensure = thread[t].ensure /\ th.stack = thread[t].stack
        /\ th.done = n /\ th.sig = thread[t].sig /\ th.seen = thread[t].seen
    <2>1. thread[t] \in Thread
      BY DEF TypeOK
    <2> QED
      BY <2>1 DEF Thread
  <1>2. Moves(t, th.at, th.ensure, th.stack, th.done, th.sig, th.seen)
    BY <1>1, BecomeMoves
  <1> QED
    BY <1>1, <1>2

\* What a thread does for itself leaves the other threads as they are.
LEMMA ThreadsStay ==
    ASSUME ThreadInv, NEW t \in Threads, UNCHANGED altstack,
           \A u \in Threads : u # t => thread'[u] = thread[u],
           thread'[t].at \notin Answering, thread'[t].sig = 0,
           thread'[t].at = "host" => ~thread'[t].ensure /\ ~thread'[t].stack,
           altstack'[t] = IF thread'[t].stack THEN t ELSE Host
    PROVE  ThreadInv'
  BY DEF ThreadInv

\* A thread that is not at the handlers leaves them as they are for everybody.
LEMMA HandlersStay ==
    ASSUME HandlersInv, NEW t \in Threads,
           UNCHANGED <<action, hook, saved, dead>>,
           counter' > 0 => counter > 0, counter' = 0 => counter = 0,
           thread[t].at \notin {"install", "restore"},
           thread'[t].at \notin {"install", "restore"},
           \A u \in Threads : u # t => thread'[u] = thread[u]
    PROVE  HandlersInv'
  <1>1. \A u \in Threads : thread'[u].at \in {"install", "restore"} =>
            thread[u].at = thread'[u].at /\ thread[u].done = thread'[u].done
    OBVIOUS
  <1>2. \A u \in Threads :
            thread[u].at \in {"install", "restore"} => thread'[u].at = thread[u].at
    OBVIOUS
  <1> QED
    BY <1>1, <1>2 DEF HandlersInv

-----------------------------------------------------------------------------
(* The step from one state to the next.                                    *)

\* The handlers and the count are settled in the initial state.
LEMMA InvInit == Init => IndInv
  <1> SUFFICES ASSUME Init PROVE IndInv
    OBVIOUS
  <1> USE DEF Init
  <1>1. TypeOK
    BY AtHostType DEF TypeOK
  <1> USE DEF AtHost
  <1>2. ThreadInv
    BY DEF ThreadInv
  <1>3. ManualInv
    BY DEF ManualInv
  <1>4. LockInv
    BY DEF LockInv
  <1>5. CountInv
    <2>1. Users = {}
      BY DEF Users, RunUses, ManualUse
    <2> QED
      BY <2>1, UsersFinite DEF CountInv
  <1>6. HandlersInv
    BY DEF HandlersInv
  <1> QED
    BY <1>1, <1>2, <1>3, <1>4, <1>5, <1>6 DEF IndInv

\* with_signals_on begins.
LEMMA EnterStep ==
    ASSUME IndInv, NEW t \in Threads, NEW ensure \in BOOLEAN, NEW stack \in BOOLEAN,
           Enter(t, ensure, stack)
    PROVE  IndInv'
  <1> USE DEF IndInv
  <1>1. /\ thread[t].at = "host"
        /\ ensure \/ (manual /\ manualLock = None)
        /\ Moves(t, IF ensure THEN "increment" ELSE "guest", ensure, stack, 0, 0, FALSE)
        /\ altstack' = [altstack EXCEPT ![t] = IF stack THEN t ELSE @]
        /\ UNCHANGED <<action, hook, counter, saved, lock, manual, manualLock,
                       hostAction, dead>>
    <2> DEFINE th == [AtHost EXCEPT !.at = IF ensure THEN "increment" ELSE "guest",
                                    !.ensure = ensure, !.stack = stack]
    <2>1. /\ th \in Thread
          /\ th.at = (IF ensure THEN "increment" ELSE "guest") /\ th.ensure = ensure
          /\ th.stack = stack /\ th.done = 0 /\ th.sig = 0 /\ th.seen = FALSE
      <3> DEFINE at == IF ensure THEN "increment" ELSE "guest"
      <3>1. at \in Places
        OBVIOUS
      <3> HIDE DEF at
      <3> QED
        BY <3>1, AtHostFields DEF Thread, at
    <2>2. Become(t, th)
      BY DEF Enter
    <2> HIDE DEF th
    <2>3. Moves(t, th.at, th.ensure, th.stack, th.done, th.sig, th.seen)
      BY <2>1, <2>2, BecomeMoves
    <2> QED
      BY <2>1, <2>3 DEF Enter, At
  <1> USE <1>1 DEF Moves
  <1>2. TypeOK'
    BY DEF TypeOK
  <1>3. ThreadInv'
    BY DEF TypeOK, ThreadInv, ManualInv
  <1>4. ManualInv'
    BY DEF ThreadInv, ManualInv
  <1>5. LockInv'
    BY DEF ThreadInv, LockInv, CountInv
  <1>6. CountInv'
    <2>1. ManualUse' <=> ManualUse
      BY DEF ManualUse, ThreadInv, ManualInv
    <2>2. \A u \in Threads : RunUses(u)' <=> RunUses(u)
      BY DEF RunUses, ThreadInv, ManualInv
    <2> QED
      BY <2>1, <2>2, SameUsers DEF CountInv
  <1>7. HandlersInv'
    BY HandlersStay
  <1> QED
    BY <1>2, <1>3, <1>4, <1>5, <1>6, <1>7 DEF IndInv

\* install_lucet_signal_handler begins.
LEMMA InstallStep ==
    ASSUME IndInv, NEW t \in Threads, Install(t)
    PROVE  IndInv'
  <1> USE DEF IndInv
  <1>1. \/ /\ UNCHANGED <<action, hook, counter, saved, lock, manual, manualLock,
                          altstack, hostAction, dead>>
           /\ UNCHANGED thread
        \/ /\ thread[t].at = "host"
           /\ manualLock = None /\ ~manual
           /\ manualLock' = t
           /\ Moves(t, "increment", thread[t].ensure, thread[t].stack, thread[t].done,
                    thread[t].sig, thread[t].seen)
           /\ UNCHANGED <<action, hook, counter, saved, lock, manual, altstack,
                          hostAction, dead>>
    BY GotoMoves DEF Install, At
  <1> USE <1>1 DEF Moves
  <1>2. TypeOK'
    BY DEF TypeOK
  <1>3. ThreadInv'
    BY DEF TypeOK, ThreadInv, ManualInv
  <1>4. ManualInv'
    BY DEF ThreadInv, ManualInv
  <1>5. LockInv'
    BY DEF ThreadInv, LockInv, CountInv
  <1>6. CountInv'
    <2>1. ManualUse' <=> ManualUse
      BY DEF ManualUse, ThreadInv, ManualInv
    <2>2. \A u \in Threads : RunUses(u)' <=> RunUses(u)
      BY DEF RunUses, ThreadInv, ManualInv
    <2> QED
      BY <2>1, <2>2, SameUsers DEF CountInv
  <1>7. HandlersInv'
    BY DEF TypeOK, LockInv, HandlersInv
  <1> QED
    BY <1>2, <1>3, <1>4, <1>5, <1>6, <1>7 DEF IndInv

\* remove_lucet_signal_handler begins, and no guest relies on the handlers.
LEMMA RemoveStep ==
    ASSUME IndInv, NEW t \in Threads, Remove(t)
    PROVE  IndInv'
  <1> USE DEF IndInv
  <1>1. \/ /\ UNCHANGED <<action, hook, counter, saved, lock, manual, manualLock,
                          altstack, hostAction, dead>>
           /\ UNCHANGED thread
        \/ /\ thread[t].at = "host"
           /\ manualLock = None /\ manual
           /\ \A u \in Threads : thread[u].at = "guest" => thread[u].ensure \/ thread[u].sig # 0
           /\ manualLock' = t
           /\ Moves(t, "decrement", thread[t].ensure, thread[t].stack, thread[t].done,
                    thread[t].sig, thread[t].seen)
           /\ UNCHANGED <<action, hook, counter, saved, lock, manual, altstack,
                          hostAction, dead>>
    BY GotoMoves DEF Remove, At
  <1> USE <1>1 DEF Moves
  <1>2. TypeOK'
    BY DEF TypeOK
  <1>3. ThreadInv'
    BY DEF TypeOK, ThreadInv, ManualInv
  <1>4. ManualInv'
    BY DEF ThreadInv, ManualInv
  <1>5. LockInv'
    BY DEF ThreadInv, LockInv, CountInv
  <1>6. CountInv'
    <2>1. ManualUse' <=> ManualUse
      BY DEF ManualUse, ThreadInv, ManualInv
    <2>2. \A u \in Threads : RunUses(u)' <=> RunUses(u)
      BY DEF RunUses, ThreadInv, ManualInv
    <2> QED
      BY <2>1, <2>2, SameUsers DEF CountInv
  <1>7. HandlersInv'
    BY DEF TypeOK, LockInv, HandlersInv
  <1> QED
    BY <1>2, <1>3, <1>4, <1>5, <1>6, <1>7 DEF IndInv

\* The guest returns.
LEMMA LeaveStep ==
    ASSUME IndInv, NEW t \in Threads, Leave(t)
    PROVE  IndInv'
  <1> USE DEF IndInv
  <1>1. \/ /\ thread[t].at = "guest"
           /\ thread[t].ensure
           /\ Moves(t, "decrement", thread[t].ensure, thread[t].stack, thread[t].done,
                    thread[t].sig, thread[t].seen)
           /\ UNCHANGED <<action, hook, counter, saved, lock, manual, manualLock,
                          altstack, hostAction, dead>>
        \/ /\ thread[t].at = "guest"
           /\ ~thread[t].ensure
           /\ Moves(t, "unstack", thread[t].ensure, thread[t].stack, thread[t].done,
                    thread[t].sig, thread[t].seen)
           /\ UNCHANGED <<action, hook, counter, saved, lock, manual, manualLock,
                          altstack, hostAction, dead>>
    <2>1. CASE thread[t].ensure
      BY <2>1, GotoMoves DEF Leave, At
    <2>2. CASE ~thread[t].ensure
      BY <2>2, GotoMoves DEF Leave, At
    <2> QED
      BY <2>1, <2>2
  <1> USE <1>1 DEF Moves
  <1>2. TypeOK'
    BY DEF TypeOK
  <1>3. ThreadInv'
    BY DEF TypeOK, ThreadInv, ManualInv
  <1>4. ManualInv'
    BY DEF ThreadInv, ManualInv
  <1>5. LockInv'
    BY DEF ThreadInv, LockInv, CountInv
  <1>6. CountInv'
    <2>1. ManualUse' <=> ManualUse
      BY DEF ManualUse, ThreadInv, ManualInv
    <2>2. \A u \in Threads : RunUses(u)' <=> RunUses(u)
      BY DEF RunUses, ThreadInv, ManualInv
    <2> QED
      BY <2>1, <2>2, SameUsers DEF CountInv
  <1>7. HandlersInv'
    BY HandlersStay
  <1> QED
    BY <1>2, <1>3, <1>4, <1>5, <1>6, <1>7 DEF IndInv

\* with_signals_on ends.
LEMMA UnstackStep ==
    ASSUME IndInv, NEW t \in Threads, Unstack(t)
    PROVE  IndInv'
  <1> USE DEF IndInv
  <1>1. /\ thread[t].at = "unstack"
        /\ Moves(t, "host", FALSE, FALSE, 0, 0, FALSE)
        /\ altstack' = [altstack EXCEPT ![t] = IF thread[t].stack THEN Host ELSE @]
        /\ UNCHANGED <<action, hook, counter, saved, lock, manual, manualLock,
                       hostAction, dead>>
    BY HomeMoves DEF Unstack, StackRestored, At
  <1> USE <1>1 DEF Moves
  <1>2. TypeOK'
    BY DEF TypeOK
  <1>3. ThreadInv'
    BY DEF TypeOK, ThreadInv, ManualInv
  <1>4. ManualInv'
    BY DEF ThreadInv, ManualInv
  <1>5. LockInv'
    BY DEF ThreadInv, LockInv, CountInv
  <1>6. CountInv'
    <2>1. ManualUse' <=> ManualUse
      BY DEF ManualUse, ThreadInv, ManualInv
    <2>2. \A u \in Threads : RunUses(u)' <=> RunUses(u)
      BY DEF RunUses, ThreadInv, ManualInv
    <2> QED
      BY <2>1, <2>2, SameUsers DEF CountInv
  <1>7. HandlersInv'
    BY HandlersStay
  <1> QED
    BY <1>2, <1>3, <1>4, <1>5, <1>6, <1>7 DEF IndInv

\* The handler returns, and gives the lock back if it has it.
LEMMA HandlerReturnsStep ==
    ASSUME IndInv, NEW t \in Threads, HandlerReturns(t)
    PROVE  IndInv'
  <1> USE DEF IndInv
  <1>1. /\ thread[t].at = "answered"
        /\ Moves(t, "host", FALSE, FALSE, 0, 0, FALSE)
        /\ lock' = IF lock = t THEN None ELSE lock
        /\ UNCHANGED <<action, hook, counter, saved, manual, manualLock, altstack,
                       hostAction, dead>>
    BY HomeMoves DEF HandlerReturns, Released, At
  <1> USE <1>1 DEF Moves
  <1>2. TypeOK'
    BY DEF TypeOK
  <1>3. ThreadInv'
    <2>1. altstack'[t] = Host /\ altstack' = altstack
      BY DEF ThreadInv
    <2> QED
      BY <2>1, ThreadsStay
  <1>4. ManualInv'
    BY DEF ThreadInv, ManualInv
  <1>5. LockInv'
    BY DEF ThreadInv, LockInv, CountInv
  <1>6. CountInv'
    <2>1. ManualUse' <=> ManualUse
      BY DEF ManualUse, ThreadInv, ManualInv
    <2>2. \A u \in Threads : RunUses(u)' <=> RunUses(u)
      BY DEF RunUses, ThreadInv, ManualInv
    <2> QED
      BY <2>1, <2>2, SameUsers DEF CountInv
  <1>7. HandlersInv'
    BY HandlersStay
  <1> QED
    BY <1>2, <1>3, <1>4, <1>5, <1>6, <1>7 DEF IndInv

\* The default disposition ends the process.
LEMMA RaiseDefaultStep ==
    ASSUME IndInv, NEW t \in Threads, RaiseDefault(t)
    PROVE  IndInv'
  <1> USE DEF IndInv
  <1>1. /\ thread[t].at = "default"
        /\ Moves(t, "answered", thread[t].ensure, thread[t].stack, thread[t].done,
                 thread[t].sig, thread[t].seen)
        /\ action' = [action EXCEPT ![thread[t].sig] = Host]
        /\ dead'
        /\ UNCHANGED <<hook, counter, saved, lock, manual, manualLock, altstack,
                       hostAction>>
    BY GotoMoves DEF RaiseDefault, Default, At
  <1> USE <1>1 DEF Moves
  <1>2. TypeOK'
    BY DEF TypeOK
  <1>3. ThreadInv'
    BY DEF TypeOK, ThreadInv, ManualInv
  <1>4. ManualInv'
    BY DEF ThreadInv, ManualInv
  <1>5. LockInv'
    BY DEF ThreadInv, LockInv, CountInv
  <1>6. CountInv'
    <2>1. ManualUse' <=> ManualUse
      BY DEF ManualUse, ThreadInv, ManualInv
    <2>2. \A u \in Threads : RunUses(u)' <=> RunUses(u)
      BY DEF RunUses, ThreadInv, ManualInv
    <2> QED
      BY <2>1, <2>2, SameUsers DEF CountInv
  <1>7. HandlersInv'
    BY DEF TypeOK, LockInv, HandlersInv
  <1> QED
    BY <1>2, <1>3, <1>4, <1>5, <1>6, <1>7 DEF IndInv

\* What the kernel does with a signal for a thread that is outside of the runtime.
LEMMA DeliverMoves ==
    ASSUME TypeOK, NEW t \in Threads, NEW g \in Signals, Deliver(t, g)
    PROVE  \/ /\ action[g] = Lucet
              /\ Moves(t, "handler", FALSE, FALSE, 0, g, FALSE)
              /\ UNCHANGED dead
           \/ /\ action[g] # Lucet
              /\ Moves(t, "answered", FALSE, FALSE, 0, g, TRUE)
              /\ dead' \in BOOLEAN
  <1>1. CASE action[g] = Lucet
    <2> DEFINE th == [AtHost EXCEPT !.at = "handler", !.sig = g]
    <2>1. /\ th \in Thread
          /\ th.at = "handler" /\ th.ensure = FALSE /\ th.stack = FALSE /\ th.done = 0
          /\ th.sig = g /\ th.seen = FALSE
      <3>1. g \in 0 .. NSignals
        OBVIOUS
      <3> QED
        BY <3>1, AtHostFields DEF Thread
    <2>2. Become(t, th)
      BY <1>1 DEF Deliver
    <2> HIDE DEF th
    <2>3. Moves(t, th.at, th.ensure, th.stack, th.done, th.sig, th.seen)
      BY <2>1, <2>2, BecomeMoves
    <2> QED
      BY <1>1, <2>1, <2>3 DEF Deliver
  <1>2. CASE action[g] # Lucet
    <2> DEFINE th == [AtHost EXCEPT !.at = "answered", !.sig = g, !.seen = TRUE]
    <2>1. /\ th \in Thread
          /\ th.at = "answered" /\ th.ensure = FALSE /\ th.stack = FALSE /\ th.done = 0
          /\ th.sig = g /\ th.seen = TRUE
      <3>1. g \in 0 .. NSignals
        OBVIOUS
      <3> QED
        BY <3>1, AtHostFields DEF Thread
    <2>2. Become(t, th)
      BY <1>2 DEF Deliver
    <2> HIDE DEF th
    <2>3. Moves(t, th.at, th.ensure, th.stack, th.done, th.sig, th.seen)
      BY <2>1, <2>2, BecomeMoves
    <2> QED
      BY <1>2, <2>1, <2>3 DEF Deliver
  <1> QED
    BY <1>1, <1>2

\* A signal for a thread in its own code.
LEMMA SignalledStep ==
    ASSUME IndInv, NEW t \in Threads, NEW g \in Signals, Signalled(t, g)
    PROVE  IndInv'
  <1> USE DEF IndInv
  <1>1. \/ /\ thread[t].at = "host"
           /\ Moves(t, "handler", FALSE, FALSE, 0, g, FALSE)
           /\ UNCHANGED <<action, hook, counter, saved, lock, manual, manualLock,
                          altstack, hostAction, dead>>
        \/ /\ thread[t].at = "host"
           /\ Moves(t, "answered", FALSE, FALSE, 0, g, TRUE)
           /\ ~dead /\ dead' \in BOOLEAN
           /\ UNCHANGED <<action, hook, counter, saved, lock, manual, manualLock,
                          altstack, hostAction>>
    BY DeliverMoves DEF Signalled, At
  <1> USE <1>1 DEF Moves
  <1>2. TypeOK'
    BY DEF TypeOK
  <1>3. ThreadInv'
    BY DEF TypeOK, ThreadInv, ManualInv
  <1>4. ManualInv'
    BY DEF ThreadInv, ManualInv
  <1>5. LockInv'
    BY DEF ThreadInv, LockInv, CountInv
  <1>6. CountInv'
    <2>1. ManualUse' <=> ManualUse
      BY DEF ManualUse, ThreadInv, ManualInv
    <2>2. \A u \in Threads : RunUses(u)' <=> RunUses(u)
      BY DEF RunUses, ThreadInv, ManualInv
    <2> QED
      BY <2>1, <2>2, SameUsers DEF CountInv
  <1>7. HandlersInv'
    BY DEF TypeOK, LockInv, HandlersInv
  <1> QED
    BY <1>2, <1>3, <1>4, <1>5, <1>6, <1>7 DEF IndInv

\* A thread that raises a signal again finds the host's handler, for it holds the lock
\* and nobody uses the signal state.
LEMMA RaisedToHost ==
    ASSUME IndInv, NEW t \in Threads, thread[t].at = "raise"
    PROVE  \A g \in Signals : action[g] = Host
  BY DEF IndInv, TypeOK, LockInv, HandlersInv

\* The signal goes to the host.
LEMMA RaiseMoves ==
    ASSUME IndInv, NEW t \in Threads, Raise(t)
    PROVE  /\ thread[t].at = "raise"
           /\ Moves(t, "answered", FALSE, FALSE, 0, thread[t].sig, TRUE)
           /\ ~dead /\ dead' \in BOOLEAN
           /\ thread[t].sig \in Signals
           /\ UNCHANGED <<action, hook, counter, saved, lock, manual, manualLock, altstack,
                          hostAction>>
  BY DeliverMoves, RaisedToHost DEF IndInv, Raise, At, ThreadInv

\* The signal is raised again.
LEMMA RaiseStep ==
    ASSUME IndInv, NEW t \in Threads, Raise(t)
    PROVE  IndInv'
  <1> USE DEF IndInv
  <1>1. /\ thread[t].at = "raise"
        /\ Moves(t, "answered", FALSE, FALSE, 0, thread[t].sig, TRUE)
        /\ ~dead /\ dead' \in BOOLEAN
        /\ thread[t].sig \in Signals
        /\ UNCHANGED <<action, hook, counter, saved, lock, manual, manualLock, altstack,
                       hostAction>>
    BY RaiseMoves
  <1> USE <1>1 DEF Moves
  <1>2. TypeOK'
    BY DEF TypeOK
  <1>3. ThreadInv'
    BY DEF TypeOK, ThreadInv, ManualInv
  <1>4. ManualInv'
    BY DEF ThreadInv, ManualInv
  <1>5. LockInv'
    BY DEF ThreadInv, LockInv, CountInv
  <1>6. CountInv'
    <2>1. ManualUse' <=> ManualUse
      BY DEF ManualUse, ThreadInv, ManualInv
    <2>2. \A u \in Threads : RunUses(u)' <=> RunUses(u)
      BY DEF RunUses, ThreadInv, ManualInv
    <2> QED
      BY <2>1, <2>2, SameUsers DEF CountInv
  <1>7. HandlersInv'
    BY DEF TypeOK, LockInv, HandlersInv
  <1> QED
    BY <1>2, <1>3, <1>4, <1>5, <1>6, <1>7 DEF IndInv

\* What the handler does next: it raises the signal again with the lock held, or it has
\* seen to it that the host gets the signal.
LEMMA ReraiseMoves ==
    ASSUME IndInv, NEW t \in Threads, Reraise(t)
    PROVE  \/ /\ thread[t].at = "handler"
              /\ lock = None
              /\ counter = 0
              /\ lock' = t
              /\ Moves(t, "raise", thread[t].ensure, thread[t].stack, thread[t].done,
                       thread[t].sig, thread[t].seen)
              /\ UNCHANGED <<action, hook, counter, saved, manual, manualLock, altstack,
                             hostAction, dead>>
           \/ /\ thread[t].at = "handler"
              /\ \E at \in {"default", "answered"} :
                    Moves(t, at, thread[t].ensure, thread[t].stack, thread[t].done,
                          thread[t].sig, TRUE)
              /\ UNCHANGED <<action, hook, counter, saved, lock, manual, manualLock,
                             altstack, hostAction, dead>>
  <1> USE DEF IndInv
  <1>1. CASE counter = 0
    BY <1>1, GotoMoves DEF Reraise, Reraises, KeptToTheEnd, At
  <1>2. CASE counter # 0
    <2>1. saved[thread[t].sig] = Host
      BY <1>2 DEF TypeOK, ThreadInv, HandlersInv, Reraise, At
    <2> DEFINE at == IF hostAction = "SigDfl" THEN "default" ELSE "answered"
               th == [thread[t] EXCEPT !.at = at, !.seen = TRUE]
    <2>2. Become(t, th)
      BY <1>2, <2>1 DEF Reraise, Reraises
    <2>3. at \in {"default", "answered"}
      OBVIOUS
    <2> HIDE DEF at
    <2>4. /\ th \in Thread
          /\ th.at = at /\ th.ensure = thread[t].ensure /\ th.stack = thread[t].stack
          /\ th.done = thread[t].done /\ th.sig = thread[t].sig /\ th.seen = TRUE
      <3>1. thread[t] \in Thread
        BY DEF TypeOK
      <3> QED
        BY <2>3, <3>1 DEF Thread
    <2> HIDE DEF th
    <2>5. Moves(t, th.at, th.ensure, th.stack, th.done, th.sig, th.seen)
      BY <2>2, <2>4, BecomeMoves
    <2> QED
      BY <1>2, <2>3, <2>4, <2>5 DEF Reraise, Reraises, At
  <1> QED
    BY <1>1, <1>2

\* The handler looks up the host's disposition, or takes the lock to raise again.
LEMMA ReraiseStep ==
    ASSUME IndInv, NEW t \in Threads, Reraise(t)
    PROVE  IndInv'
  <1> USE DEF IndInv
  <1>1. \/ /\ thread[t].at = "handler"
           /\ lock = None
           /\ counter = 0
           /\ lock' = t
           /\ Moves(t, "raise", thread[t].ensure, thread[t].stack, thread[t].done,
                    thread[t].sig, thread[t].seen)
           /\ UNCHANGED <<action, hook, counter, saved, manual, manualLock, altstack,
                          hostAction, dead>>
        \/ /\ thread[t].at = "handler"
           /\ \E at \in {"default", "answered"} :
                 Moves(t, at, thread[t].ensure, thread[t].stack, thread[t].done,
                       thread[t].sig, TRUE)
           /\ UNCHANGED <<action, hook, counter, saved, lock, manual, manualLock,
                          altstack, hostAction, dead>>
    BY ReraiseMoves
  <1> USE <1>1 DEF Moves
  <1>2. TypeOK'
    BY DEF TypeOK
  <1>3. ThreadInv'
    BY DEF TypeOK, ThreadInv, ManualInv
  <1>4. ManualInv'
    BY DEF ThreadInv, ManualInv
  <1>5. LockInv'
    BY DEF ThreadInv, LockInv, CountInv
  <1>6. CountInv'
    <2>1. ManualUse' <=> ManualUse
      BY DEF ManualUse, ThreadInv, ManualInv
    <2>2. \A u \in Threads : RunUses(u)' <=> RunUses(u)
      BY DEF RunUses, ThreadInv, ManualInv
    <2> QED
      BY <2>1, <2>2, SameUsers DEF CountInv
  <1>7. HandlersInv'
    BY HandlersStay
  <1> QED
    BY <1>2, <1>3, <1>4, <1>5, <1>6, <1>7 DEF IndInv

\* The count goes up, or the first user begins to install the handlers.
LEMMA IncrementStep ==
    ASSUME IndInv, NEW t \in Threads, Increment(t)
    PROVE  IndInv'
  <1> USE DEF IndInv
  <1>1. CASE counter = 0
    <2>1. /\ thread[t].at = "increment" /\ lock = None
          /\ lock' = t
          /\ Moves(t, "install", thread[t].ensure, thread[t].stack, 0, thread[t].sig,
                   thread[t].seen)
          /\ UNCHANGED <<action, hook, counter, saved, manual, manualLock, altstack,
                         hostAction, dead>>
      BY <1>1, RestartMoves DEF Increment, First, At
    <2> USE <1>1, <2>1 DEF Moves
    <2>2. TypeOK'
      BY DEF TypeOK
    <2>3. ThreadInv'
      BY DEF TypeOK, ThreadInv, ManualInv
    <2>4. ManualInv'
      BY DEF ThreadInv, ManualInv
    <2>5. LockInv'
      BY DEF ThreadInv, LockInv, CountInv
    <2>6. CountInv'
      <3>1. ManualUse' <=> ManualUse
        BY DEF ManualUse, ThreadInv, ManualInv
      <3>2. \A u \in Threads : RunUses(u)' <=> RunUses(u)
        BY DEF RunUses, ThreadInv, ManualInv
      <3> QED
        BY <3>1, <3>2, SameUsers DEF CountInv
    <2>7. HandlersInv'
      <3>1. \A u \in Threads : thread[u].at \notin {"install", "restore"}
        BY DEF LockInv
      <3>2. hook' = Host /\ \A g \in Signals : action'[g] = Host /\ ~(g <= 0)
        BY <3>1 DEF HandlersInv
      <3>3. /\ counter' = 0 /\ thread'[t].at = "install" /\ thread'[t].done = 0
            /\ \A u \in Threads : u # t => thread'[u].at \notin {"install", "restore"}
        BY <3>1
      <3> QED
        BY <3>2, <3>3 DEF HandlersInv
    <2> QED
      BY <2>2, <2>3, <2>4, <2>5, <2>6, <2>7 DEF IndInv
  <1>2. CASE counter # 0 /\ manualLock = t
    <2>1. /\ thread[t].at = "increment" /\ lock = None
          /\ counter' = counter + 1
          /\ lock' = None
          /\ manual' = TRUE /\ manualLock' = None
          /\ Moves(t, "host", FALSE, FALSE, 0, 0, FALSE)
          /\ UNCHANGED <<action, hook, saved, altstack, hostAction, dead>>
      BY <1>2, HomeMoves DEF Increment, First, At, AfterIncrement
    <2> USE <1>2, <2>1 DEF Moves
    <2>2. TypeOK'
      BY DEF TypeOK
    <2>3. ThreadInv'
      BY DEF TypeOK, ThreadInv, ManualInv
    <2>4. ManualInv'
      BY DEF ThreadInv, ManualInv
    <2>5. LockInv'
      BY DEF ThreadInv, LockInv, CountInv
    <2>6. CountInv'
      <3>1. ~ManualUse /\ ManualUse'
        BY DEF ManualUse, ThreadInv, ManualInv
      <3>2. \A u \in Threads : RunUses(u)' <=> RunUses(u)
        BY DEF RunUses, ThreadInv, ManualInv
      <3> QED
        BY <3>1, <3>2, ManualJoins DEF CountInv
    <2>7. HandlersInv'
      BY DEF TypeOK, LockInv, HandlersInv
    <2> QED
      BY <2>2, <2>3, <2>4, <2>5, <2>6, <2>7 DEF IndInv
  <1>3. CASE counter # 0 /\ manualLock # t
    <2>1. /\ thread[t].at = "increment" /\ lock = None
          /\ counter' = counter + 1
          /\ lock' = None
          /\ Moves(t, "guest", thread[t].ensure, thread[t].stack, thread[t].done,
                   thread[t].sig, thread[t].seen)
          /\ UNCHANGED <<action, hook, saved, manual, manualLock, altstack, hostAction,
                         dead>>
      BY <1>3, GotoMoves DEF Increment, First, At, AfterIncrement
    <2> USE <1>3, <2>1 DEF Moves
    <2>2. TypeOK'
      BY DEF TypeOK
    <2>3. ThreadInv'
      BY DEF TypeOK, ThreadInv, ManualInv
    <2>4. ManualInv'
      BY DEF ThreadInv, ManualInv
    <2>5. LockInv'
      BY DEF ThreadInv, LockInv, CountInv
    <2>6. CountInv'
      <3>1. ManualUse' <=> ManualUse
        BY DEF ManualUse, ThreadInv, ManualInv
      <3>2. ~RunUses(t) /\ RunUses(t)'
        BY DEF RunUses, ThreadInv, ManualInv
      <3>3. \A u \in Threads : u # t => (RunUses(u)' <=> RunUses(u))
        BY DEF RunUses
      <3> QED
        BY <3>1, <3>2, <3>3, RunJoins DEF CountInv
    <2>7. HandlersInv'
      BY DEF TypeOK, LockInv, HandlersInv
    <2> QED
      BY <2>2, <2>3, <2>4, <2>5, <2>6, <2>7 DEF IndInv
  <1> QED
    BY <1>1, <1>2, <1>3 DEF Increment, At, First, Last, TypeOK, Restored

\* A signal gets Lucet's handler, or all of them have it.
LEMMA SetupStep ==
    ASSUME IndInv, NEW t \in Threads, Setup(t)
    PROVE  IndInv'
  <1> USE DEF IndInv
  <1>1. CASE thread[t].done < NSignals
    <2>1. /\ thread[t].at = "install" /\ ~dead /\ thread[t].done \in 0 .. NSignals
          /\ saved' = [saved EXCEPT ![thread[t].done + 1] = action[thread[t].done + 1]]
          /\ action' = [action EXCEPT ![thread[t].done + 1] = Lucet]
          /\ Moves(t, "install", thread[t].ensure, thread[t].stack, thread[t].done + 1,
                   thread[t].sig, thread[t].seen)
          /\ UNCHANGED <<hook, counter, lock, manual, manualLock, altstack, hostAction,
                         dead>>
      <3>1. thread[t].done + 1 \in 0 .. NSignals
        BY <1>1 DEF TypeOK, Thread, Setup, At
      <3>2. Moves(t, thread[t].at, thread[t].ensure, thread[t].stack, thread[t].done + 1,
                  thread[t].sig, thread[t].seen)
        BY <1>1, <3>1, DoneMoves DEF Setup
      <3> QED
        BY <1>1, <3>2 DEF TypeOK, Thread, Setup, At
    <2> USE <1>1, <2>1 DEF Moves
    <2>2. TypeOK'
      BY DEF TypeOK
    <2>3. ThreadInv'
      <3>1. thread[t].at = "install" /\ thread[t].sig = 0 /\ altstack[t] = IF thread[t].stack THEN t ELSE Host
        BY DEF ThreadInv
      <3>2. /\ thread'[t].at = "install" /\ thread'[t].sig = 0
            /\ altstack'[t] = IF thread'[t].stack THEN t ELSE Host
        BY <3>1
      <3> QED
        BY <3>2, ThreadsStay
    <2>4. ManualInv'
      BY DEF ThreadInv, ManualInv
    <2>5. LockInv'
      BY DEF ThreadInv, LockInv, CountInv
    <2>6. CountInv'
      <3>1. ManualUse' <=> ManualUse
        BY DEF ManualUse, ThreadInv, ManualInv
      <3>2. \A u \in Threads : RunUses(u)' <=> RunUses(u)
        BY DEF RunUses, ThreadInv, ManualInv
      <3> QED
        BY <3>1, <3>2, SameUsers DEF CountInv
    <2>7. HandlersInv'
      <3>1. /\ counter = 0
            /\ \A u \in Threads : thread[u].at \in {"install", "restore"} => u = t
        BY DEF LockInv
      <3>2. \A g \in Signals :
               IF g <= thread[t].done + 1 THEN saved'[g] = Host /\ action'[g] = Lucet
               ELSE action'[g] = Host
        BY DEF TypeOK, HandlersInv
      <3> QED
        BY <3>1, <3>2 DEF HandlersInv
    <2> QED
      BY <2>2, <2>3, <2>4, <2>5, <2>6, <2>7 DEF IndInv
  <1>2. CASE thread[t].done = NSignals /\ manualLock = t
    <2>1. /\ thread[t].at = "install" /\ ~dead /\ thread[t].done \in 0 .. NSignals
          /\ hook' = Lucet
          /\ counter = 0 /\ counter' = counter + 1
          /\ lock' = None
          /\ manual' = TRUE /\ manualLock' = None
          /\ Moves(t, "host", FALSE, FALSE, 0, 0, FALSE)
          /\ UNCHANGED <<action, saved, altstack, hostAction, dead>>
      <3>1. Become(t, AtHost)
        BY <1>2 DEF Setup, AfterIncrement
      <3>2. Moves(t, "host", FALSE, FALSE, 0, 0, FALSE)
        BY <3>1, HomeMoves
      <3>3. thread[t].at = "install" /\ ~dead /\ thread[t].done \in 0 .. NSignals
        BY DEF TypeOK, Thread, Setup, At
      <3>4. counter = 0
        BY <3>3 DEF LockInv
      <3>5. hook' = Lucet /\ counter' = 1 /\ AfterIncrement(t)
            /\ UNCHANGED <<action, saved, altstack, hostAction, dead>>
        BY <1>2, <3>3 DEF Setup
      <3>6. counter' = counter + 1
        BY <3>4, <3>5
      <3>7. lock' = None /\ manual' = TRUE /\ manualLock' = None
        BY <1>2, <3>5 DEF AfterIncrement
      <3> QED
        BY <3>2, <3>3, <3>4, <3>5, <3>6, <3>7
    <2> USE <1>2, <2>1 DEF Moves
    <2>2. TypeOK'
      BY DEF TypeOK
    <2>3. ThreadInv'
      BY DEF TypeOK, ThreadInv, ManualInv
    <2>4. ManualInv'
      BY DEF ThreadInv, ManualInv
    <2>5. LockInv'
      BY DEF ThreadInv, LockInv, CountInv
    <2>6. CountInv'
      <3>1. ~ManualUse /\ ManualUse'
        BY DEF ManualUse, ThreadInv, ManualInv
      <3>2. \A u \in Threads : RunUses(u)' <=> RunUses(u)
        BY DEF RunUses, ThreadInv, ManualInv
      <3> QED
        BY <3>1, <3>2, ManualJoins DEF CountInv
    <2>7. HandlersInv'
      BY DEF TypeOK, LockInv, HandlersInv
    <2> QED
      BY <2>2, <2>3, <2>4, <2>5, <2>6, <2>7 DEF IndInv
  <1>3. CASE thread[t].done = NSignals /\ manualLock # t
    <2>1. /\ thread[t].at = "install" /\ ~dead /\ thread[t].done \in 0 .. NSignals
          /\ hook' = Lucet
          /\ counter = 0 /\ counter' = counter + 1
          /\ lock' = None
          /\ Moves(t, "guest", thread[t].ensure, thread[t].stack, thread[t].done,
                   thread[t].sig, thread[t].seen)
          /\ UNCHANGED <<action, saved, manual, manualLock, altstack, hostAction, dead>>
      BY <1>3, GotoMoves DEF TypeOK, Thread, Setup, At, AfterIncrement, LockInv
    <2> USE <1>3, <2>1 DEF Moves
    <2>2. TypeOK'
      BY DEF TypeOK
    <2>3. ThreadInv'
      BY DEF TypeOK, ThreadInv, ManualInv
    <2>4. ManualInv'
      BY DEF ThreadInv, ManualInv
    <2>5. LockInv'
      BY DEF ThreadInv, LockInv, CountInv
    <2>6. CountInv'
      <3>1. ManualUse' <=> ManualUse
        BY DEF ManualUse, ThreadInv, ManualInv
      <3>2. ~RunUses(t) /\ RunUses(t)'
        BY DEF RunUses, ThreadInv, ManualInv
      <3>3. \A u \in Threads : u # t => (RunUses(u)' <=> RunUses(u))
        BY DEF RunUses
      <3> QED
        BY <3>1, <3>2, <3>3, RunJoins DEF CountInv
    <2>7. HandlersInv'
      <3>1. \A u \in Threads : thread[u].at \in {"install", "restore"} => u = t
        BY DEF LockInv
      <3>2. \A g \in Signals : saved[g] = Host /\ action[g] = Lucet
        BY DEF HandlersInv
      <3> QED
        BY <3>1, <3>2 DEF HandlersInv
    <2> QED
      BY <2>2, <2>3, <2>4, <2>5, <2>6, <2>7 DEF IndInv
  <1> QED
    BY <1>1, <1>2, <1>3 DEF TypeOK, Thread, Setup, At, First, Last, TypeOK, Restored

\* The count goes down, and the last user begins to restore the handlers.
LEMMA DecrementStep ==
    ASSUME IndInv, NEW t \in Threads, Decrement(t)
    PROVE  IndInv'
  <1> USE DEF IndInv
  <1>1. CASE counter = 1 /\ manualLock = t
    <2>1. /\ thread[t].at = "decrement" /\ lock = None
          /\ counter > 0 /\ counter' = counter - 1
          /\ lock' = t
          /\ Moves(t, "restore", thread[t].ensure, thread[t].stack, 0, thread[t].sig,
                   thread[t].seen)
          /\ UNCHANGED <<action, hook, saved, manual, manualLock, altstack, hostAction,
                         dead>>
      BY <1>1, RestartMoves, UsedByLeaving DEF Decrement, Last, At
    <2> USE <1>1, <2>1 DEF Moves
    <2>2. TypeOK'
      BY DEF TypeOK
    <2>3. ThreadInv'
      BY DEF TypeOK, ThreadInv, ManualInv
    <2>4. ManualInv'
      BY DEF ThreadInv, ManualInv
    <2>5. LockInv'
      BY DEF ThreadInv, LockInv, CountInv
    <2>6. CountInv'
      <3>1. ManualUse /\ ~ManualUse'
        BY DEF ManualUse, ThreadInv, ManualInv
      <3>2. \A u \in Threads : RunUses(u)' <=> RunUses(u)
        BY DEF RunUses, ThreadInv, ManualInv
      <3> QED
        BY <3>1, <3>2, ManualLeaves DEF CountInv
    <2>7. HandlersInv'
      BY DEF TypeOK, LockInv, HandlersInv
    <2> QED
      BY <2>2, <2>3, <2>4, <2>5, <2>6, <2>7 DEF IndInv
  <1>2. CASE counter = 1 /\ manualLock # t
    <2>1. /\ thread[t].at = "decrement" /\ lock = None
          /\ counter > 0 /\ counter' = counter - 1
          /\ lock' = t
          /\ Moves(t, "restore", thread[t].ensure, thread[t].stack, 0, thread[t].sig,
                   thread[t].seen)
          /\ UNCHANGED <<action, hook, saved, manual, manualLock, altstack, hostAction,
                         dead>>
      BY <1>2, RestartMoves, UsedByLeaving DEF Decrement, Last, At
    <2> USE <1>2, <2>1 DEF Moves
    <2>2. TypeOK'
      BY DEF TypeOK
    <2>3. ThreadInv'
      BY DEF TypeOK, ThreadInv, ManualInv
    <2>4. ManualInv'
      BY DEF ThreadInv, ManualInv
    <2>5. LockInv'
      BY DEF ThreadInv, LockInv, CountInv
    <2>6. CountInv'
      <3>1. ManualUse' <=> ManualUse
        BY DEF ManualUse, ThreadInv, ManualInv
      <3>2. RunUses(t) /\ ~RunUses(t)'
        BY DEF RunUses, ThreadInv, ManualInv
      <3>3. \A u \in Threads : u # t => (RunUses(u)' <=> RunUses(u))
        BY DEF RunUses
      <3> QED
        BY <3>1, <3>2, <3>3, RunLeaves DEF CountInv
    <2>7. HandlersInv'
      <3>1. \A u \in Threads : thread[u].at \notin {"install", "restore"}
        BY DEF LockInv
      <3>2. \A g \in Signals :
               saved'[g] = Host /\ ~(g <= 0) /\ (~dead => action'[g] = Lucet)
        BY DEF HandlersInv
      <3>3. /\ counter' = 0 /\ thread'[t].at = "restore" /\ thread'[t].done = 0
            /\ \A u \in Threads : u # t => thread'[u].at \notin {"install", "restore"}
        BY <3>1
      <3> QED
        BY <3>2, <3>3 DEF HandlersInv
    <2> QED
      BY <2>2, <2>3, <2>4, <2>5, <2>6, <2>7 DEF IndInv
  <1>3. CASE counter # 1 /\ manualLock = t
    <2>1. /\ thread[t].at = "decrement" /\ lock = None
          /\ counter > 0 /\ counter' = counter - 1
          /\ lock' = None
          /\ manual' = FALSE /\ manualLock' = None
          /\ Moves(t, "host", FALSE, FALSE, 0, 0, FALSE)
          /\ UNCHANGED <<action, hook, saved, altstack, hostAction, dead>>
      BY <1>3, HomeMoves, UsedByLeaving DEF Decrement, Last, At, AfterDecrement
    <2> USE <1>3, <2>1 DEF Moves
    <2>2. TypeOK'
      <3>1. counter' \in Nat
        BY DEF TypeOK
      <3> QED
        BY <3>1 DEF TypeOK
    <2>3. ThreadInv'
      BY DEF TypeOK, ThreadInv, ManualInv
    <2>4. ManualInv'
      BY DEF ThreadInv, ManualInv
    <2>5. LockInv'
      BY DEF ThreadInv, LockInv, CountInv
    <2>6. CountInv'
      <3>1. ManualUse /\ ~ManualUse'
        BY DEF ManualUse, ThreadInv, ManualInv
      <3>2. \A u \in Threads : RunUses(u)' <=> RunUses(u)
        BY DEF RunUses, ThreadInv, ManualInv
      <3> QED
        BY <3>1, <3>2, ManualLeaves DEF CountInv
    <2>7. HandlersInv'
      BY DEF TypeOK, LockInv, HandlersInv
    <2> QED
      BY <2>2, <2>3, <2>4, <2>5, <2>6, <2>7 DEF IndInv
  <1>4. CASE counter # 1 /\ manualLock # t
    <2>1. /\ thread[t].at = "decrement" /\ lock = None
          /\ counter > 0 /\ counter' = counter - 1
          /\ lock' = None
          /\ Moves(t, "unstack", thread[t].ensure, thread[t].stack, thread[t].done,
                   thread[t].sig, thread[t].seen)
          /\ UNCHANGED <<action, hook, saved, manual, manualLock, altstack, hostAction,
                         dead>>
      BY <1>4, GotoMoves, UsedByLeaving DEF Decrement, Last, At, AfterDecrement
    <2> USE <1>4, <2>1 DEF Moves
    <2>2. TypeOK'
      BY DEF TypeOK
    <2>3. ThreadInv'
      BY DEF TypeOK, ThreadInv, ManualInv
    <2>4. ManualInv'
      BY DEF ThreadInv, ManualInv
    <2>5. LockInv'
      BY DEF ThreadInv, LockInv, CountInv
    <2>6. CountInv'
      <3>1. ManualUse' <=> ManualUse
        BY DEF ManualUse, ThreadInv, ManualInv
      <3>2. RunUses(t) /\ ~RunUses(t)'
        BY DEF RunUses, ThreadInv, ManualInv
      <3>3. \A u \in Threads : u # t => (RunUses(u)' <=> RunUses(u))
        BY DEF RunUses
      <3> QED
        BY <3>1, <3>2, <3>3, RunLeaves DEF CountInv
    <2>7. HandlersInv'
      BY HandlersStay
    <2> QED
      BY <2>2, <2>3, <2>4, <2>5, <2>6, <2>7 DEF IndInv
  <1> QED
    BY <1>1, <1>2, <1>3, <1>4 DEF Decrement, At, First, Last, TypeOK, Restored

\* A signal gets the host's handler back, or all of them have it.
LEMMA RestoreStep ==
    ASSUME IndInv, NEW t \in Threads, Restore(t)
    PROVE  IndInv'
  <1> USE DEF IndInv
  <1>1. CASE thread[t].done + 1 \in Signals
    <2>1. /\ thread[t].at = "restore" /\ ~dead /\ thread[t].done \in 0 .. NSignals
          /\ saved[thread[t].done + 1] = Host
          /\ action' = [action EXCEPT ![thread[t].done + 1] = saved[thread[t].done + 1]]
          /\ Moves(t, "restore", thread[t].ensure, thread[t].stack, thread[t].done + 1,
                   thread[t].sig, thread[t].seen)
          /\ UNCHANGED <<hook, counter, saved, lock, manual, manualLock, altstack,
                         hostAction, dead>>
      <3>1. thread[t].done + 1 \in 0 .. NSignals
        BY <1>1 DEF TypeOK, Thread, Restore, At, Restored, HandlersInv
      <3>2. Moves(t, thread[t].at, thread[t].ensure, thread[t].stack, thread[t].done + 1,
                  thread[t].sig, thread[t].seen)
        BY <1>1, <3>1, DoneMoves DEF TypeOK, Thread, Restore, At, Restored, HandlersInv
      <3> QED
        BY <1>1, <3>2 DEF TypeOK, Thread, Restore, At, Restored, HandlersInv
    <2> USE <1>1, <2>1 DEF Moves
    <2>2. TypeOK'
      BY DEF TypeOK
    <2>3. ThreadInv'
      BY DEF TypeOK, ThreadInv, ManualInv
    <2>4. ManualInv'
      BY DEF ThreadInv, ManualInv
    <2>5. LockInv'
      BY DEF ThreadInv, LockInv, CountInv
    <2>6. CountInv'
      <3>1. ManualUse' <=> ManualUse
        BY DEF ManualUse, ThreadInv, ManualInv
      <3>2. \A u \in Threads : RunUses(u)' <=> RunUses(u)
        BY DEF RunUses, ThreadInv, ManualInv
      <3> QED
        BY <3>1, <3>2, SameUsers DEF CountInv
    <2>7. HandlersInv'
      <3>1. /\ counter = 0
            /\ \A u \in Threads : thread[u].at \in {"install", "restore"} => u = t
        BY DEF LockInv
      <3>2. \A g \in Signals :
               saved[g] = Host /\ action'[g] = IF g <= thread[t].done + 1 THEN Host ELSE Lucet
        BY DEF TypeOK, HandlersInv
      <3> QED
        BY <3>1, <3>2 DEF HandlersInv
    <2> QED
      BY <2>2, <2>3, <2>4, <2>5, <2>6, <2>7 DEF IndInv
  <1>2. CASE thread[t].done = NSignals /\ manualLock = t
    <2>1. /\ thread[t].at = "restore" /\ ~dead /\ thread[t].done \in 0 .. NSignals
          /\ hook' = Host
          /\ saved' = [g \in Signals |-> None]
          /\ lock' = None
          /\ manual' = FALSE /\ manualLock' = None
          /\ Moves(t, "host", FALSE, FALSE, 0, 0, FALSE)
          /\ UNCHANGED <<action, counter, altstack, hostAction, dead>>
      <3>1. Become(t, AtHost)
        BY <1>2 DEF Restore, AfterDecrement
      <3>2. Moves(t, "host", FALSE, FALSE, 0, 0, FALSE)
        BY <3>1, HomeMoves
      <3>3. thread[t].at = "restore" /\ ~dead /\ thread[t].done \in 0 .. NSignals
        BY DEF TypeOK, Thread, Restore, At
      <3>4. hook' = Host /\ saved' = [g \in Signals |-> None] /\ AfterDecrement(t)
            /\ UNCHANGED <<action, counter, altstack, hostAction, dead>>
        BY <1>2, <3>3 DEF Restore
      <3> QED
        BY <1>2, <3>2, <3>3, <3>4 DEF AfterDecrement
    <2> USE <1>2, <2>1 DEF Moves
    <2>2. TypeOK'
      BY DEF TypeOK
    <2>3. ThreadInv'
      BY DEF TypeOK, ThreadInv, ManualInv
    <2>4. ManualInv'
      BY DEF ThreadInv, ManualInv
    <2>5. LockInv'
      BY DEF ThreadInv, LockInv, CountInv
    <2>6. CountInv'
      <3>1. ManualUse' <=> ManualUse
        BY DEF ManualUse, ThreadInv, ManualInv
      <3>2. \A u \in Threads : RunUses(u)' <=> RunUses(u)
        BY DEF RunUses, ThreadInv, ManualInv
      <3> QED
        BY <3>1, <3>2, SameUsers DEF CountInv
    <2>7. HandlersInv'
      <3>1. counter = 0 /\ hook' = Host /\ \A g \in Signals : action'[g] = Host
        BY DEF LockInv, HandlersInv
      <3>2. \A u \in Threads : thread'[u].at \notin {"install", "restore"}
        BY DEF LockInv
      <3> QED
        BY <3>1, <3>2 DEF HandlersInv
    <2> QED
      BY <2>2, <2>3, <2>4, <2>5, <2>6, <2>7 DEF IndInv
  <1>3. CASE thread[t].done = NSignals /\ manualLock # t
    <2>1. /\ thread[t].at = "restore" /\ ~dead /\ thread[t].done \in 0 .. NSignals
          /\ hook' = Host
          /\ saved' = [g \in Signals |-> None]
          /\ lock' = None
          /\ Moves(t, "unstack", thread[t].ensure, thread[t].stack, thread[t].done,
                   thread[t].sig, thread[t].seen)
          /\ UNCHANGED <<action, counter, manual, manualLock, altstack, hostAction, dead>>
      BY <1>3, GotoMoves DEF TypeOK, Thread, Restore, At, AfterDecrement
    <2> USE <1>3, <2>1 DEF Moves
    <2>2. TypeOK'
      BY DEF TypeOK
    <2>3. ThreadInv'
      BY DEF TypeOK, ThreadInv, ManualInv
    <2>4. ManualInv'
      BY DEF ThreadInv, ManualInv
    <2>5. LockInv'
      BY DEF ThreadInv, LockInv, CountInv
    <2>6. CountInv'
      <3>1. ManualUse' <=> ManualUse
        BY DEF ManualUse, ThreadInv, ManualInv
      <3>2. \A u \in Threads : RunUses(u)' <=> RunUses(u)
        BY DEF RunUses, ThreadInv, ManualInv
      <3> QED
        BY <3>1, <3>2, SameUsers DEF CountInv
    <2>7. HandlersInv'
      <3>1. counter = 0 /\ hook' = Host /\ \A g \in Signals : action'[g] = Host
        BY DEF LockInv, HandlersInv
      <3>2. \A u \in Threads : thread'[u].at \notin {"install", "restore"}
        BY DEF LockInv
      <3> QED
        BY <3>1, <3>2 DEF HandlersInv
    <2> QED
      BY <2>2, <2>3, <2>4, <2>5, <2>6, <2>7 DEF IndInv
  <1> QED
    BY <1>1, <1>2, <1>3 DEF TypeOK, Thread, Restore, At, First, Last, TypeOK, Restored

\* Every step keeps the invariant.
LEMMA InvStep ==
    ASSUME IndInv, [Next]_vars
    PROVE  IndInv'
  <1>1. CASE Next
    <2>1. PICK t \in Threads :
             \/ \E ensure, stack \in BOOLEAN : Enter(t, ensure, stack)
             \/ Install(t) \/ Remove(t) \/ Leave(t) \/ Runtime(t)
             \/ \E g \in Signals : Signalled(t, g)
      BY <1>1 DEF Next
    <2>2. ASSUME NEW ensure \in BOOLEAN, NEW stack \in BOOLEAN, Enter(t, ensure, stack)
          PROVE  IndInv'
      BY <2>2, EnterStep
    <2>3. ASSUME NEW g \in Signals, Signalled(t, g) PROVE IndInv'
      BY <2>3, SignalledStep
    <2>4. CASE Install(t) \/ Remove(t) \/ Leave(t)
      BY <2>4, InstallStep, RemoveStep, LeaveStep
    <2>5. CASE Runtime(t)
      BY <2>5, IncrementStep, SetupStep, DecrementStep, RestoreStep, UnstackStep,
         ReraiseStep, RaiseStep, RaiseDefaultStep, HandlerReturnsStep DEF Runtime
    <2> QED
      BY <2>1, <2>2, <2>3, <2>4, <2>5
  <1>2. CASE UNCHANGED vars
    <2> USE <1>2 DEF vars, IndInv
    <2>1. TypeOK'
      BY DEF TypeOK
    <2>2. ThreadInv' /\ ManualInv' /\ LockInv'
      BY DEF ThreadInv, ManualInv, LockInv
    <2>3. CountInv'
      BY DEF CountInv, Users, RunUses, ManualUse
    <2>4. HandlersInv'
      BY DEF HandlersInv
    <2> QED
      BY <2>1, <2>2, <2>3, <2>4
  <1> QED
    BY <1>1, <1>2

-----------------------------------------------------------------------------
(* The theorems.                                                           *)

\* The invariant holds throughout: the count is the number of runs and installations
\* that rely on the handlers, and the handlers are as the count says.
THEOREM InvAlways == Spec => []IndInv
  <1>1. IndInv /\ [Next]_vars => IndInv'
    BY InvStep
  <1> QED
    BY <1>1, InvInit, PTL DEF Spec

\* Any number of threads may run instances and install and remove the handlers by hand:
\* a guest always runs with Lucet's handlers, its panic hook and its own signal stack.
THEOREM GuestsAreCovered == Spec => []GuestIsCovered
  <1>1. IndInv => GuestIsCovered
    <2> SUFFICES ASSUME IndInv, NEW t \in Threads, thread[t].at = "guest", ~dead
                 PROVE  /\ \A g \in Signals : action[g] = Lucet
                        /\ hook = Lucet
                        /\ thread[t].stack => altstack[t] = t
      BY DEF GuestIsCovered
    <2>1. counter > 0
      BY UsedByGuest
    <2> QED
      BY <2>1 DEF IndInv, HandlersInv, ThreadInv
  <1> QED
    BY <1>1, InvAlways, PTL

\* The runtime never saves its own handlers as the host's, and restores the host's
\* handlers, hook and signal stacks when the last user is gone.
THEOREM HostGetsItsOwnBack == Spec => []HostIsRestored
  <1>1. IndInv => HostIsRestored
    <2> SUFFICES ASSUME IndInv PROVE HostIsRestored
      OBVIOUS
    <2> USE DEF IndInv
    <2>1. \A g \in Signals : counter > 0 => saved[g] = Host
      BY DEF HandlersInv
    <2>2. ASSUME counter = 0, lock = None
          PROVE  hook = Host /\ \A g \in Signals : action[g] = Host
      BY <2>2 DEF HandlersInv, LockInv
    <2>3. \A t \in Threads : thread[t].at = "host" => altstack[t] = Host
      BY DEF ThreadInv
    <2> QED
      BY <2>1, <2>2, <2>3 DEF HostIsRestored
  <1> QED
    BY <1>1, InvAlways, PTL

\* A thread is moved by its own steps alone.
LEMMA OthersStay ==
    ASSUME IndInv, Next
    PROVE  \E t \in Threads :
              /\ \A u \in Threads : u # t => thread'[u] = thread[u]
              /\ \/ \E ensure, stack \in BOOLEAN : Enter(t, ensure, stack)
                 \/ Install(t) \/ Remove(t) \/ Leave(t) \/ Runtime(t)
                 \/ \E g \in Signals : Signalled(t, g)
  <1>1. PICK t \in Threads :
           \/ \E ensure, stack \in BOOLEAN : Enter(t, ensure, stack)
           \/ Install(t) \/ Remove(t) \/ Leave(t) \/ Runtime(t)
           \/ \E g \in Signals : Signalled(t, g)
    BY DEF Next
  <1> SUFFICES ASSUME NEW u \in Threads, u # t PROVE thread'[u] = thread[u]
    BY <1>1
  <1> USE DEF IndInv, TypeOK, Become, Goto, Deliver
  <1>2. CASE Runtime(t)
    BY <1>2 DEF Runtime, Increment, Setup, Decrement, Restore, Unstack, Reraise, Raise,
                RaiseDefault, HandlerReturns, AfterIncrement, AfterDecrement
  <1>3. CASE Install(t) \/ Remove(t) \/ Leave(t)
    BY <1>3 DEF Install, Remove, Leave
  <1>4. CASE \E ensure, stack \in BOOLEAN : Enter(t, ensure, stack)
    BY <1>4 DEF Enter
  <1>5. CASE \E g \in Signals : Signalled(t, g)
    BY <1>5 DEF Signalled
  <1> QED
    BY <1>1, <1>2, <1>3, <1>4, <1>5

\* The handler never returns from a signal that the host has not seen, and never meets
\* itself when it raises one again.
THEOREM NoSignalIsSwallowed == Spec => SignalsReachHost
  <1> DEFINE Reaches == \A t \in Threads :
                           /\ thread[t].sig # 0 /\ thread'[t].sig = 0 => thread[t].seen
                           /\ thread[t].at = "raise" => thread'[t].at # "handler"
  <1>1. IndInv /\ [Next]_vars => [Reaches]_vars
    <2> SUFFICES ASSUME IndInv, Next, NEW u \in Threads
                 PROVE  /\ thread[u].sig # 0 /\ thread'[u].sig = 0 => thread[u].seen
                        /\ thread[u].at = "raise" => thread'[u].at # "handler"
      OBVIOUS
    <2>1. PICK t \in Threads :
             /\ \A v \in Threads : v # t => thread'[v] = thread[v]
             /\ \/ \E ensure, stack \in BOOLEAN : Enter(t, ensure, stack)
                \/ Install(t) \/ Remove(t) \/ Leave(t) \/ Runtime(t)
                \/ \E g \in Signals : Signalled(t, g)
      BY OthersStay
    <2>2. CASE u # t
      BY <2>1, <2>2
    <2>3. CASE thread[t].at \notin Answering
      BY <2>1, <2>2, <2>3 DEF IndInv, ThreadInv
    <2>4. CASE u = t /\ thread[t].at \in Answering
      <3> USE DEF IndInv, ThreadInv, Moves
      <3>1. Reraise(t) \/ Raise(t) \/ RaiseDefault(t) \/ HandlerReturns(t)
        BY <2>1, <2>4 DEF Enter, Install, Remove, Leave, Runtime, Increment, Setup,
           Decrement,
                          Restore, Unstack, Signalled, At
      <3>2. CASE Reraise(t)
        BY <2>4, <3>2, ReraiseMoves
      <3>3. CASE Raise(t)
        BY <2>4, <3>3, RaiseMoves
      <3>4. CASE RaiseDefault(t)
        BY <2>4, <3>4, GotoMoves DEF RaiseDefault, At
      <3>5. CASE HandlerReturns(t)
        BY <2>4, <3>5, HomeMoves DEF HandlerReturns, At
      <3> QED
        BY <3>1, <3>2, <3>3, <3>4, <3>5
    <2> QED
      BY <2>2, <2>3, <2>4
  <1> QED
    BY <1>1, InvAlways, PTL DEF SignalsReachHost, Spec
=============================================================================
