---------------------------- MODULE UserProgram ----------------------------
(* The program that is instrumented, as it runs without instrumentation:    *)
(* the abstract specification MonitorRuntime has to implement.  It is not   *)
(* under src/; the operations are the ones the instrumenter puts hooks on,  *)
(* plus stdout, which the hooks share with it.                              *)
(*                                                                          *)
(* Programs are arbitrary up to a discipline that keeps them correct on     *)
(* their own: mutexes are locked in order, never while stdout is locked;    *)
(* a cell is accessed under its mutex; a thread returns holding nothing.    *)
(* Guards are dropped, as such, in code that is instrumented: none is       *)
(* handed to mem::drop, or to unwrap() of a poisoned lock.                  *)
(* A thread may panic: it drops the guards it holds, which poisons their    *)
(* mutexes, and dies.                                                       *)
EXTENDS Integers, Sequences, FiniteSets

CONSTANTS
    Threads, Main,    \* Main runs the entry fn and spawns the others
    None,             \* no thread
    Mutexes,          \* user mutexes, numbered in locking order
    Cells,            \* memory accessed through pointers
    GuardOf,          \* [Cells -> Mutexes]: what protects a cell
    Kinds,            \* the operations this program uses
    MaxOps            \* bound: operations a thread begins, releases aside

AllKinds == {"start", "spawn", "return", "lock", "try_lock", "drop", "read", "write",
             "update", "print", "stdout_lock", "stdout_unlock", "panic"}

ASSUME ProgramAssumption ==
    /\ Main \in Threads /\ None \notin Threads
    /\ Mutexes \subseteq Nat
    /\ GuardOf \in [Cells -> Mutexes]
    /\ Kinds \subseteq AllKinds
    /\ MaxOps \in Nat

VARIABLES
    process,    \* "running", "exited" or "aborted"
    life,       \* per thread: "unborn", "running", "unwinding", "dead", "finished"
    doing,      \* per thread: the operation begun and not yet done
    left,       \* per thread: operations it may still begin
    owner,      \* per mutex: who locked it
    stdout,     \* who locked stdout
    spoiled,    \* the mutexes that are poisoned
    acquired,   \* per mutex: its acquisitions, in order
    accessed    \* per cell: the accesses performed, in order

userVars == <<process, life, doing, left, owner, stdout, spoiled, acquired, accessed>>

Op(kind, on) == [kind |-> kind, on |-> on]
Idle == Op("idle", None)
Accesses == {"read", "write", "update"}
Held(t) == {m \in Mutexes : owner[m] = t}

Ops == {Idle} \cup
       [kind : {"start", "return", "panic", "print", "stdout_lock", "stdout_unlock"},
        on : {None}] \cup
       [kind : {"spawn"}, on : Threads] \cup
       [kind : {"lock", "try_lock", "drop"}, on : Mutexes] \cup
       [kind : Accesses, on : Cells]

(* An acquisition: whether it found the mutex poisoned is part of the       *)
(* result, lock and try_lock hand out the guard either way.                 *)
Acquisitions == [by : Threads, how : {"lock", "try_lock"}, poisoned : BOOLEAN]

(* The operations that need no budget: they wind the program down.          *)
Free == {"spawn", "drop", "stdout_unlock", "return"}

(* The operations of cleanup blocks, all a panicking thread still does.     *)
Cleanup == {"drop", "stdout_unlock"}

Allowed(t, op) ==
    /\ op.kind \in Kinds
    /\ op.kind \in Free \/ left[t] > 0
    /\ op.kind # "start"
    /\ life[t] = "unwinding"     => op.kind \in Cleanup
    /\ op.kind = "spawn"         => t = Main /\ life[op.on] = "unborn"
    /\ op.kind = "return"        => Held(t) = {} /\ stdout # t
    /\ op.kind = "lock"          => stdout # t /\ \A m \in Held(t) : m < op.on
    /\ op.kind = "try_lock"      => owner[op.on] # t
    /\ op.kind = "drop"          => owner[op.on] = t
    /\ op.kind \in Accesses      => owner[GuardOf[op.on]] = t
    /\ op.kind = "stdout_lock"   => stdout # t
    /\ op.kind = "stdout_unlock" => stdout = t

UserInit ==
    /\ process = "running"
    /\ life = [t \in Threads |-> IF t = Main THEN "running" ELSE "unborn"]
    /\ doing = [t \in Threads |-> IF t = Main THEN Op("start", None) ELSE Idle]
    /\ left = [t \in Threads |-> MaxOps]
    /\ owner = [m \in Mutexes |-> None]
    /\ stdout = None
    /\ spoiled = {}
    /\ acquired = [m \in Mutexes |-> <<>>]
    /\ accessed = [c \in Cells |-> <<>>]

Alive(t) == process = "running" /\ life[t] \in {"running", "unwinding"}

Begin(t, op) ==
    /\ Alive(t) /\ doing[t] = Idle
    /\ Allowed(t, op)
    /\ doing' = [doing EXCEPT ![t] = op]
    /\ left' = [left EXCEPT ![t] = IF op.kind \in Free THEN @ ELSE @ - 1]
    /\ UNCHANGED <<process, life, owner, stdout, spoiled, acquired, accessed>>

-----------------------------------------------------------------------------
(* What the operation itself does, `doing` aside.                           *)
DoNothing(t) ==
    /\ doing[t].kind = "start"
    /\ UNCHANGED <<process, life, owner, stdout, spoiled, acquired, accessed>>

DoSpawn(t) ==
    /\ doing[t].kind = "spawn"
    /\ life' = [life EXCEPT ![doing[t].on] = "running"]
    /\ UNCHANGED <<process, owner, stdout, spoiled, acquired, accessed>>

DoReturn(t) ==
    /\ doing[t].kind = "return"
    /\ life' = [life EXCEPT ![t] = "finished"]
    /\ process' = IF t = Main THEN "exited" ELSE process
    /\ UNCHANGED <<owner, stdout, spoiled, acquired, accessed>>

Take(t, m) ==
    /\ owner[m] = None
    /\ owner' = [owner EXCEPT ![m] = t]
    /\ acquired' = [acquired EXCEPT ![m] =
         Append(@, [by |-> t, how |-> doing[t].kind, poisoned |-> m \in spoiled])]

DoLock(t) ==
    /\ doing[t].kind = "lock"
    /\ Take(t, doing[t].on)
    /\ UNCHANGED <<process, life, stdout, spoiled, accessed>>

DoTryLock(t) ==
    /\ doing[t].kind = "try_lock"
    /\ \/ Take(t, doing[t].on)
       \/ owner[doing[t].on] # None /\ UNCHANGED <<owner, acquired>>
    /\ UNCHANGED <<process, life, stdout, spoiled, accessed>>

(* A guard that is dropped while its thread panics poisons the mutex.       *)
DoDrop(t) ==
    /\ doing[t].kind = "drop"
    /\ owner' = [owner EXCEPT ![doing[t].on] = None]
    /\ spoiled' = IF life[t] = "unwinding" THEN spoiled \cup {doing[t].on} ELSE spoiled
    /\ UNCHANGED <<process, life, stdout, acquired, accessed>>

DoAccess(t) ==
    /\ doing[t].kind \in Accesses
    /\ accessed' = [accessed EXCEPT ![doing[t].on] = Append(@, <<t, doing[t].kind>>)]
    /\ UNCHANGED <<process, life, owner, stdout, spoiled, acquired>>

(* print! holds stdout's reentrant lock for the whole call.                 *)
DoPrint(t) ==
    /\ doing[t].kind = "print"
    /\ stdout \in {None, t}
    /\ UNCHANGED <<process, life, owner, stdout, spoiled, acquired, accessed>>

(* stdout().lock(), or println! while it formats its arguments.             *)
DoLockStdout(t) ==
    /\ doing[t].kind = "stdout_lock"
    /\ stdout = None
    /\ stdout' = t
    /\ UNCHANGED <<process, life, owner, spoiled, acquired, accessed>>

DoUnlockStdout(t) ==
    /\ doing[t].kind = "stdout_unlock"
    /\ stdout' = None
    /\ UNCHANGED <<process, life, owner, spoiled, acquired, accessed>>

(* panic!(), an unwrap() of an Err, an index out of bounds.                 *)
DoPanic(t) ==
    /\ doing[t].kind = "panic"
    /\ life' = [life EXCEPT ![t] = "unwinding"]
    /\ UNCHANGED <<process, owner, stdout, spoiled, acquired, accessed>>

Perform(t) ==
    \/ DoNothing(t) \/ DoSpawn(t) \/ DoReturn(t) \/ DoPanic(t)
    \/ DoLock(t) \/ DoTryLock(t) \/ DoDrop(t) \/ DoAccess(t)
    \/ DoPrint(t) \/ DoLockStdout(t) \/ DoUnlockStdout(t)

-----------------------------------------------------------------------------
Do(t) ==
    /\ Alive(t)
    /\ Perform(t)
    /\ doing' = [doing EXCEPT ![t] = Idle]
    /\ UNCHANGED left

(* Unwound out of its last frame; the process exits with Main.              *)
Die(t) ==
    /\ process = "running" /\ life[t] = "unwinding" /\ doing[t] = Idle
    /\ Held(t) = {} /\ stdout # t
    /\ life' = [life EXCEPT ![t] = "dead"]
    /\ process' = IF t = Main THEN "exited" ELSE process
    /\ UNCHANGED <<doing, left, owner, stdout, spoiled, acquired, accessed>>

UserStep(t) == (\E op \in Ops : Begin(t, op)) \/ Do(t) \/ Die(t)

UserNext == \E t \in Threads : UserStep(t)

(* A running thread is scheduled; nothing more.                             *)
UserSpec == UserInit /\ [][UserNext]_userVars /\ \A t \in Threads : WF_userVars(UserStep(t))
=============================================================================
