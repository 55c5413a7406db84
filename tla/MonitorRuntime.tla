--------------------------- MODULE MonitorRuntime ---------------------------
(* The instrumented program at run time: every operation of UserProgram     *)
(* surrounded by the hooks the instrumenter inserted, the hooks of          *)
(* this_is_our_monitor_function step by step.  Each hook takes the one      *)
(* global MONITOR_LOCK, prints a record to stdout in one or two prints and  *)
(* releases the lock when its guard goes out of scope.  A hook can panic:   *)
(* on a poisoned MONITOR_LOCK, or when a print fails.                       *)
EXTENDS UserProgram, SequencesExt, Selection

CONSTANTS
    Hooks,          \* the hooks the monitor library defines
    StdoutMayBreak  \* may the reader of stdout go away?

MemHooks  == {"mem_read", "mem_write"}
CallHooks == {"lock_before", "lock_after", "try_lock_before", "try_lock_after",
              "drop_before", "drop_after"}
EntryHooks == {"entry_before", "entry_after"}

ASSUME HooksAssumption ==
    /\ Hooks \subseteq MemHooks \cup CallHooks \cup EntryHooks
    /\ StdoutMayBreak \in BOOLEAN

VARIABLES
    stage,      \* per thread: around its operation, "idle", "before" or "after"
    pending,    \* per thread: the hooks still to run at this stage
    at,         \* per thread: in the first of them: "out", "head", "body", "unlock"
    monitor,    \* who holds MONITOR_LOCK
    poisoned,   \* is MONITOR_LOCK poisoned?
    broken,     \* do writes to stdout fail?
    leaked,     \* mutexes whose guard a hook's panic leaked (ghost)
    log         \* what the hooks wrote to stdout

hookVars == <<stage, pending, at, monitor, poisoned, broken, leaked, log>>
vars == <<userVars, hookVars>>

(* Where the passes put hooks: only those the library has, the memory hooks *)
(* only together, an update reported as a write and then as a read.         *)
(* Slip: a missing hook is not skipped.                                     *)
InsertedAnyway(hooks) == hooks
Inserted(hooks) == IF \E k \in DOMAIN hooks : hooks[k] \notin Hooks THEN <<>> ELSE hooks
InsertedMem(hooks) == IF MemHooks \subseteq Hooks THEN hooks ELSE <<>>

(* Slip: the read of an update is reported first.                           *)
BeforeOpReadFirst(t, op) ==
    CASE op.kind = "start"    -> Inserted(<<"entry_before">>)
      [] op.kind = "return" /\ t = Main -> Inserted(<<"entry_after">>)
      [] op.kind = "lock"     -> Inserted(<<"lock_before">>)
      [] op.kind = "try_lock" -> Inserted(<<"try_lock_before">>)
      [] op.kind = "drop"     -> Inserted(<<"drop_before">>)
      [] op.kind = "read"     -> InsertedMem(<<"mem_read">>)
      [] op.kind = "write"    -> InsertedMem(<<"mem_write">>)
      [] op.kind = "update"   -> InsertedMem(<<"mem_read", "mem_write">>)
      [] OTHER                -> <<>>

(* Slip: the guard's drop handler is not among the instrumenters.           *)
BeforeOpDropUnwired(t, op) ==
    CASE op.kind = "start"    -> Inserted(<<"entry_before">>)
      [] op.kind = "return" /\ t = Main -> Inserted(<<"entry_after">>)
      [] op.kind = "lock"     -> Inserted(<<"lock_before">>)
      [] op.kind = "try_lock" -> Inserted(<<"try_lock_before">>)
      [] OTHER                -> <<>>

BeforeOp(t, op) ==
    CASE op.kind = "start"    -> Inserted(<<"entry_before">>)
      [] op.kind = "return" /\ t = Main -> Inserted(<<"entry_after">>)
      [] op.kind = "lock"     -> Inserted(<<"lock_before">>)
      [] op.kind = "try_lock" -> Inserted(<<"try_lock_before">>)
      [] op.kind = "drop"     -> Inserted(<<"drop_before">>)
      [] op.kind = "read"     -> InsertedMem(<<"mem_read">>)
      [] op.kind = "write"    -> InsertedMem(<<"mem_write">>)
      [] op.kind = "update"   -> InsertedMem(<<"mem_write", "mem_read">>)
      [] OTHER                -> <<>>

(* Slip: try_lock has no after handler.                                     *)
AfterOpTryUnwired(op) ==
    CASE op.kind = "lock"     -> Inserted(<<"lock_after">>)
      [] op.kind = "drop"     -> Inserted(<<"drop_after">>)
      [] OTHER                -> <<>>

AfterOp(op) ==
    CASE op.kind = "lock"     -> Inserted(<<"lock_after">>)
      [] op.kind = "try_lock" -> Inserted(<<"try_lock_after">>)
      [] op.kind = "drop"     -> Inserted(<<"drop_after">>)
      [] OTHER                -> <<>>

Init ==
    /\ UserInit
    /\ stage = [t \in Threads |-> IF t = Main THEN "before" ELSE "idle"]
    /\ pending = [t \in Threads |-> BeforeOp(t, doing[t])]
    /\ at = [t \in Threads |-> "out"]
    /\ monitor = None /\ poisoned = FALSE /\ broken = FALSE
    /\ leaked = {} /\ log = <<>>

-----------------------------------------------------------------------------
(* The user's steps, each at the place the hooks leave for it.              *)

BeginOp(t, op) ==
    /\ stage[t] = "idle"
    /\ Begin(t, op)
    /\ op.kind = "drop" => op.on \notin leaked
    /\ stage' = [stage EXCEPT ![t] = "before"]
    /\ pending' = [pending EXCEPT ![t] = BeforeOp(t, op)]
    /\ UNCHANGED <<at, monitor, poisoned, broken, leaked, log>>

PrintFails(t) == doing[t].kind = "print" /\ broken

DoOp(t) ==
    /\ Alive(t) /\ stage[t] = "before" /\ pending[t] = <<>>
    /\ ~PrintFails(t)
    /\ Perform(t)
    /\ stage' = [stage EXCEPT ![t] = "after"]
    /\ pending' = [pending EXCEPT ![t] = AfterOp(doing[t])]
    /\ UNCHANGED <<doing, left, at, monitor, poisoned, broken, leaked, log>>

EndOp(t) ==
    /\ Alive(t) /\ stage[t] = "after" /\ pending[t] = <<>>
    /\ stage' = [stage EXCEPT ![t] = "idle"]
    /\ doing' = [doing EXCEPT ![t] = Idle]
    /\ UNCHANGED <<process, life, left, owner, stdout, spoiled, acquired, accessed,
                   pending, at, monitor, poisoned, broken, leaked, log>>

-----------------------------------------------------------------------------
(* A hook that returns.                                                     *)

InHook(t, where) == Alive(t) /\ pending[t] # <<>> /\ at[t] = where
Goto(t, where) == at' = [at EXCEPT ![t] = where]
Hook(t) == Head(pending[t])

(* A result is printed of a try_lock only: ret.is_ok(), which is false when *)
(* the mutex was locked, but also when it is poisoned and was acquired.     *)
Record(t, part) ==
    [by |-> t, hook |-> Hook(t), on |-> doing[t].on, part |-> part,
     ok |-> doing[t].kind = "try_lock" /\ owner[doing[t].on] = t /\ doing[t].on \notin spoiled]

(* print_leading_info is the first of two prints of the hooks that report a *)
(* call site; the others print once.                                        *)
FirstPrint(hook) == IF hook \in CallHooks THEN "head" ELSE "body"

(* Slip: `let _ = MONITOR_LOCK.lock().unwrap();` drops the guard at once.   *)
TakeMonitorAndDropIt(t) ==
    /\ InHook(t, "out")
    /\ monitor = None /\ ~poisoned
    /\ Goto(t, FirstPrint(Hook(t)))
    /\ UNCHANGED <<userVars, stage, pending, monitor, poisoned, broken, leaked, log>>

(* Slip: lock().unwrap_or_else(PoisonError::into_inner).                    *)
TakeMonitorThoughPoisoned(t) ==
    /\ InHook(t, "out")
    /\ monitor = None
    /\ monitor' = t
    /\ Goto(t, FirstPrint(Hook(t)))
    /\ UNCHANGED <<userVars, stage, pending, poisoned, broken, leaked, log>>

(* MONITOR_LOCK.lock().unwrap()                                             *)
TakeMonitor(t) ==
    /\ InHook(t, "out")
    /\ monitor = None /\ ~poisoned
    /\ monitor' = t
    /\ Goto(t, FirstPrint(Hook(t)))
    /\ UNCHANGED <<userVars, stage, pending, poisoned, broken, leaked, log>>

(* The head has no newline: it stays in stdout's buffer and cannot fail.    *)
PrintHead(t) ==
    /\ InHook(t, "head")
    /\ stdout \in {None, t}
    /\ log' = Append(log, Record(t, "head"))
    /\ Goto(t, "body")
    /\ UNCHANGED <<userVars, stage, pending, monitor, poisoned, broken, leaked>>

PrintBody(t) ==
    /\ InHook(t, "body")
    /\ stdout \in {None, t} /\ ~broken
    /\ log' = Append(log, Record(t, "body"))
    /\ Goto(t, "unlock")
    /\ UNCHANGED <<userVars, stage, pending, monitor, poisoned, broken, leaked>>

(* Slip: the guard is forgotten.                                            *)
ForgetMonitor(t) ==
    /\ InHook(t, "unlock")
    /\ pending' = [pending EXCEPT ![t] = Tail(@)]
    /\ Goto(t, "out")
    /\ UNCHANGED <<userVars, stage, monitor, poisoned, broken, leaked, log>>

(* Slip: the after hook gets the LockResult by value and drops the guard.   *)
ReleaseMonitorAndGuard(t) ==
    /\ InHook(t, "unlock")
    /\ monitor' = None
    /\ pending' = [pending EXCEPT ![t] = Tail(@)]
    /\ Goto(t, "out")
    /\ owner' = [m \in Mutexes |->
                   IF Hook(t) = "lock_after" /\ m = doing[t].on THEN None ELSE owner[m]]
    /\ UNCHANGED <<process, life, doing, left, stdout, spoiled, acquired, accessed,
                   stage, poisoned, broken, leaked, log>>

ReleaseMonitor(t) ==
    /\ InHook(t, "unlock")
    /\ monitor' = None
    /\ pending' = [pending EXCEPT ![t] = Tail(@)]
    /\ Goto(t, "out")
    /\ UNCHANGED <<userVars, stage, poisoned, broken, leaked, log>>

-----------------------------------------------------------------------------
(* A hook that panics.                                                      *)

(* What the panic leaks: the guard the call just returned is not yet the    *)
(* caller's to drop, the guard about to be dropped no longer is.            *)
LeakedBy(t) ==
    IF Hook(t) \in {"lock_after", "try_lock_after", "drop_before"}
      THEN {doing[t].on} \cap Held(t) ELSE {}

(* A memory hook's unwind action is Terminate(Abi), and a second panic in   *)
(* a drop hook of a cleanup block aborts too; the other hooks unwind along  *)
(* the edge of the operation they belong to.                                *)
Panic(t) ==
    /\ IF Hook(t) \in MemHooks \/ life[t] = "unwinding"
         THEN process' = "aborted" /\ UNCHANGED <<life, doing, stage, pending, leaked>>
         ELSE /\ life' = [life EXCEPT ![t] = "unwinding"]
              /\ doing' = [doing EXCEPT ![t] = Idle]
              /\ stage' = [stage EXCEPT ![t] = "idle"]
              /\ pending' = [pending EXCEPT ![t] = <<>>]
              /\ leaked' = leaked \cup LeakedBy(t)
              /\ UNCHANGED process
    /\ Goto(t, "out")
    /\ UNCHANGED <<left, owner, stdout, spoiled, acquired, accessed, broken, log>>

(* lock() returns Err with the guard in it; unwrap() panics and drops it.   *)
FindPoisoned(t) ==
    /\ InHook(t, "out")
    /\ monitor = None /\ poisoned
    /\ Panic(t)
    /\ UNCHANGED <<monitor, poisoned>>

(* Slip: the guard is not dropped by the unwinding.                         *)
BodyFailsHolding(t) ==
    /\ InHook(t, "body")
    /\ stdout \in {None, t} /\ broken
    /\ Panic(t)
    /\ UNCHANGED <<monitor, poisoned>>

(* print! panics on an I/O error; the guard is dropped while panicking,     *)
(* which poisons unless the guard was taken while panicking.                *)
BodyFails(t) ==
    /\ InHook(t, "body")
    /\ stdout \in {None, t} /\ broken
    /\ Panic(t)
    /\ monitor' = None
    /\ poisoned' = (poisoned \/ life[t] = "running")

(* The user's own print fails the same way.                                 *)
UserPrintFails(t) ==
    /\ Alive(t) /\ stage[t] = "before" /\ pending[t] = <<>>
    /\ PrintFails(t) /\ stdout \in {None, t}
    /\ life' = [life EXCEPT ![t] = "unwinding"]
    /\ doing' = [doing EXCEPT ![t] = Idle]
    /\ stage' = [stage EXCEPT ![t] = "idle"]
    /\ UNCHANGED <<process, left, owner, stdout, spoiled, acquired, accessed,
                   pending, at, monitor, poisoned, broken, leaked, log>>

StdoutBreaks ==
    /\ StdoutMayBreak /\ ~broken /\ process = "running"
    /\ broken' = TRUE
    /\ UNCHANGED <<userVars, stage, pending, at, monitor, poisoned, leaked, log>>

(* The guards the frames own are dropped by then, by drops of cleanup       *)
(* blocks, with their hooks; a leaked one is not.                           *)
DieUnwound(t) ==
    /\ process = "running" /\ life[t] = "unwinding" /\ doing[t] = Idle /\ stage[t] = "idle"
    /\ Held(t) \subseteq leaked /\ stdout # t
    /\ life' = [life EXCEPT ![t] = "dead"]
    /\ process' = IF t = Main THEN "exited" ELSE process
    /\ UNCHANGED <<doing, left, owner, stdout, spoiled, acquired, accessed, hookVars>>

-----------------------------------------------------------------------------
Step(t) ==
    \/ \E op \in Ops : BeginOp(t, op)
    \/ DoOp(t) \/ EndOp(t)
    \/ TakeMonitor(t) \/ PrintHead(t) \/ PrintBody(t) \/ ReleaseMonitor(t)
    \/ FindPoisoned(t) \/ BodyFails(t) \/ UserPrintFails(t) \/ DieUnwound(t)

Ended == process # "running" /\ UNCHANGED vars

Next == (\E t \in Threads : Step(t)) \/ StdoutBreaks \/ Ended

(* The operating system runs every thread that can run.  No fairness on     *)
(* StdoutBreaks, and none that favours a waiter of a lock.                  *)
Spec == Init /\ [][Next]_vars /\ \A t \in Threads : WF_vars(Step(t))
-----------------------------------------------------------------------------
Records == [by : Threads, hook : Hooks, part : {"head", "body"}, ok : BOOLEAN,
            on : Threads \cup Mutexes \cup Cells \cup {None}]

TypeOK ==
    /\ process \in {"running", "exited", "aborted"}
    /\ life \in [Threads -> {"unborn", "running", "unwinding", "dead", "finished"}]
    /\ doing \in [Threads -> Ops] /\ left \in [Threads -> Nat]
    /\ owner \in [Mutexes -> Threads \cup {None}] /\ stdout \in Threads \cup {None}
    /\ spoiled \subseteq Mutexes /\ acquired \in [Mutexes -> Seq(Acquisitions)]
    /\ accessed \in [Cells -> Seq(Threads \X Accesses)]
    /\ stage \in [Threads -> {"idle", "before", "after"}]
    /\ pending \in [Threads -> Seq(Hooks)]
    /\ at \in [Threads -> {"out", "head", "body", "unlock"}]
    /\ monitor \in Threads \cup {None}
    /\ poisoned \in BOOLEAN /\ broken \in BOOLEAN /\ leaked \subseteq Mutexes
    /\ log \in Seq(Records)

(* A record is never cut by another hook's: a head is followed by its own   *)
(* body, unless its hook is still printing or died printing, and then       *)
(* nothing follows (MONITOR_LOCK spans both prints of                       *)
(* my_println_with_callsite!).                                              *)
RecordsWhole ==
    \A k \in DOMAIN log :
        /\ log[k].part = "head" =>
             IF k = Len(log) THEN monitor = log[k].by \/ poisoned \/ process = "aborted"
                             ELSE log[k + 1] = [log[k] EXCEPT !.part = "body"]
        /\ log[k].part = "body" /\ log[k].hook \in CallHooks =>
             k > 1 /\ log[k - 1] = [log[k] EXCEPT !.part = "head"]

(* The after hook of a lock prints no result: lock always acquires.         *)
LockedIn(rec) ==
    /\ rec.part = "body"
    /\ rec.hook = "lock_after" \/ (rec.hook = "try_lock_after" /\ rec.ok)
Locking(m) == Picked(log, {k \in DOMAIN log : LockedIn(log[k]) /\ log[k].on = m})
Owners(recs) == [k \in DOMAIN recs |-> recs[k].by]
Reported(acquisition) == acquisition.how = "lock" \/ ~acquisition.poisoned
Acquiring(m) == Picked(acquired[m], {k \in DOMAIN acquired[m] : Reported(acquired[m][k])})

(* The log tells the true order in which a mutex was acquired: it names in  *)
(* order every acquisition so far, except the try_locks that found the      *)
(* mutex poisoned (the hook reports those as failed) and possibly the last, *)
(* whose thread then still owns the mutex (the after hook runs inside the   *)
(* critical section, also when it panics).                                  *)
LockLogFaithful ==
    \A m \in Mutexes :
        LET told == Owners(Locking(m))
        IN  Owners(Acquiring(m)) \in {told, Append(told, owner[m])}

(* What the memory hooks say of one access, in order.                       *)
ToldOf(access) ==
    LET told(hook) == <<access[1], hook>> IN
    CASE access[2] = "read"   -> <<told("mem_read")>>
      [] access[2] = "write"  -> <<told("mem_write")>>
      [] access[2] = "update" -> <<told("mem_write"), told("mem_read")>>

Told(recs) == [k \in DOMAIN recs |-> <<recs[k].by, recs[k].hook>>]
Accessing(c) == Picked(log, {k \in DOMAIN log : log[k].hook \in MemHooks /\ log[k].on = c})
Done(c) == FlattenSeq([k \in DOMAIN accessed[c] |-> ToldOf(accessed[c][k])])

(* For memory that is always accessed under a mutex the log tells the true  *)
(* order of the accesses: it is the order they happened in, followed at     *)
(* most by the announcement of the access the mutex's owner is about to do. *)
AccessLogFaithful ==
    \A c \in Cells :
        LET told == Told(Accessing(c))
            next == owner[GuardOf[c]]
        IN  \/ told = Done(c)
            \/ /\ next # None /\ doing[next].on = c /\ doing[next].kind \in Accesses
               /\ \E n \in 1..2 :
                     told = Done(c) \o SubSeq(ToldOf(<<next, doing[next].kind>>), 1, n)

(* With drop hooks the log yields critical sections: an acquisition on      *)
(* record is followed by the record of the same thread about to drop the    *)
(* guard before any other acquisition of that mutex is.  A drop on record   *)
(* lacks its acquisition only if a panicking thread poisoned the mutex.     *)
(* (Only the record before the drop counts, it is written while the mutex   *)
(* is held; the one after it can be late.)                                  *)
DroppingIn(rec) == rec.part = "body" /\ rec.hook = "drop_before"
Sections(m) ==
    Picked(log, {k \in DOMAIN log : (LockedIn(log[k]) \/ DroppingIn(log[k])) /\ log[k].on = m})
Closed(ends) ==
    \A k \in DOMAIN ends \ {1} :
        /\ LockedIn(ends[k]) => DroppingIn(ends[k - 1])
        /\ LockedIn(ends[k - 1]) => ends[k].by = ends[k - 1].by
Orphaned(ends) ==
    \E k \in DOMAIN ends :
        DroppingIn(ends[k]) /\ ~(k > 1 /\ LockedIn(ends[k - 1]))
HoldIntervalsDisjoint ==
    \A m \in Mutexes : Closed(Sections(m)) /\ (Orphaned(Sections(m)) => m \in spoiled)

(* One panic inside a hook silences every hook of every thread for good:    *)
(* MONITOR_LOCK stays poisoned and each later hook panics at its unwrap().  *)
PoisonSilences == [][poisoned => log' = log /\ poisoned']_vars

(* Nothing can run any more although the process goes on.                   *)
Stuck == process = "running" /\ \A t \in Threads : ~ENABLED Step(t)

AboutToLock(t, m) ==
    Alive(t) /\ stage[t] = "before" /\ pending[t] = <<>> /\ doing[t] = Op("lock", m)

(* Panicking hooks can hang the program, but only because a panic in the    *)
(* after hook of a lock leaked the guard the user never received: whoever   *)
(* waits, waits for such a mutex (or for one held by a thread that does).   *)
HangsOnlyOnLeak ==
    Stuck =>
        /\ \A t \in Threads : Alive(t) => \E m \in Mutexes : AboutToLock(t, m) /\ owner[m] # None
        /\ \E t \in Threads, m \in leaked : AboutToLock(t, m) /\ life[owner[m]] = "dead"

(* The hooks add one deadlock to a program that has none: a thread that     *)
(* runs instrumented code while it holds stdout (a Display impl called by   *)
(* println!) waits for MONITOR_LOCK, whose holder waits for stdout.         *)
HangsOnlyOnStdout ==
    Stuck =>
        \E t, u \in Threads :
            /\ stdout = t /\ monitor = u /\ t # u
            /\ InHook(t, "out")
            /\ InHook(u, "head") \/ InHook(u, "body")

(* Every hook entered is left, by its thread or with the process.           *)
HooksReturn ==
    \A t \in Threads : (pending[t] # <<>>) ~> (pending[t] = <<>> \/ process # "running")

(* Without failing prints the instrumented program is the program: it takes *)
(* the same steps in the same orders and, fairly scheduled, is neither      *)
(* blocked nor starved by the hooks.                                        *)
UserDoing == [t \in Threads |-> IF stage[t] = "after" THEN Idle ELSE doing[t]]
User == INSTANCE UserProgram WITH doing <- UserDoing
ImplementsUser == User!UserSpec
-----------------------------------------------------------------------------
(* The inductive invariant behind RecordsWhole and PoisonSilences.          *)

(* MONITOR_LOCK is held by exactly the thread that is inside a hook...      *)
MonitorHeld == \A t \in Threads : monitor = t <=> at[t] # "out"

(* ... which is a live thread with that hook still pending ...              *)
HookPlace ==
    \A t \in Threads :
        /\ at[t] # "out" => pending[t] # <<>> /\ life[t] \in {"running", "unwinding"}
        /\ at[t] = "head" => Hook(t) \in CallHooks
        /\ stage[t] = "idle" => pending[t] = <<>>

(* ... and took it unpoisoned.                                              *)
HolderFoundItClean == monitor # None => ~poisoned

(* A thread about to be spawned does not exist yet; only Main spawns.       *)
SpawnsUnborn ==
    /\ \A t \in Threads : life[t] = "unborn" => stage[t] = "idle"
    /\ \A t \in Threads : doing[t].kind = "spawn" /\ stage[t] = "before" =>
         t = Main /\ life[doing[t].on] = "unborn"

(* A thread about to drop a guard still owns the mutex.                     *)
DropsOwned ==
    \A t \in Threads :
        stage[t] = "before" /\ doing[t].kind = "drop" => owner[doing[t].on] = t

(* Between the two prints of a hook the last thing written is its head.     *)
HeadOwed ==
    \A t \in Threads : at[t] = "body" /\ Hook(t) \in CallHooks =>
        log # <<>> /\ log[Len(log)] = Record(t, "head")

(* A head at the end of the log is still owed its body, or died with it.    *)
HeadLast ==
    log # <<>> /\ log[Len(log)].part = "head" =>
        \/ poisoned \/ process = "aborted"
        \/ \E t \in Threads : /\ log[Len(log)].by = t
                             /\ at[t] = "body" /\ Hook(t) \in CallHooks

Paired ==
    \A k \in 1..Len(log) :
        /\ log[k].part = "head" /\ k # Len(log) =>
             log[k + 1] = [log[k] EXCEPT !.part = "body"]
        /\ log[k].part = "body" /\ log[k].hook \in CallHooks =>
             k > 1 /\ log[k - 1] = [log[k] EXCEPT !.part = "head"]

(* All of it together: what a state of the instrumented program satisfies   *)
(* because MONITOR_LOCK spans every hook and the user owns what it drops.   *)
LockDiscipline ==
    /\ MonitorHeld /\ HookPlace /\ HolderFoundItClean /\ SpawnsUnborn /\ DropsOwned
    /\ HeadOwed /\ HeadLast /\ Paired
=============================================================================
