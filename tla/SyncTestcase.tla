---------------------------- MODULE SyncTestcase ----------------------------
(* testcases/testcase_std_sync: the program the instrumenter is tried on.   *)
(* Its functions use every call the instrumenter knows, and provoke         *)
(* deadlocks on purpose: unreachable!("should deadlock before here") marks  *)
(* what must not be reached, and main must come to its end all the same.    *)
(* A text is what one thread does, guards dropped where rustc drops them.   *)
(* The functions share no object, so each is run as main on its own.        *)
(* std's locks are those of Linux: a second lock by the same thread blocks. *)
EXTENDS Integers, Sequences, FiniteSets

CONSTANTS
    Functions,     \* which of the program's functions to run
    MaxWakeups     \* bound: wake-ups of a condition variable without a notify

ASSUME TestcaseAssumption ==
    /\ Functions \subseteq {"main", "testconvar", "test_multimutex", "test_conflict_lock"}
    /\ MaxWakeups \in Nat

-----------------------------------------------------------------------------
(* The texts                                                                *)

Lock(m) == <<"lock", m>>
Read(l) == <<"read", l>>
Drop(x) == <<"drop", x>>
Wait(b) == <<"barrier", b>>
Spawn(t) == <<"spawn", t>>
SetTo(v) == <<"set", v>>
CondvarWait(how) == <<how, "cm">>
Unreachable == <<"unreachable", "">>

MainText ==
    <<Lock("mutex"), Drop("mutex"), <<"try_lock", "mutex">>, Drop("mutex"),
      Read("rwlock"), Drop("rwlock"), Lock("rwlock"), Drop("rwlock"),
      <<"try_read", "rwlock">>, Drop("rwlock"), <<"try_lock", "rwlock">>, Drop("rwlock"),
      Wait("one")>>

(* Slip: the notifier notifies before it takes the mutex.                   *)
EagerNotifierText == <<<<"notify", "cm">>, Lock("cm"), SetTo(TRUE), Drop("cm")>>

(* spwan_notify_thread                                                      *)
NotifierText == <<Lock("cm"), SetTo(TRUE), Drop("cm"), <<"notify", "cm">>>>

(* A timeout of Duration::MAX never comes, one of u32::MAX ms is one of the *)
(* wake-ups MaxWakeups counts.                                              *)
TestconvarText ==
    <<Lock("cm"), Spawn("n1"), CondvarWait("wait"), Spawn("n2"), CondvarWait("wait"),
      Spawn("n3"), CondvarWait("wait"),
      SetTo(FALSE), Spawn("n4"), CondvarWait("wait_while"),
      SetTo(FALSE), Spawn("n5"), CondvarWait("wait_while"), Drop("cm")>>

Nest(last) == <<Lock("a"), Lock("b"), Lock("c"), Read("d")>> \o last

(* Slip: the guard given to test_moveguard is dropped by its old owner too. *)
MultimutexTextDroppingMoved ==
    Nest(<<Drop("b"), Drop("a"), Drop("d"), Drop("c"), Drop("b")>>)

MultimutexText ==
    Nest(<<Drop("d"), Drop("c"), Drop("b"), Drop("a")>>)
    \o <<Lock("d"), Drop("d")>>
    \o <<Read("d"), Read("d"), Drop("d"), Drop("d")>>
    \o Nest(<<Drop("d"), Lock("d"), Drop("d"), Drop("c"), Drop("b"), Drop("a")>>)
    \o <<Spawn("relock"), Spawn("writer"), Spawn("reader"), Spawn("rewrite")>>
    \o Nest(<<Drop("b"), Drop("a"), Drop("d"), Drop("c")>>)

(* test_conflict_lock: main sleeps after each pair, which need not be long  *)
(* enough for it to get anywhere.                                           *)
ConflictText ==
    <<Spawn("mm1"), Spawn("mm2"), Spawn("rr1"), Spawn("rr2"),
      Spawn("mr1"), Spawn("mr2"), Spawn("pp1"), Spawn("pp2")>>

(* Slip: the threads do not meet between their two locks.                   *)
CrossingTextUnmet(first, second, meet) == <<Lock(first), Lock(second), Unreachable>>

(* Two threads with these, crosswise, deadlock.                             *)
CrossingText(first, second, meet) ==
    <<Lock(first), Wait(meet), Lock(second), Unreachable>>

RelockText(x) == <<Lock(x), Lock(x), Unreachable>>
WriterText == <<Lock("t"), Wait("meet"), Wait("alone1"), Drop("t")>>
ReaderText == <<Read("t"), Wait("meet"), Read("t"), Wait("alone2"), Unreachable>>

(* Slip: the first thread meets the other before it has both locks.         *)
EarlyMeetingText ==
    <<Lock("p1"), Wait("pp"), Lock("p2"), Drop("p2"), Drop("p1")>>

(* The "potential conflict": both orders, but never at the same time.       *)
PotentialText == <<Lock("p1"), Lock("p2"), Wait("pp"), Drop("p2"), Drop("p1")>>
PotentialCounterText == <<Wait("pp"), Lock("p2"), Lock("p1"), Drop("p1"), Drop("p2")>>

Notifiers == {"n1", "n2", "n3", "n4", "n5"}
Threads == {"main", "relock", "writer", "reader", "rewrite", "mm1", "mm2", "rr1", "rr2",
            "mr1", "mr2", "pp1", "pp2"} \cup Notifiers
Objects == {"mutex", "rwlock", "cm", "a", "b", "c", "d", "r", "t", "w",
            "m1", "m2", "r1", "r2", "x1", "x2", "p1", "p2"}
Barriers == {"one", "meet", "alone1", "alone2", "mm", "rr", "mr", "pp"}
Size(b) == IF b = "one" THEN 1 ELSE 2

VARIABLES
    function,    \* the function that is run as main
    pc,          \* per thread: the place in its text, 0 before it is spawned
    owner,       \* per lock: who holds it exclusively
    readers,     \* per lock: how many read guards there are
    value,       \* the bool in the condition variable's mutex
    arrived,     \* per barrier: who waits at it
    sleeping,    \* threads that wait on the condition variable
    woken,       \* threads that have to get its mutex back
    wakeups,     \* wake-ups without a notify so far
    exited       \* has the process ended?

locks == <<owner, readers, value>>
waits == <<arrived, sleeping, woken, wakeups>>
vars == <<function, pc, locks, waits, exited>>

Nobody == "nobody"

Text(t) ==
    CASE t = "main" -> (CASE function = "main"            -> MainText
                          [] function = "testconvar"      -> TestconvarText
                          [] function = "test_multimutex" -> MultimutexText
                          [] OTHER                        -> ConflictText)
      [] t \in Notifiers -> NotifierText
      [] t = "relock" -> RelockText("r")
      [] t = "rewrite" -> RelockText("w")
      [] t = "writer" -> WriterText
      [] t = "reader" -> ReaderText
      [] t = "mm1" -> CrossingText("m1", "m2", "mm")
      [] t = "mm2" -> CrossingText("m2", "m1", "mm")
      [] t = "rr1" -> CrossingText("r1", "r2", "rr")
      [] t = "rr2" -> CrossingText("r2", "r1", "rr")
      [] t = "mr1" -> CrossingText("x1", "x2", "mr")
      [] t = "mr2" -> CrossingText("x2", "x1", "mr")
      [] t = "pp1" -> PotentialText
      [] t = "pp2" -> PotentialCounterText

Init ==
    /\ function \in Functions
    /\ pc = [t \in Threads |-> IF t = "main" THEN 1 ELSE 0]
    /\ owner = [x \in Objects |-> Nobody] /\ readers = [x \in Objects |-> 0]
    /\ value = FALSE
    /\ arrived = [b \in Barriers |-> {}]
    /\ sleeping = {} /\ woken = {} /\ wakeups = 0
    /\ exited = FALSE

-----------------------------------------------------------------------------
(* The steps                                                                *)

At(t, what) ==
    /\ ~exited /\ t \notin sleeping \cup woken
    /\ pc[t] \in 1..Len(Text(t))
    /\ Text(t)[pc[t]][1] \in what
On(t) == Text(t)[pc[t]][2]
Advance(ts) == pc' = [t \in Threads |-> IF t \in ts THEN pc[t] + 1 ELSE pc[t]]

Free(x) == owner[x] = Nobody /\ readers[x] = 0

(* Mutex::lock, RwLock::write and their try_ forms                          *)
Acquire(t) ==
    /\ At(t, {"lock", "try_lock"}) /\ Free(On(t))
    /\ owner' = [owner EXCEPT ![On(t)] = t]
    /\ Advance({t})
    /\ UNCHANGED <<function, readers, value, waits, exited>>

(* RwLock::read and try_read                                                *)
Share(t) ==
    /\ At(t, {"read", "try_read"}) /\ owner[On(t)] = Nobody
    /\ readers' = [readers EXCEPT ![On(t)] = @ + 1]
    /\ Advance({t})
    /\ UNCHANGED <<function, owner, value, waits, exited>>

Release(t) ==
    /\ At(t, {"drop"})
    /\ IF owner[On(t)] = t
         THEN owner' = [owner EXCEPT ![On(t)] = Nobody] /\ UNCHANGED readers
         ELSE readers' = [readers EXCEPT ![On(t)] = @ - 1] /\ UNCHANGED owner
    /\ Advance({t})
    /\ UNCHANGED <<function, value, waits, exited>>

Arrive(t) ==
    /\ At(t, {"barrier"}) /\ t \notin arrived[On(t)]
    /\ LET all == arrived[On(t)] \cup {t}
           complete == Cardinality(all) = Size(On(t))
       IN  /\ arrived' = [arrived EXCEPT ![On(t)] = IF complete THEN {} ELSE all]
           /\ Advance(IF complete THEN all ELSE {})
    /\ UNCHANGED <<function, locks, sleeping, woken, wakeups, exited>>

Set(t) ==
    /\ At(t, {"set"})
    /\ value' = On(t)
    /\ Advance({t})
    /\ UNCHANGED <<function, owner, readers, waits, exited>>

SpawnThread(t) ==
    /\ At(t, {"spawn"})
    /\ pc' = [pc EXCEPT ![t] = @ + 1, ![On(t)] = 1]
    /\ UNCHANGED <<function, locks, waits, exited>>

(* Condvar::wait_while looks at the value before it waits, all of them give *)
(* the mutex back in the same step in which they begin to wait.             *)
Sleep(t) ==
    /\ At(t, {"wait", "wait_while"})
    /\ IF At(t, {"wait_while"}) /\ value
         THEN Advance({t}) /\ UNCHANGED <<owner, sleeping>>
         ELSE /\ owner' = [owner EXCEPT ![On(t)] = Nobody]
              /\ sleeping' = sleeping \cup {t}
              /\ UNCHANGED pc
    /\ UNCHANGED <<function, readers, value, arrived, woken, wakeups, exited>>

Notify(t) ==
    /\ At(t, {"notify"})
    /\ \/ sleeping = {} /\ UNCHANGED <<sleeping, woken>>
       \/ \E s \in sleeping : sleeping' = sleeping \ {s} /\ woken' = woken \cup {s}
    /\ Advance({t})
    /\ UNCHANGED <<function, locks, arrived, wakeups, exited>>

WakeUp ==
    /\ ~exited /\ wakeups < MaxWakeups
    /\ \E s \in sleeping : sleeping' = sleeping \ {s} /\ woken' = woken \cup {s}
    /\ wakeups' = wakeups + 1
    /\ UNCHANGED <<function, pc, locks, arrived, exited>>

Reacquire(t) ==
    /\ ~exited /\ t \in woken /\ Free(On(t))
    /\ owner' = [owner EXCEPT ![On(t)] = t]
    /\ woken' = woken \ {t}
    /\ Advance(IF Text(t)[pc[t]][1] = "wait_while" /\ ~value THEN {} ELSE {t})
    /\ UNCHANGED <<function, readers, value, arrived, sleeping, wakeups, exited>>

Step(t) ==
    \/ Acquire(t) \/ Share(t) \/ Release(t) \/ Arrive(t) \/ Set(t)
    \/ SpawnThread(t) \/ Sleep(t) \/ Notify(t) \/ Reacquire(t)

(* The process ends some time after main has returned.                      *)
Returned(t) == pc[t] = Len(Text(t)) + 1
Exit ==
    /\ ~exited /\ Returned("main")
    /\ exited' = TRUE
    /\ UNCHANGED <<function, pc, locks, waits>>

Next == (\E t \in Threads : Step(t)) \/ WakeUp \/ Exit

(* Every thread that can run does; nothing is assumed of the mutexes, of    *)
(* wake-ups without a notify and of the time the process lives on.          *)
Spec == Init /\ [][Next]_vars /\ \A t \in Threads : WF_vars(Step(t))

-----------------------------------------------------------------------------
TypeOK ==
    /\ function \in Functions
    /\ pc \in [Threads -> Nat] /\ \A t \in Threads : pc[t] <= Len(Text(t)) + 1
    /\ owner \in [Objects -> Threads \cup {Nobody}]
    /\ readers \in [Objects -> Nat]
    /\ arrived \in [Barriers -> SUBSET Threads]
    /\ sleeping \subseteq Threads /\ woken \subseteq Threads \ sleeping
    /\ wakeups \in 0..MaxWakeups
    /\ value \in BOOLEAN /\ exited \in BOOLEAN

(* "should deadlock before here": no schedule gets a thread past the        *)
(* deadlock it is meant to run into, and no try_ call of main, which it     *)
(* would unwrap, ever finds its lock taken.                                 *)
NobodyPanics ==
    \A t \in Threads :
        /\ ~At(t, {"unreachable"})
        /\ At(t, {"try_lock"}) => Free(On(t))
        /\ At(t, {"try_read"}) => owner[On(t)] = Nobody

(* When nothing moves any more, exactly the threads that were meant to hang *)
(* do, each where it was meant to: at the second of two locks it takes      *)
(* again or crosswise, and reader and writer with one of them at the lock   *)
(* and the other at the barrier in front of it.  Main, the notifiers and    *)
(* the "potential conflict", which takes two locks in both orders, are at   *)
(* their end.                                                               *)
Crossing == {"mm1", "mm2", "rr1", "rr2", "mr1", "mr2"}
CanMove(t) ==
    \/ At(t, {"lock", "try_lock"}) /\ Free(On(t))
    \/ At(t, {"read", "try_read"}) /\ owner[On(t)] = Nobody
    \/ At(t, {"barrier"}) /\ t \notin arrived[On(t)]
    \/ At(t, {"drop", "set", "spawn", "wait", "wait_while", "notify"})
    \/ t \in woken /\ Free(On(t))
Quiet == ~exited /\ \A t \in Threads : ~CanMove(t)
HangsAsMeant ==
    Quiet =>
        \A t \in Threads : pc[t] > 0 =>
            CASE t \in {"relock", "rewrite"} -> pc[t] = 2
              [] t \in Crossing -> pc[t] = 3
              [] t \in {"reader", "writer"} ->
                    pc[t] <= 2 /\ pc["reader"] + pc["writer"] = 3
              [] OTHER -> Returned(t)

(* main always returns: no notification is lost, whatever a late notifier   *)
(* of an earlier wait or a spurious wake-up does, and nothing main itself   *)
(* locks stays locked.                                                      *)
MainReturns == <>Returned("main")
=============================================================================
