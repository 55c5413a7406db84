------------------------ MODULE MonitorRuntimeProofs ------------------------
(* The inductive invariant of MonitorRuntime and what follows from it, for  *)
(* every set of threads, mutexes, cells and hooks and every bound; then     *)
(* what the log tells, which needs stronger ones.                           *)
EXTENDS MonitorRuntime, OperatorFacts

-----------------------------------------------------------------------------
(* Operations and the hooks around them.                                    *)

(* What an operation is on follows from its kind.                           *)
LEMMA OpTypes ==
    ASSUME NEW op \in Ops
    PROVE  /\ op.kind = "spawn" => op.on \in Threads
           /\ op.kind \in {"lock", "try_lock", "drop"} => op.on \in Mutexes
           /\ op.kind \in Accesses => op.on \in Cells
           /\ op.on \in Threads \cup Mutexes \cup Cells \cup {None}
  BY DEF Ops, Idle, Op, Accesses

LEMMA IdleType == Idle \in Ops
  BY DEF Ops

LEMMA StartType == Op("start", None) \in Ops
  BY DEF Ops, Op

(* A hook the library lacks is not inserted.                                *)
LEMMA InsertedType ==
    ASSUME NEW hook
    PROVE  Inserted(<<hook>>) \in Seq(Hooks)
<1>1. DOMAIN <<hook>> = {1} /\ <<hook>>[1] = hook
  OBVIOUS
<1>2. CASE hook \in Hooks
  <2>1. <<hook>> \in Seq(Hooks)
    BY <1>2
  <2>2. QED
    BY <2>1, <1>1, <1>2 DEF Inserted
<1>3. CASE hook \notin Hooks
  BY <1>1, <1>3 DEF Inserted
<1>4. QED
  BY <1>2, <1>3

LEMMA InsertedMemType ==
    /\ InsertedMem(<<"mem_read">>) \in Seq(Hooks)
    /\ InsertedMem(<<"mem_write">>) \in Seq(Hooks)
    /\ InsertedMem(<<"mem_write", "mem_read">>) \in Seq(Hooks)
<1>1. CASE MemHooks \subseteq Hooks
  <2>1. "mem_read" \in Hooks /\ "mem_write" \in Hooks
    BY <1>1 DEF MemHooks
  <2>2. /\ <<"mem_read">> \in Seq(Hooks)
        /\ <<"mem_write">> \in Seq(Hooks)
        /\ <<"mem_write", "mem_read">> \in Seq(Hooks)
    BY <2>1
  <2>3. QED
    BY <1>1, <2>2 DEF InsertedMem
<1>2. CASE ~(MemHooks \subseteq Hooks)
  BY <1>2 DEF InsertedMem
<1>3. QED
  BY <1>1, <1>2

LEMMA BeforeOpType ==
    ASSUME NEW t \in Threads, NEW op \in Ops
    PROVE  BeforeOp(t, op) \in Seq(Hooks)
<1>1. /\ Inserted(<<"entry_before">>) \in Seq(Hooks)
      /\ Inserted(<<"entry_after">>) \in Seq(Hooks)
      /\ Inserted(<<"lock_before">>) \in Seq(Hooks)
      /\ Inserted(<<"try_lock_before">>) \in Seq(Hooks)
      /\ Inserted(<<"drop_before">>) \in Seq(Hooks)
  BY InsertedType
<1>2. QED
  BY <1>1, InsertedMemType DEF BeforeOp

LEMMA AfterOpType ==
    ASSUME NEW op \in Ops
    PROVE  AfterOp(op) \in Seq(Hooks)
<1>1. /\ Inserted(<<"lock_after">>) \in Seq(Hooks)
      /\ Inserted(<<"try_lock_after">>) \in Seq(Hooks)
      /\ Inserted(<<"drop_after">>) \in Seq(Hooks)
  BY InsertedType
<1>2. QED
  BY <1>1 DEF AfterOp

-----------------------------------------------------------------------------
(* Steps of the user's program keep the types of its state.                 *)

UserTypeOK ==
    /\ process \in {"running", "exited", "aborted"}
    /\ life \in [Threads -> {"unborn", "running", "unwinding", "dead", "finished"}]
    /\ owner \in [Mutexes -> Threads \cup {None}] /\ stdout \in Threads \cup {None}
    /\ spoiled \subseteq Mutexes /\ acquired \in [Mutexes -> Seq(Acquisitions)]
    /\ accessed \in [Cells -> Seq(Threads \X Accesses)]

LEMMA PerformType ==
    ASSUME UserTypeOK, NEW t \in Threads, doing[t] \in Ops, Perform(t)
    PROVE  UserTypeOK'
<1> USE DEF UserTypeOK
<1>0. /\ doing[t].kind = "spawn" => doing[t].on \in Threads
      /\ doing[t].kind \in {"lock", "try_lock", "drop"} => doing[t].on \in Mutexes
      /\ doing[t].kind \in Accesses => doing[t].on \in Cells
  BY OpTypes
<1>1. ASSUME NEW m \in Mutexes, Take(t, m), doing[t].kind \in {"lock", "try_lock"}
      PROVE  /\ owner' \in [Mutexes -> Threads \cup {None}]
             /\ acquired' \in [Mutexes -> Seq(Acquisitions)]
  <2>1. [by |-> t, how |-> doing[t].kind, poisoned |-> m \in spoiled] \in Acquisitions
    BY <1>1 DEF Acquisitions
  <2>2. QED
    BY <1>1, <2>1 DEF Take
<1>2. CASE DoNothing(t)
  BY <1>2 DEF DoNothing
<1>3. CASE DoSpawn(t)
  BY <1>3, <1>0 DEF DoSpawn
<1>4. CASE DoReturn(t)
  BY <1>4 DEF DoReturn
<1>5. CASE DoLock(t)
  BY <1>5, <1>0, <1>1 DEF DoLock
<1>6. CASE DoTryLock(t)
  BY <1>6, <1>0, <1>1 DEF DoTryLock
<1>7. CASE DoDrop(t)
  BY <1>7, <1>0 DEF DoDrop
<1>8. CASE DoAccess(t)
  <2>1. <<t, doing[t].kind>> \in Threads \X Accesses
    BY <1>8 DEF DoAccess
  <2>2. Append(accessed[doing[t].on], <<t, doing[t].kind>>) \in Seq(Threads \X Accesses)
    BY <1>8, <1>0, <2>1 DEF DoAccess
  <2>3. QED
    BY <1>8, <1>0, <2>2 DEF DoAccess
<1>9. CASE DoPrint(t)
  BY <1>9 DEF DoPrint
<1>10. CASE DoLockStdout(t)
  BY <1>10 DEF DoLockStdout
<1>11. CASE DoUnlockStdout(t)
  BY <1>11 DEF DoUnlockStdout
<1>12. CASE DoPanic(t)
  BY <1>12 DEF DoPanic
<1>13. QED
  BY <1>2, <1>3, <1>4, <1>5, <1>6, <1>7, <1>8, <1>9, <1>10, <1>11, <1>12 DEF Perform

-----------------------------------------------------------------------------
(* Types of the whole state.                                                *)

LEMMA HookType ==
    ASSUME TypeOK, NEW t \in Threads, pending[t] # <<>>
    PROVE  Hook(t) \in Hooks
  BY DEF TypeOK, Hook

LEMMA RecordType ==
    ASSUME TypeOK, NEW t \in Threads, pending[t] # <<>>, NEW part \in {"head", "body"}
    PROVE  Record(t, part) \in Records
<1>1. Hook(t) \in Hooks
  BY HookType
<1>2. doing[t].on \in Threads \cup Mutexes \cup Cells \cup {None}
  BY OpTypes DEF TypeOK
<1>3. QED
  BY <1>1, <1>2 DEF Record, Records

LEMMA InitType == Init => TypeOK
<1> SUFFICES ASSUME Init PROVE TypeOK
  OBVIOUS
<1>1. doing \in [Threads -> Ops]
  BY IdleType, StartType DEF Init, UserInit
<1>2. pending \in [Threads -> Seq(Hooks)]
  BY <1>1, BeforeOpType DEF Init
<1>3. /\ spoiled = {} /\ acquired \in [Mutexes -> Seq(Acquisitions)]
      /\ accessed \in [Cells -> Seq(Threads \X Accesses)]
      /\ left \in [Threads -> Nat]
      /\ owner \in [Mutexes -> Threads \cup {None}]
  BY ProgramAssumption DEF Init, UserInit
<1>4. log \in Seq(Records)
  BY DEF Init
<1>5. /\ life \in [Threads -> {"unborn", "running", "unwinding", "dead", "finished"}]
      /\ stage \in [Threads -> {"idle", "before", "after"}]
      /\ at \in [Threads -> {"out", "head", "body", "unlock"}]
  BY DEF Init, UserInit
<1>6. /\ process = "running" /\ stdout = None /\ monitor = None
      /\ poisoned = FALSE /\ broken = FALSE /\ leaked = {}
  BY DEF Init, UserInit
<1>7. QED
  BY <1>1, <1>2, <1>3, <1>4, <1>5, <1>6, Zenon DEF TypeOK, Records

(* A panic changes who lives and what is leaked, in their types.            *)
LEMMA PanicType ==
    ASSUME TypeOK, NEW t \in Threads, Panic(t), pending[t] # <<>>,
           monitor' \in Threads \cup {None}, poisoned' \in BOOLEAN
    PROVE  TypeOK'
<1> USE DEF TypeOK, Panic, Goto
<1>1. LeakedBy(t) \subseteq Mutexes
  BY DEF LeakedBy, Held
<1>2. CASE Hook(t) \in MemHooks \/ life[t] = "unwinding"
  BY <1>2, Zenon
<1>3. CASE ~(Hook(t) \in MemHooks \/ life[t] = "unwinding")
  <2>1. pending' = [pending EXCEPT ![t] = <<>>] /\ <<>> \in Seq(Hooks)
    BY <1>3
  <2>2. pending' \in [Threads -> Seq(Hooks)]
    BY <2>1
  <2>3. leaked' \subseteq Mutexes
    BY <1>1, <1>3
  <2>4. doing' \in [Threads -> Ops] /\ stage' \in [Threads -> {"idle", "before", "after"}]
    <3>1. doing' = [doing EXCEPT ![t] = Idle] /\ stage' = [stage EXCEPT ![t] = "idle"]
      BY <1>3
    <3>2. QED
      BY <3>1, IdleType
  <2>5. QED
    BY <1>3, <2>2, <2>3, <2>4, Zenon
<1>4. QED
  BY <1>2, <1>3, Zenon

LEMMA StepType ==
    ASSUME TypeOK, NEW t \in Threads, Step(t)
    PROVE  TypeOK'
<1>1. ASSUME NEW op \in Ops, BeginOp(t, op) PROVE TypeOK'
  <2>1. BeforeOp(t, op) \in Seq(Hooks)
    BY BeforeOpType
  <2>2. left' \in [Threads -> Nat]
    BY <1>1 DEF BeginOp, Begin, Allowed, TypeOK
  <2>3. QED
    BY <1>1, <2>1, <2>2 DEF BeginOp, Begin, TypeOK
<1>2. CASE DoOp(t)
  <2>1. UserTypeOK'
    BY <1>2, PerformType DEF DoOp, TypeOK, UserTypeOK
  <2>2. AfterOp(doing[t]) \in Seq(Hooks)
    BY AfterOpType DEF TypeOK
  <2>3. QED
    BY <1>2, <2>1, <2>2, Zenon DEF DoOp, TypeOK, UserTypeOK
<1>3. CASE EndOp(t)
  BY <1>3, IdleType DEF EndOp, TypeOK
<1>4. CASE TakeMonitor(t)
  BY <1>4 DEF TakeMonitor, FirstPrint, Goto, TypeOK, userVars
<1>5. CASE PrintHead(t)
  <2>1. Record(t, "head") \in Records
    BY <1>5, RecordType DEF PrintHead, InHook
  <2>2. QED
    BY <1>5, <2>1 DEF PrintHead, Goto, TypeOK, Records, userVars
<1>6. CASE PrintBody(t)
  <2>1. Record(t, "body") \in Records
    BY <1>6, RecordType DEF PrintBody, InHook
  <2>2. QED
    BY <1>6, <2>1 DEF PrintBody, Goto, TypeOK, Records, userVars
<1>7. CASE ReleaseMonitor(t)
  <2>1. Tail(pending[t]) \in Seq(Hooks)
    BY <1>7 DEF ReleaseMonitor, InHook, TypeOK
  <2>2. QED
    BY <1>7, <2>1 DEF ReleaseMonitor, Goto, TypeOK, userVars
<1>8. CASE FindPoisoned(t)
  BY <1>8, PanicType, Zenon DEF FindPoisoned, InHook, TypeOK
<1>9. CASE BodyFails(t)
  BY <1>9, PanicType, Zenon DEF BodyFails, InHook, TypeOK
<1>10. CASE UserPrintFails(t)
  BY <1>10, IdleType DEF UserPrintFails, TypeOK
<1>11. CASE DieUnwound(t)
  BY <1>11 DEF DieUnwound, TypeOK, hookVars
<1>12. QED
  BY <1>1, <1>2, <1>3, <1>4, <1>5, <1>6, <1>7, <1>8, <1>9, <1>10, <1>11 DEF Step

(* Whatever the threads do and wherever a hook fails, every variable of the *)
(* instrumented program keeps its type; in particular only hooks the        *)
(* library defines are ever run (MonitorsInfo's Option fields).             *)
THEOREM TypeCorrect == Spec => []TypeOK
<1>1. ASSUME TypeOK, [Next]_vars PROVE TypeOK'
  <2>1. CASE \E t \in Threads : Step(t)
    BY <1>1, <2>1, StepType
  <2>2. CASE StdoutBreaks
    BY <1>1, <2>2 DEF StdoutBreaks, TypeOK, userVars
  <2>3. CASE UNCHANGED vars
    BY <1>1, <2>3 DEF vars, userVars, hookVars, TypeOK
  <2>4. QED
    BY <1>1, <2>1, <2>2, <2>3 DEF Next, Ended
<1>2. QED
  BY InitType, <1>1, PTL DEF Spec
-----------------------------------------------------------------------------
(* The steps that touch no hook.                                            *)

QuietStep(t) ==
    \/ \E op \in Ops : BeginOp(t, op)
    \/ DoOp(t) \/ EndOp(t) \/ UserPrintFails(t) \/ DieUnwound(t)

(* Their thread is in no hook, and they leave the hooks alone.              *)
LEMMA QuietOutside ==
    ASSUME TypeOK, LockDiscipline, NEW t \in Threads, QuietStep(t)
    PROVE  /\ at[t] = "out"
           /\ UNCHANGED <<at, monitor, poisoned, log>>
           /\ life[t] # "unborn" /\ process = "running"
<1> USE DEF LockDiscipline, HookPlace, Alive
<1>1. CASE \E op \in Ops : BeginOp(t, op)
  BY <1>1 DEF BeginOp, Begin
<1>2. CASE DoOp(t)
  BY <1>2 DEF DoOp
<1>3. CASE EndOp(t)
  BY <1>3 DEF EndOp
<1>4. CASE UserPrintFails(t)
  BY <1>4 DEF UserPrintFails
<1>5. CASE DieUnwound(t)
  BY <1>5 DEF DieUnwound, hookVars
<1>6. QED
  BY <1>1, <1>2, <1>3, <1>4, <1>5 DEF QuietStep

(* What they change of another thread: nothing, except that Main brings a   *)
(* thread to life.                                                          *)
Spawns(t, u) ==
    /\ t = Main /\ stage[t] = "before" /\ stage'[t] = "after"
    /\ life[u] = "unborn" /\ life'[u] = "running"

LEMMA QuietOthers ==
    ASSUME TypeOK, LockDiscipline, NEW t \in Threads, QuietStep(t),
           NEW u \in Threads, u # t
    PROVE  /\ pending'[u] = pending[u] /\ stage'[u] = stage[u] /\ doing'[u] = doing[u]
           /\ life'[u] = life[u] \/ Spawns(t, u)
<1> USE DEF TypeOK
<1>1. CASE \E op \in Ops : BeginOp(t, op)
  BY <1>1 DEF BeginOp, Begin
<1>2. CASE DoOp(t)
  <2>1. pending'[u] = pending[u] /\ stage'[u] = stage[u] /\ doing'[u] = doing[u]
    BY <1>2 DEF DoOp
  <2>2. life'[u] = life[u] \/ (DoSpawn(t) /\ doing[t].on = u)
    BY <1>2 DEF DoOp, Perform, DoNothing, DoSpawn, DoReturn, DoLock, DoTryLock, DoDrop,
                DoAccess, DoPrint, DoLockStdout, DoUnlockStdout, DoPanic
  <2>3. ASSUME DoSpawn(t), doing[t].on = u PROVE Spawns(t, u)
    <3>1. stage[t] = "before" /\ stage'[t] = "after"
      BY <1>2 DEF DoOp
    <3>2. t = Main /\ life[u] = "unborn"
      BY <2>3, <3>1 DEF DoSpawn, LockDiscipline, SpawnsUnborn
    <3>3. life'[u] = "running"
      BY <2>3 DEF DoSpawn
    <3>4. QED
      BY <3>1, <3>2, <3>3 DEF Spawns
  <2>4. QED
    BY <2>1, <2>2, <2>3
<1>3. CASE EndOp(t)
  BY <1>3 DEF EndOp
<1>4. CASE UserPrintFails(t)
  BY <1>4 DEF UserPrintFails
<1>5. CASE DieUnwound(t)
  BY <1>5 DEF DieUnwound, hookVars
<1>6. QED
  BY <1>1, <1>2, <1>3, <1>4, <1>5 DEF QuietStep

(* They neither take a mutex from another thread nor give it one.           *)
LEMMA QuietOwners ==
    ASSUME TypeOK, LockDiscipline, NEW t \in Threads, QuietStep(t),
           NEW u \in Threads, u # t, NEW m \in Mutexes
    PROVE  owner'[m] = u <=> owner[m] = u
<1> USE ProgramAssumption DEF TypeOK
<1>1. CASE DoOp(t)
  <2>1. ASSUME NEW n \in Mutexes, Take(t, n) PROVE owner'[m] = u <=> owner[m] = u
    BY <2>1, Zenon DEF Take
  <2>2. doing[t] \in Ops /\ stage[t] = "before"
    BY <1>1 DEF DoOp
  <2>3. CASE DoLock(t)
    BY <2>1, <2>2, <2>3, OpTypes DEF DoLock
  <2>4. CASE DoTryLock(t)
    BY <2>1, <2>2, <2>4, OpTypes, Zenon DEF DoTryLock
  <2>5. CASE DoDrop(t)
    <3>1. owner[doing[t].on] = t
      BY <2>2, <2>5 DEF DoDrop, LockDiscipline, DropsOwned
    <3>2. QED
      BY <2>5, <3>1, Zenon DEF DoDrop
  <2>6. CASE DoNothing(t) \/ DoSpawn(t) \/ DoReturn(t) \/ DoAccess(t) \/ DoPrint(t)
             \/ DoLockStdout(t) \/ DoUnlockStdout(t) \/ DoPanic(t)
    BY <2>6, Zenon DEF DoNothing, DoSpawn, DoReturn, DoAccess, DoPrint, DoLockStdout, DoUnlockStdout, DoPanic
  <2>7. QED
    BY <1>1, <2>3, <2>4, <2>5, <2>6 DEF DoOp, Perform
<1>2. CASE (\E op \in Ops : BeginOp(t, op)) \/ EndOp(t) \/ UserPrintFails(t) \/ DieUnwound(t)
  BY <1>2, Zenon DEF BeginOp, Begin, EndOp, UserPrintFails, DieUnwound
<1>3. QED
  BY <1>1, <1>2 DEF QuietStep

(* A mutex stays poisoned, and none is poisoned under its owner.            *)
LEMMA QuietSpoiled ==
    ASSUME TypeOK, LockDiscipline, NEW t \in Threads, QuietStep(t)
    PROVE  /\ spoiled \subseteq spoiled'
           /\ \A m \in Mutexes :
                 m \in spoiled' => m \in spoiled \/ (owner[m] = t /\ owner'[m] = None)
<1> USE DEF TypeOK
<1>1. CASE DoOp(t)
  <2>1. CASE DoDrop(t)
    <3>1. owner[doing[t].on] = t /\ doing[t].on \in Mutexes
      BY <1>1, <2>1, OpTypes DEF DoOp, DoDrop, LockDiscipline, DropsOwned
    <3>2. QED
      BY <2>1, <3>1 DEF DoDrop
  <2>2. CASE ~DoDrop(t)
    BY <1>1, <2>2 DEF DoOp, Perform, DoNothing, DoSpawn, DoReturn, DoLock, DoTryLock,
                      DoAccess, DoPrint, DoLockStdout, DoUnlockStdout, DoPanic
  <2>3. QED
    BY <2>1, <2>2
<1>2. CASE (\E op \in Ops : BeginOp(t, op)) \/ EndOp(t) \/ UserPrintFails(t) \/ DieUnwound(t)
  BY <1>2 DEF BeginOp, Begin, EndOp, UserPrintFails, DieUnwound
<1>3. QED
  BY <1>1, <1>2 DEF QuietStep

(* The head a thread owes its body to stays the head of that record.        *)
LEMMA QuietRecord ==
    ASSUME TypeOK, LockDiscipline, NEW t \in Threads, QuietStep(t),
           NEW u \in Threads, u # t, NEW part
    PROVE  Record(u, part)' = Record(u, part)
<1>1. pending'[u] = pending[u] /\ doing'[u] = doing[u]
  BY QuietOthers
<1>2. ASSUME doing[u].kind = "try_lock"
      PROVE  /\ owner'[doing[u].on] = u <=> owner[doing[u].on] = u
             /\ owner[doing[u].on] = u =>
                  (doing[u].on \in spoiled' <=> doing[u].on \in spoiled)
  <2>1. doing[u].on \in Mutexes
    BY <1>2, OpTypes DEF TypeOK
  <2>2. owner'[doing[u].on] = u <=> owner[doing[u].on] = u
    BY <2>1, QuietOwners
  <2>3. QED
    BY <2>1, <2>2, QuietSpoiled
<1>3. QED
  BY <1>1, <1>2 DEF Record, Hook

(* What the program's discipline says of the two operations the invariant   *)
(* follows: a spawn is Main's and of a new thread, a drop its owner's.      *)
LEMMA AllowedSpawn ==
    ASSUME NEW t, NEW op, Allowed(t, op), op.kind = "spawn"
    PROVE  t = Main /\ life[op.on] = "unborn"
BY DEF Allowed

LEMMA AllowedDrop ==
    ASSUME NEW t, NEW op, Allowed(t, op), op.kind = "drop"
    PROVE  owner[op.on] = t
BY DEF Allowed

LEMMA QuietSpawnsUnborn ==
    ASSUME TypeOK, LockDiscipline, NEW t \in Threads, QuietStep(t)
    PROVE  SpawnsUnborn'
<1> USE DEF TypeOK, LockDiscipline
<1>0. life[t] # "unborn" /\ \A u \in Threads \ {t} :
         /\ stage'[u] = stage[u] /\ doing'[u] = doing[u]
         /\ life'[u] = life[u] \/ Spawns(t, u)
  BY QuietOutside, QuietOthers
<1>1. life'[t] # "unborn"
  BY <1>0 DEF QuietStep, BeginOp, Begin, DoOp, EndOp, UserPrintFails, DieUnwound,
      Perform, DoNothing, DoSpawn, DoReturn, DoLock, DoTryLock, DoDrop, DoAccess,
      DoPrint, DoLockStdout, DoUnlockStdout, DoPanic
<1>2. ASSUME NEW u \in Threads, life'[u] = "unborn" PROVE stage'[u] = "idle"
  BY <1>0, <1>1, <1>2, ZenonT(60) DEF SpawnsUnborn, Spawns
<1>3. ASSUME NEW u \in Threads, doing'[u].kind = "spawn", stage'[u] = "before"
      PROVE  u = Main /\ life'[doing'[u].on] = "unborn"
  <2>1. CASE u # t
    <3>1. u = Main /\ life[doing[u].on] = "unborn" /\ doing[u].on \in Threads
      BY <1>0, <1>3, <2>1, OpTypes DEF SpawnsUnborn
    <3>2. doing[u].on # t /\ ~Spawns(t, doing[u].on)
      BY <1>0, <2>1, <3>1 DEF Spawns
    <3>3. QED
      BY <1>0, <2>1, <3>1, <3>2
  <2>2. CASE u = t
    <3>1. ASSUME NEW op \in Ops, BeginOp(t, op) PROVE u = Main /\ life'[doing'[u].on] = "unborn"
      <4>1. doing'[t] = op /\ life' = life /\ Allowed(t, op)
        BY <3>1 DEF BeginOp, Begin
      <4>2. QED
        BY <1>3, <2>2, <4>1, AllowedSpawn
    <3>2. CASE DoOp(t) \/ EndOp(t)
      BY <1>3, <2>2, <3>2 DEF DoOp, EndOp
    <3>3. CASE UserPrintFails(t)
      BY <1>3, <2>2, <3>3 DEF UserPrintFails
    <3>4. CASE DieUnwound(t)
      BY <1>3, <2>2, <3>4 DEF DieUnwound, Idle, Op
    <3>5. QED
      BY <3>1, <3>2, <3>3, <3>4 DEF QuietStep
  <2>3. QED
    BY <2>1, <2>2
<1>4. QED
  BY <1>2, <1>3 DEF SpawnsUnborn

LEMMA QuietDropsOwned ==
    ASSUME TypeOK, LockDiscipline, NEW t \in Threads, QuietStep(t)
    PROVE  DropsOwned'
<1> USE DEF TypeOK, LockDiscipline
<1> SUFFICES ASSUME NEW u \in Threads, stage'[u] = "before", doing'[u].kind = "drop"
             PROVE  owner'[doing'[u].on] = u
  BY DEF DropsOwned
<1>1. CASE u # t
  <2>1. stage[u] = "before" /\ doing'[u] = doing[u]
    BY <1>1, QuietOthers
  <2>2. owner[doing[u].on] = u /\ doing[u].on \in Mutexes
    BY <2>1, OpTypes DEF DropsOwned
  <2>3. QED
    BY <1>1, <2>1, <2>2, QuietOwners
<1>2. CASE u = t
  <2>1. ASSUME NEW op \in Ops, BeginOp(t, op) PROVE owner'[doing'[u].on] = u
    <3>1. doing'[t] = op /\ owner' = owner /\ Allowed(t, op)
      BY <2>1 DEF BeginOp, Begin
    <3>2. QED
      BY <1>2, <3>1, AllowedDrop
  <2>2. CASE DoOp(t) \/ EndOp(t)
    BY <1>2, <2>2 DEF DoOp, EndOp
  <2>3. CASE UserPrintFails(t)
    BY <1>2, <2>3 DEF UserPrintFails
  <2>4. CASE DieUnwound(t)
    BY <1>2, <2>4 DEF DieUnwound, Idle, Op
  <2>5. QED
    BY <2>1, <2>2, <2>3, <2>4 DEF QuietStep
<1>3. QED
  BY <1>1, <1>2

LEMMA QuietHookPlace ==
    ASSUME TypeOK, LockDiscipline, NEW t \in Threads, QuietStep(t)
    PROVE  HookPlace'
<1> USE DEF TypeOK, LockDiscipline
<1>1. at[t] = "out" /\ at' = at
  BY QuietOutside
<1>2. ASSUME NEW u \in Threads, u # t
      PROVE  /\ at'[u] # "out" => pending'[u] # <<>> /\ life'[u] \in {"running", "unwinding"}
             /\ at'[u] = "head" => Hook(u)' \in CallHooks
             /\ stage'[u] = "idle" => pending'[u] = <<>>
  BY <1>1, <1>2, QuietOthers DEF HookPlace, Spawns, Hook
<1>3. stage'[t] = "idle" => pending'[t] = <<>>
  BY DEF HookPlace, QuietStep, BeginOp, DoOp, EndOp, UserPrintFails, DieUnwound, hookVars
<1>4. QED
  BY <1>1, <1>2, <1>3 DEF HookPlace

LEMMA QuietDiscipline ==
    ASSUME TypeOK, LockDiscipline, NEW t \in Threads, QuietStep(t)
    PROVE  LockDiscipline'
<1>1. at[t] = "out" /\ UNCHANGED <<at, monitor, poisoned, log>>
  BY QuietOutside
<1>2. MonitorHeld' /\ HolderFoundItClean' /\ Paired'
  BY <1>1 DEF LockDiscipline, MonitorHeld, HolderFoundItClean, Paired
<1>3. ASSUME NEW u \in Threads, at'[u] = "body"
      PROVE  Hook(u)' = Hook(u) /\ Record(u, "head")' = Record(u, "head")
  <2>1. u # t
    BY <1>1, <1>3
  <2>2. QED
    BY <2>1, QuietOthers, QuietRecord DEF Hook
<1>4. HeadOwed' /\ HeadLast'
  <2>1. process = "running"
    BY QuietOutside
  <2>2. QED
    BY <1>1, <1>3, <2>1 DEF LockDiscipline, HeadOwed, HeadLast
<1>5. QED
  BY <1>2, <1>4, QuietHookPlace, QuietSpawnsUnborn, QuietDropsOwned DEF LockDiscipline

-----------------------------------------------------------------------------
(* The steps of a hook.                                                     *)

HookStep(t) ==
    \/ TakeMonitor(t) \/ PrintHead(t) \/ PrintBody(t) \/ ReleaseMonitor(t)
    \/ FindPoisoned(t) \/ BodyFails(t)

(* A panic that unwinds ends the operation and forgets its hooks.           *)
Unwinds(t) ==
    /\ life[t] = "running" /\ life'[t] = "unwinding"
    /\ doing' = [doing EXCEPT ![t] = Idle]
    /\ stage' = [stage EXCEPT ![t] = "idle"]
    /\ pending' = [pending EXCEPT ![t] = <<>>]
    /\ leaked' = leaked \cup LeakedBy(t)

(* Only the hook's own thread moves, and it is the only one in a hook.      *)
LEMMA HookFrame ==
    ASSUME TypeOK, LockDiscipline, NEW t \in Threads, HookStep(t)
    PROVE  /\ UNCHANGED <<owner, spoiled>>
           /\ life[t] \in {"running", "unwinding"} /\ pending[t] # <<>>
           /\ UNCHANGED <<doing, stage, life>> \/ Unwinds(t)
           /\ \A u \in Threads \ {t} :
                 /\ at[u] = "out" /\ at'[u] = "out"
                 /\ life'[u] = life[u] /\ pending'[u] = pending[u]
                 /\ doing'[u] = doing[u] /\ stage'[u] = stage[u]
<1> USE DEF TypeOK
<1>1. /\ UNCHANGED <<owner, spoiled>>
      /\ life[t] \in {"running", "unwinding"} /\ pending[t] # <<>>
      /\ \A u \in Threads \ {t} : life'[u] = life[u] /\ pending'[u] = pending[u]
      /\ \A u \in Threads \ {t} : doing'[u] = doing[u] /\ stage'[u] = stage[u]
  BY DEF HookStep, TakeMonitor, PrintHead, PrintBody, ReleaseMonitor, FindPoisoned,
         BodyFails, Panic, InHook, Alive, userVars
<1>2. UNCHANGED <<doing, stage, life>> \/ Unwinds(t)
  BY DEF HookStep, TakeMonitor, PrintHead, PrintBody, ReleaseMonitor, FindPoisoned,
         BodyFails, Panic, InHook, Alive, userVars, Unwinds
<1>3. monitor \in {None, t}
  BY DEF HookStep, TakeMonitor, PrintHead, PrintBody, ReleaseMonitor, FindPoisoned,
         BodyFails, InHook, LockDiscipline, MonitorHeld
<1>4. \A u \in Threads \ {t} : at[u] = "out"
  BY <1>3, ProgramAssumption DEF LockDiscipline, MonitorHeld
<1>5. \A u \in Threads \ {t} : at'[u] = at[u]
  BY DEF HookStep, TakeMonitor, PrintHead, PrintBody, ReleaseMonitor, FindPoisoned,
         BodyFails, Panic, Goto
<1>6. QED
  BY <1>1, <1>2, <1>4, <1>5, Zenon

(* MONITOR_LOCK goes to the thread that enters a hook and comes back.       *)
LEMMA HookMonitorHeld ==
    ASSUME TypeOK, LockDiscipline, NEW t \in Threads, HookStep(t)
    PROVE  MonitorHeld' /\ HolderFoundItClean'
<1> USE DEF TypeOK
<1>1. monitor' = t <=> at'[t] # "out"
  BY ProgramAssumption
     DEF HookStep, TakeMonitor, PrintHead, PrintBody, ReleaseMonitor, FindPoisoned,
         BodyFails, Panic, Goto, FirstPrint, InHook, LockDiscipline, MonitorHeld
<1>2. monitor' \in {None, t} /\ (monitor' # None => ~poisoned')
  BY DEF HookStep, TakeMonitor, PrintHead, PrintBody, ReleaseMonitor, FindPoisoned,
         BodyFails, InHook, LockDiscipline, MonitorHeld, HolderFoundItClean
<1>3. QED
  BY <1>1, <1>2, HookFrame, ProgramAssumption, SMTT(30) DEF MonitorHeld, HolderFoundItClean

LEMMA HookKeepsPlace ==
    ASSUME TypeOK, LockDiscipline, NEW t \in Threads, HookStep(t)
    PROVE  HookPlace'
<1> USE DEF TypeOK
<1>1. CASE TakeMonitor(t) \/ PrintHead(t) \/ PrintBody(t)
  <2>1. pending' = pending /\ life' = life /\ stage' = stage /\ Hook(t)' = Hook(t)
    BY <1>1 DEF TakeMonitor, PrintHead, PrintBody, userVars, Hook
  <2>2. at'[t] = "head" => Hook(t) \in CallHooks
    BY <1>1 DEF TakeMonitor, PrintHead, PrintBody, Goto, FirstPrint
  <2>3. QED
    BY <2>1, <2>2, HookFrame DEF HookPlace, LockDiscipline
<1>2. CASE ReleaseMonitor(t) \/ FindPoisoned(t) \/ BodyFails(t)
  <2>1. at'[t] = "out"
    BY <1>2 DEF ReleaseMonitor, FindPoisoned, BodyFails, Panic, Goto
  <2>2. stage'[t] = "idle" => pending'[t] = <<>>
    BY HookFrame DEF LockDiscipline, HookPlace, Unwinds
  <2>3. QED
    BY <2>1, <2>2, HookFrame DEF HookPlace, LockDiscipline
<1>3. QED
  BY <1>1, <1>2 DEF HookStep

LEMMA HookKeepsUser ==
    ASSUME TypeOK, LockDiscipline, NEW t \in Threads, HookStep(t)
    PROVE  SpawnsUnborn' /\ DropsOwned'
<1> USE DEF TypeOK
<1>1. \A u \in Threads : life'[u] = "unborn" <=> life[u] = "unborn"
  BY HookFrame DEF Unwinds
<1>2. ASSUME NEW u \in Threads
      PROVE  \/ stage'[u] = "idle"
             \/ stage'[u] = stage[u] /\ doing'[u] = doing[u]
  BY HookFrame DEF Unwinds
<1>3. SpawnsUnborn'
  <2>1. ASSUME NEW u \in Threads, life'[u] = "unborn" PROVE stage'[u] = "idle"
    BY <1>1, <1>2, <2>1 DEF LockDiscipline, SpawnsUnborn
  <2>2. ASSUME NEW u \in Threads, doing'[u].kind = "spawn", stage'[u] = "before"
        PROVE  u = Main /\ life'[doing'[u].on] = "unborn"
    <3>1. doing'[u] = doing[u] /\ doing[u].on \in Threads
      BY <1>2, <2>2, OpTypes
    <3>2. QED
      BY <1>1, <1>2, <2>2, <3>1 DEF LockDiscipline, SpawnsUnborn
  <2>3. QED
    BY <2>1, <2>2 DEF SpawnsUnborn
<1>4. DropsOwned'
  <2>1. owner' = owner
    BY HookFrame
  <2>2. ASSUME NEW u \in Threads, stage'[u] = "before", doing'[u].kind = "drop"
        PROVE  owner'[doing'[u].on] = u
    BY <1>2, <2>1, <2>2 DEF LockDiscipline, DropsOwned
  <2>3. QED
    BY <2>2 DEF DropsOwned
<1>5. QED
  BY <1>3, <1>4

(* The holder of MONITOR_LOCK finds a head at the end of the log only if it *)
(* wrote it itself and owes the body.                                       *)
LEMMA HolderOwesHead ==
    ASSUME TypeOK, LockDiscipline, NEW t \in Threads, HookStep(t), ~poisoned,
           log # <<>>, log[Len(log)].part = "head"
    PROVE  at[t] = "body" /\ Hook(t) \in CallHooks /\ log[Len(log)] = Record(t, "head")
<1>1. process = "running"
  BY DEF HookStep, TakeMonitor, PrintHead, PrintBody, ReleaseMonitor, FindPoisoned,
         BodyFails, InHook, Alive
<1>2. QED
  BY <1>1, HookFrame DEF LockDiscipline, HeadLast, HeadOwed

(* Entering a hook, and leaving it one way or another, prints nothing.      *)
LEMMA SilentHookStep ==
    ASSUME TypeOK, LockDiscipline, NEW t \in Threads, HookStep(t),
           ~PrintHead(t), ~PrintBody(t)
    PROVE  HeadOwed' /\ HeadLast' /\ Paired'
<1> USE DEF TypeOK
<1>1. log' = log /\ (poisoned => poisoned')
  BY DEF HookStep, TakeMonitor, ReleaseMonitor, FindPoisoned, BodyFails, Panic
<1>2. at'[t] = "body" => Hook(t)' \notin CallHooks
  BY DEF HookStep, TakeMonitor, ReleaseMonitor, FindPoisoned, BodyFails, Panic, Goto,
         FirstPrint, Hook
<1>3. HeadOwed'
  BY <1>2, HookFrame, Zenon DEF HeadOwed
<1>4. HeadLast'
  <2>1. CASE poisoned
    BY <1>1, <2>1 DEF HeadLast
  <2>2. CASE ~poisoned /\ at[t] = "body"
    BY <2>2 DEF HookStep, TakeMonitor, ReleaseMonitor, FindPoisoned, BodyFails, Panic,
                InHook, Alive, HeadLast
  <2>3. CASE ~poisoned /\ at[t] # "body"
    BY <1>1, <2>3, HolderOwesHead DEF HeadLast
  <2>4. QED
    BY <2>1, <2>2, <2>3
<1>5. Paired'
  BY <1>1, Zenon DEF LockDiscipline, Paired
<1>6. QED
  BY <1>3, <1>4, <1>5

(* What Paired says of a sequence of records, and what keeps it: a head may *)
(* follow a complete record, a body completes its own head.                 *)
PairedIn(recs) ==
    \A k \in 1..Len(recs) :
        /\ recs[k].part = "head" /\ k # Len(recs) =>
             recs[k + 1] = [recs[k] EXCEPT !.part = "body"]
        /\ recs[k].part = "body" /\ recs[k].hook \in CallHooks =>
             k > 1 /\ recs[k - 1] = [recs[k] EXCEPT !.part = "head"]

LEMMA PairedHead ==
    ASSUME NEW S, NEW recs \in Seq(S), NEW rec \in S, PairedIn(recs), rec.part = "head",
           recs = <<>> \/ recs[Len(recs)].part # "head"
    PROVE  PairedIn(Append(recs, rec))
<1> DEFINE new == Append(recs, rec)
<1>1. /\ Len(new) = Len(recs) + 1 /\ new[Len(recs) + 1] = rec
      /\ \A k \in 1..Len(recs) : new[k] = recs[k]
  OBVIOUS
<1> HIDE DEF new
<1>2. ASSUME NEW k \in 1..Len(new)
      PROVE  /\ new[k].part = "head" /\ k # Len(new) =>
                   new[k + 1] = [new[k] EXCEPT !.part = "body"]
             /\ new[k].part = "body" /\ new[k].hook \in CallHooks =>
                   k > 1 /\ new[k - 1] = [new[k] EXCEPT !.part = "head"]
  <2>1. CASE k = Len(recs) + 1
    BY <1>1, <2>1
  <2>2. CASE k = Len(recs) /\ k \in 1..Len(recs)
    BY <1>1, <2>2 DEF PairedIn
  <2>3. CASE k \in 1..Len(recs) /\ k # Len(recs)
    <3>1. k + 1 \in 1..Len(recs) /\ (k > 1 => k - 1 \in 1..Len(recs))
      BY <2>3
    <3>2. new[k] = recs[k] /\ new[k + 1] = recs[k + 1] /\ (k > 1 => new[k - 1] = recs[k - 1])
      BY <1>1, <2>3, <3>1
    <3>3. /\ recs[k].part = "head" => recs[k + 1] = [recs[k] EXCEPT !.part = "body"]
          /\ recs[k].part = "body" /\ recs[k].hook \in CallHooks =>
               k > 1 /\ recs[k - 1] = [recs[k] EXCEPT !.part = "head"]
      BY <2>3 DEF PairedIn
    <3>4. QED
      BY <3>2, <3>3
  <2>4. QED
    BY <1>1, <2>1, <2>2, <2>3
<1>3. QED
  BY <1>2 DEF PairedIn, new

LEMMA PairedBody ==
    ASSUME NEW S, NEW recs \in Seq(S), NEW rec \in S, PairedIn(recs), rec.part = "body",
           recs # <<>> /\ recs[Len(recs)].part = "head" =>
               rec = [recs[Len(recs)] EXCEPT !.part = "body"],
           rec.hook \in CallHooks =>
               recs # <<>> /\ recs[Len(recs)] = [rec EXCEPT !.part = "head"]
    PROVE  PairedIn(Append(recs, rec))
<1> DEFINE new == Append(recs, rec)
<1>1. /\ Len(new) = Len(recs) + 1 /\ new[Len(recs) + 1] = rec
      /\ \A k \in 1..Len(recs) : new[k] = recs[k]
  OBVIOUS
<1> HIDE DEF new
<1>2. ASSUME NEW k \in 1..Len(new)
      PROVE  /\ new[k].part = "head" /\ k # Len(new) =>
                   new[k + 1] = [new[k] EXCEPT !.part = "body"]
             /\ new[k].part = "body" /\ new[k].hook \in CallHooks =>
                   k > 1 /\ new[k - 1] = [new[k] EXCEPT !.part = "head"]
  <2>1. CASE k = Len(recs) + 1
    BY <1>1, <2>1
  <2>2. CASE k = Len(recs) /\ k \in 1..Len(recs)
    BY <1>1, <2>2 DEF PairedIn
  <2>3. CASE k \in 1..Len(recs) /\ k # Len(recs)
    <3>1. k + 1 \in 1..Len(recs) /\ (k > 1 => k - 1 \in 1..Len(recs))
      BY <2>3
    <3>2. new[k] = recs[k] /\ new[k + 1] = recs[k + 1] /\ (k > 1 => new[k - 1] = recs[k - 1])
      BY <1>1, <2>3, <3>1
    <3>3. /\ recs[k].part = "head" => recs[k + 1] = [recs[k] EXCEPT !.part = "body"]
          /\ recs[k].part = "body" /\ recs[k].hook \in CallHooks =>
               k > 1 /\ recs[k - 1] = [recs[k] EXCEPT !.part = "head"]
      BY <2>3 DEF PairedIn
    <3>4. QED
      BY <3>2, <3>3
  <2>4. QED
    BY <1>1, <2>1, <2>2, <2>3
<1>3. QED
  BY <1>2 DEF PairedIn, new

LEMMA PrintHeadPairs ==
    ASSUME TypeOK, LockDiscipline, NEW t \in Threads, PrintHead(t)
    PROVE  HeadOwed' /\ HeadLast' /\ Paired'
<1> DEFINE rec == Record(t, "head")
<1>1. /\ at[t] = "head" /\ at'[t] = "body" /\ pending[t] # <<>>
      /\ log' = Append(log, rec) /\ UNCHANGED <<doing, owner, spoiled, pending>>
  BY DEF PrintHead, InHook, Goto, TypeOK, userVars
<1>2. ~poisoned /\ Hook(t) \in CallHooks
  BY <1>1, ProgramAssumption
     DEF LockDiscipline, MonitorHeld, HolderFoundItClean, HookPlace
<1>3. rec \in Records /\ log \in Seq(Records)
  BY <1>1, RecordType DEF TypeOK, Records
<1>4. rec' = rec /\ rec.part = "head" /\ rec.by = t /\ Hook(t)' = Hook(t)
  BY <1>1 DEF Record, Hook
<1> HIDE DEF rec
<1>5. log' # <<>> /\ log'[Len(log')] = rec
  BY <1>1, <1>3
<1>6. log = <<>> \/ log[Len(log)].part # "head"
  BY <1>1, <1>2, HolderOwesHead DEF HookStep
<1>7. \A u \in Threads : at'[u] = "body" => u = t
  BY HookFrame DEF HookStep
<1>8. HeadOwed'
  BY <1>4, <1>5, <1>7 DEF HeadOwed, rec
<1>9. HeadLast'
  BY <1>1, <1>2, <1>4, <1>5 DEF HeadLast
<1>10. PairedIn(log)
  BY DEF LockDiscipline, Paired, PairedIn
<1>11. PairedIn(Append(log, rec))
  BY <1>3, <1>4, <1>6, <1>10, PairedHead
<1>12. Paired'
  BY <1>1, <1>11, Zenon DEF Paired, PairedIn
<1>13. QED
  BY <1>8, <1>9, <1>12

(* The body goes right after its own head, or after a complete record.      *)
LEMMA PrintBodyPairs ==
    ASSUME TypeOK, LockDiscipline, NEW t \in Threads, PrintBody(t)
    PROVE  HeadOwed' /\ HeadLast' /\ Paired'
<1> DEFINE rec == Record(t, "body")
<1>1. /\ at[t] = "body" /\ at'[t] = "unlock" /\ pending[t] # <<>>
      /\ log' = Append(log, rec)
  BY DEF PrintBody, InHook, Goto, TypeOK
<1>2. ~poisoned
  BY <1>1, ProgramAssumption DEF LockDiscipline, MonitorHeld, HolderFoundItClean
<1>3. rec \in Records /\ log \in Seq(Records)
  BY <1>1, RecordType DEF TypeOK, Records
<1>4. /\ rec.part = "body" /\ rec.hook = Hook(t)
      /\ rec = [Record(t, "head") EXCEPT !.part = "body"]
      /\ Record(t, "head") = [rec EXCEPT !.part = "head"]
  BY DEF Record
<1> HIDE DEF rec
<1>5. log' # <<>> /\ log'[Len(log')] = rec
  BY <1>1, <1>3
<1>6. log # <<>> /\ log[Len(log)].part = "head" => log[Len(log)] = Record(t, "head")
  BY <1>2, HolderOwesHead DEF HookStep
<1>7. rec.hook \in CallHooks => log # <<>> /\ log[Len(log)] = Record(t, "head")
  BY <1>1, <1>4 DEF LockDiscipline, HeadOwed
<1>8. \A u \in Threads : at'[u] # "body"
  BY <1>1, HookFrame DEF HookStep
<1>9. HeadOwed' /\ HeadLast'
  BY <1>4, <1>5, <1>8 DEF HeadOwed, HeadLast
<1>10. PairedIn(log)
  BY DEF LockDiscipline, Paired, PairedIn
<1>11. PairedIn(Append(log, rec))
  BY <1>3, <1>4, <1>6, <1>7, <1>10, PairedBody, Zenon
<1>12. Paired'
  BY <1>1, <1>11, Zenon DEF Paired, PairedIn
<1>13. QED
  BY <1>9, <1>12

LEMMA HookDiscipline ==
    ASSUME TypeOK, LockDiscipline, NEW t \in Threads, HookStep(t)
    PROVE  LockDiscipline'
<1>1. HeadOwed' /\ HeadLast' /\ Paired'
  BY SilentHookStep, PrintHeadPairs, PrintBodyPairs
<1>2. QED
  BY <1>1, HookMonitorHeld, HookKeepsPlace, HookKeepsUser DEF LockDiscipline
-----------------------------------------------------------------------------
(* The theorems.                                                            *)

LEMMA InitDiscipline == Init => LockDiscipline
<1> SUFFICES ASSUME Init PROVE LockDiscipline
  OBVIOUS
<1>1. \A t \in Threads : stage[t] = "idle" => pending[t] = <<>>
  <2> SUFFICES ASSUME NEW t \in Threads, stage[t] = "idle" PROVE pending[t] = <<>>
    OBVIOUS
  <2>1. doing[t] = Idle /\ pending[t] = BeforeOp(t, doing[t])
    BY DEF Init, UserInit
  <2>2. QED
    BY <2>1 DEF BeforeOp, Idle, Op
<1>2. /\ \A t \in Threads : at[t] = "out" /\ doing[t].kind \in {"start", "idle"}
      /\ \A t \in Threads : life[t] = "unborn" => stage[t] = "idle"
      /\ monitor = None /\ log = <<>>
  BY DEF Init, UserInit, Idle, Op
<1>3. MonitorHeld /\ HolderFoundItClean
  BY <1>2, ProgramAssumption DEF MonitorHeld, HolderFoundItClean
<1>4. HookPlace
  BY <1>1, <1>2 DEF HookPlace
<1>5. SpawnsUnborn
  BY <1>2 DEF SpawnsUnborn
<1>6. DropsOwned
  BY <1>2 DEF DropsOwned
<1>7. HeadOwed /\ HeadLast /\ Paired
  BY <1>2 DEF HeadOwed, HeadLast, Paired
<1>8. QED
  BY <1>3, <1>4, <1>5, <1>6, <1>7 DEF LockDiscipline

LEMMA StepDiscipline ==
    ASSUME TypeOK, LockDiscipline, [Next]_vars
    PROVE  LockDiscipline'
<1>1. CASE \E t \in Threads : Step(t)
  <2>1. PICK t \in Threads : QuietStep(t) \/ HookStep(t)
    BY <1>1 DEF Step, QuietStep, HookStep
  <2>2. QED
    BY <2>1, QuietDiscipline, HookDiscipline
<1>2. CASE StdoutBreaks \/ UNCHANGED vars
  BY <1>2 DEF StdoutBreaks, vars, userVars, hookVars, LockDiscipline, MonitorHeld,
      HookPlace, HolderFoundItClean, SpawnsUnborn, DropsOwned, HeadOwed, HeadLast,
      Paired, Record, Hook
<1>3. QED
  BY <1>1, <1>2 DEF Next, Ended

(* MONITOR_LOCK spans every hook: it is held by exactly the thread inside   *)
(* one, taken unpoisoned, and a hook's two prints are adjacent in the log.  *)
(* For any number of threads and mutexes and any set of hooks.              *)
THEOREM DisciplineKept == Spec => []LockDiscipline
<1>1. TypeOK /\ LockDiscipline /\ TypeOK' /\ [Next]_vars => LockDiscipline'
  BY StepDiscipline
<1>2. QED
  BY InitDiscipline, TypeCorrect, <1>1, PTL DEF Spec

(* No record is ever cut by another hook's: the macros' two prints need no  *)
(* other protection than the guard in `_lock`.                              *)
THEOREM RecordsStayWhole == Spec => []RecordsWhole
<1>1. TypeOK /\ LockDiscipline => RecordsWhole
  <2> SUFFICES ASSUME TypeOK, LockDiscipline, NEW k \in DOMAIN log
               PROVE  /\ log[k].part = "head" =>
                            IF k = Len(log) THEN monitor = log[k].by \/ poisoned \/ process = "aborted"
                            ELSE log[k + 1] = [log[k] EXCEPT !.part = "body"]
                      /\ log[k].part = "body" /\ log[k].hook \in CallHooks =>
                            k > 1 /\ log[k - 1] = [log[k] EXCEPT !.part = "head"]
    BY DEF RecordsWhole
  <2>1. k \in 1..Len(log) /\ log # <<>>
    BY DEF TypeOK
  <2>2. k = Len(log) /\ log[k].part = "head" =>
          monitor = log[k].by \/ poisoned \/ process = "aborted"
    BY <2>1 DEF LockDiscipline, HeadLast, MonitorHeld
  <2>3. QED
    BY <2>1, <2>2 DEF LockDiscipline, Paired
<1>2. QED
  BY DisciplineKept, TypeCorrect, <1>1, PTL

(* Once a hook has panicked while it held MONITOR_LOCK, no hook of any      *)
(* thread writes another record, and the lock is never usable again.        *)
THEOREM PoisonIsForGood == Spec => PoisonSilences
<1>1. ASSUME TypeOK, LockDiscipline, [Next]_vars, poisoned
      PROVE  log' = log /\ poisoned'
  <2>1. CASE \E t \in Threads : Step(t)
    <3>1. PICK t \in Threads : Step(t)
      BY <2>1
    <3>2. ~PrintHead(t) /\ ~PrintBody(t)
      BY <1>1, ProgramAssumption, Zenon
         DEF PrintHead, PrintBody, InHook, LockDiscipline, MonitorHeld, HolderFoundItClean
    <3>3. CASE QuietStep(t)
      BY <1>1, <3>3, QuietOutside, Zenon
    <3>4. CASE HookStep(t)
      BY <1>1, <3>2, <3>4, Zenon
         DEF HookStep, TakeMonitor, ReleaseMonitor, FindPoisoned, BodyFails, Panic
    <3>5. QED
      BY <3>1, <3>3, <3>4 DEF Step, QuietStep, HookStep
  <2>2. CASE StdoutBreaks \/ UNCHANGED vars
    BY <1>1, <2>2, Zenon DEF StdoutBreaks, vars, hookVars
  <2>3. QED
    BY <1>1, <2>1, <2>2 DEF Next, Ended
<1>2. TypeOK /\ LockDiscipline /\ [Next]_vars => [poisoned => log' = log /\ poisoned']_vars
  BY <1>1
<1>3. QED
  BY DisciplineKept, TypeCorrect, <1>2, PTL DEF Spec, PoisonSilences

-----------------------------------------------------------------------------
(* The hooks and the program under them.                                    *)

(* Hooks panic because of a print that fails: as long as stdout works       *)
(* MONITOR_LOCK is clean and no guard is leaked, whatever panics the        *)
(* program has of its own; and stdout only breaks if the environment may    *)
(* break it.                                                                *)
FaultsNeedBreak ==
    /\ ~broken => ~poisoned /\ leaked = {}
    /\ broken => StdoutMayBreak

LEMMA FaultsStep ==
    ASSUME TypeOK, FaultsNeedBreak, [Next]_vars
    PROVE  FaultsNeedBreak'
<1> USE DEF FaultsNeedBreak
<1>1. ASSUME NEW t \in Threads, Step(t) PROVE FaultsNeedBreak'
  <2>1. CASE (\E op \in Ops : BeginOp(t, op)) \/ EndOp(t)
    BY <2>1 DEF BeginOp, Begin, EndOp
  <2>2. CASE DoOp(t)
    BY <2>2 DEF DoOp
  <2>3. CASE TakeMonitor(t) \/ PrintHead(t) \/ PrintBody(t) \/ ReleaseMonitor(t)
    BY <2>3 DEF TakeMonitor, PrintHead, PrintBody, ReleaseMonitor, userVars
  <2>4. CASE FindPoisoned(t) \/ BodyFails(t)
    BY <2>4 DEF FindPoisoned, BodyFails, Panic
  <2>5. CASE UserPrintFails(t)
    BY <2>5 DEF UserPrintFails, PrintFails
  <2>6. CASE DieUnwound(t)
    BY <2>6 DEF DieUnwound, hookVars
  <2>7. QED
    BY <1>1, <2>1, <2>2, <2>3, <2>4, <2>5, <2>6 DEF Step
<1>2. CASE StdoutBreaks \/ UNCHANGED vars
  BY <1>2 DEF StdoutBreaks, vars, userVars, hookVars
<1>3. QED
  BY <1>1, <1>2 DEF Next, Ended

LEMMA FaultsKept == Spec => []FaultsNeedBreak
<1>1. Init => FaultsNeedBreak
  BY DEF Init, UserInit, FaultsNeedBreak
<1>2. TypeOK /\ FaultsNeedBreak /\ [Next]_vars => FaultsNeedBreak'
  BY FaultsStep
<1>3. QED
  BY <1>1, <1>2, TypeCorrect, PTL DEF Spec

(* An operation begins and takes effect in the instrumented program where   *)
(* the program itself lets it.                                              *)
LEMMA BeginMaps ==
    ASSUME TypeOK, NEW t \in Threads, NEW op \in Ops, BeginOp(t, op)
    PROVE  User!UserNext
<1>1. /\ Alive(t) /\ stage[t] = "idle" /\ doing[t] = Idle /\ Allowed(t, op)
      /\ doing' = [doing EXCEPT ![t] = op]
      /\ stage' = [stage EXCEPT ![t] = "before"]
      /\ left' = [left EXCEPT ![t] = IF op.kind \in Free THEN @ ELSE @ - 1]
      /\ UNCHANGED <<process, life, owner, stdout, spoiled, acquired, accessed>>
  BY DEF BeginOp, Begin
<1>2. UserDoing[t] = Idle /\ UserDoing' = [UserDoing EXCEPT ![t] = op]
  BY <1>1, Zenon DEF UserDoing, TypeOK
<1>3. User!Alive(t) /\ User!Idle = Idle /\ op \in User!Ops
  BY <1>1 DEF User!Alive, Alive, User!Idle, Idle, User!Op, Op, User!Ops, Ops,
              User!Accesses, Accesses
<1>4. User!Allowed(t, op)
  BY <1>1 DEF Allowed, User!Allowed, User!Free, Free, User!Cleanup, Cleanup, User!Held, Held,
              User!Accesses, Accesses
<1>5. User!Begin(t, op)
  BY <1>1, <1>2, <1>3, <1>4 DEF User!Begin, User!Free, Free
<1>6. QED
  BY <1>3, <1>5 DEF User!UserNext, User!UserStep

LEMMA DoMaps ==
    ASSUME TypeOK, NEW t \in Threads, DoOp(t)
    PROVE  User!UserNext
<1>1. /\ Alive(t) /\ stage[t] = "before" /\ Perform(t)
      /\ stage' = [stage EXCEPT ![t] = "after"] /\ UNCHANGED <<doing, left>>
  BY DEF DoOp
<1>2. UserDoing[t] = doing[t] /\ UserDoing' = [UserDoing EXCEPT ![t] = Idle]
  BY <1>1, Zenon DEF UserDoing, TypeOK
<1>3. User!Alive(t) /\ User!Idle = Idle
  BY <1>1 DEF User!Alive, Alive, User!Idle, Idle, User!Op, Op
<1>4. User!Perform(t)
  <2> USE <1>2 DEF User!Perform
  <2>1. CASE DoLock(t) \/ DoTryLock(t) \/ DoDrop(t)
    BY <2>1 DEF DoLock, DoTryLock, DoDrop, Take,
                User!DoLock, User!DoTryLock, User!DoDrop, User!Take
  <2>2. CASE DoNothing(t) \/ DoSpawn(t) \/ DoReturn(t)
    BY <2>2 DEF DoNothing, DoSpawn, DoReturn, User!DoNothing, User!DoSpawn, User!DoReturn
  <2>3. CASE DoAccess(t)
    BY <2>3 DEF DoAccess, Accesses, User!DoAccess, User!Accesses
  <2>4. CASE DoPrint(t) \/ DoLockStdout(t) \/ DoUnlockStdout(t) \/ DoPanic(t)
    BY <2>4 DEF DoPrint, DoLockStdout, DoUnlockStdout, DoPanic,
                User!DoPrint, User!DoLockStdout, User!DoUnlockStdout, User!DoPanic
  <2>5. QED
    BY <1>1, <2>1, <2>2, <2>3, <2>4 DEF Perform
<1>5. User!Do(t)
  BY <1>1, <1>2, <1>3, <1>4 DEF User!Do
<1>6. QED
  BY <1>5 DEF User!UserNext, User!UserStep

(* Where nothing is leaked a thread dies as the program lets it.            *)
LEMMA DieMaps ==
    ASSUME TypeOK, leaked = {}, NEW t \in Threads, DieUnwound(t)
    PROVE  User!UserNext
<1>1. /\ process = "running" /\ life[t] = "unwinding" /\ doing[t] = Idle /\ stage[t] = "idle"
      /\ Held(t) = {} /\ stdout # t
      /\ life' = [life EXCEPT ![t] = "dead"]
      /\ process' = IF t = Main THEN "exited" ELSE process
      /\ UNCHANGED <<doing, left, owner, stdout, spoiled, acquired, accessed, stage>>
  BY DEF DieUnwound, hookVars
<1>2. UserDoing[t] = User!Idle /\ UserDoing' = UserDoing
  BY <1>1 DEF UserDoing, User!Idle, Idle, User!Op, Op
<1>3. User!Die(t)
  BY <1>1, <1>2 DEF User!Die, User!Held, Held
<1>4. QED
  BY <1>3 DEF User!UserNext, User!UserStep

(* Every other step is a hook's own business.                               *)
LEMMA OthersStutter ==
    ASSUME TypeOK, FaultsNeedBreak, ~broken, NEW t \in Threads, Step(t),
           ~DoOp(t), ~DieUnwound(t), \A op \in Ops : ~BeginOp(t, op)
    PROVE  UNCHANGED User!userVars
<1> USE DEF FaultsNeedBreak, User!userVars
<1>1. CASE EndOp(t)
  <2>1. UserDoing' = UserDoing
    BY <1>1 DEF EndOp, UserDoing, TypeOK
  <2>2. QED
    BY <1>1, <2>1 DEF EndOp
<1>2. CASE TakeMonitor(t) \/ PrintHead(t) \/ PrintBody(t) \/ ReleaseMonitor(t)
  BY <1>2 DEF TakeMonitor, PrintHead, PrintBody, ReleaseMonitor, userVars, UserDoing
<1>3. CASE FindPoisoned(t) \/ BodyFails(t) \/ UserPrintFails(t)
  BY <1>3 DEF FindPoisoned, BodyFails, UserPrintFails, PrintFails
<1>4. QED
  BY <1>1, <1>2, <1>3 DEF Step

(* As long as stdout works, whatever the hooks are and however they are     *)
(* interleaved, the instrumented program does what the program alone could  *)
(* do: hooks delay its operations and never reorder, repeat, drop or enable *)
(* one (they take their arguments by reference or by copy).                 *)
THEOREM HooksAreTransparent == Spec => [][~broken => [User!UserNext]_(User!userVars)]_vars
<1>1. ASSUME TypeOK, FaultsNeedBreak, [Next]_vars, ~broken
      PROVE  [User!UserNext]_(User!userVars)
  <2>1. CASE \E t \in Threads : Step(t)
    BY <1>1, <2>1, BeginMaps, DoMaps, DieMaps, OthersStutter DEF FaultsNeedBreak
  <2>2. CASE StdoutBreaks \/ UNCHANGED vars
    BY <2>2 DEF StdoutBreaks, vars, hookVars, userVars, User!userVars, UserDoing
  <2>3. QED
    BY <1>1, <2>1, <2>2 DEF Next, Ended
<1>2. TypeOK /\ FaultsNeedBreak /\ [Next]_vars =>
        [~broken => [User!UserNext]_(User!userVars)]_vars
  BY <1>1
<1>3. QED
  BY FaultsKept, TypeCorrect, <1>2, PTL DEF Spec

(* The safety half of ImplementsUser: with a stdout that keeps working the  *)
(* instrumented program implements the uninstrumented one.                  *)
THEOREM RefinesUser ==
    ASSUME ~StdoutMayBreak
    PROVE  Spec => User!UserInit /\ [][User!UserNext]_(User!userVars)
<1>1. Init => User!UserInit
  <2> SUFFICES ASSUME Init PROVE User!UserInit
    OBVIOUS
  <2>1. UserDoing = doing
    BY DEF Init, UserInit, UserDoing
  <2>2. QED
    BY <2>1 DEF Init, UserInit, User!UserInit, User!Op, Op, User!Idle, Idle
<1>2. FaultsNeedBreak => ~broken
  BY DEF FaultsNeedBreak
<1>3. UNCHANGED vars => UNCHANGED User!userVars
  BY DEF vars, userVars, hookVars, User!userVars, UserDoing
<1>4. [Next]_vars /\ [~broken => [User!UserNext]_(User!userVars)]_vars /\ ~broken
        => [User!UserNext]_(User!userVars)
  BY <1>3
<1>5. QED
  BY <1>1, <1>2, <1>4, FaultsKept, HooksAreTransparent, PTL DEF Spec


-----------------------------------------------------------------------------
(* What the log tells, for every program, every number of threads and every *)
(* monitor library that has the hooks the question is about: the inductive  *)
(* invariants behind LockLogFaithful, AccessLogFaithful and                 *)
(* HoldIntervalsDisjoint.                                                   *)

-----------------------------------------------------------------------------
(* Where a thread is with the hooks of its operation, and what its mutexes  *)
(* look like then.                                                          *)

(* The hooks still to run are a tail of the ones inserted here.             *)
PendingShape ==
    \A t \in Threads :
        LET before == BeforeOp(t, doing[t]) IN
        /\ stage[t] = "before" =>
              \/ pending[t] \in {<<>>, before}
              \/ before # <<>> /\ pending[t] = Tail(before)
        /\ stage[t] = "after" => pending[t] \in {<<>>, AfterOp(doing[t])}

(* A leaked mutex stays with the thread whose hook panicked: it is not      *)
(* dropped by the unwinding either.                                         *)
LeakedHeld ==
    /\ \A m \in leaked : owner[m] \in Threads /\ life[owner[m]] \in {"unwinding", "dead"}
    /\ \A t \in Threads :
         stage[t] = "before" /\ doing[t].kind = "drop" => doing[t].on \notin leaked

(* Nobody is about to try a mutex it owns already.                          *)
TriesUnowned ==
    \A t \in Threads :
        stage[t] = "before" /\ doing[t].kind = "try_lock" => owner[doing[t].on] # t

(* Whoever is about to access a cell is alive and owns the cell's mutex.    *)
AccessesGuarded ==
    \A t \in Threads :
        stage[t] = "before" /\ doing[t].kind \in Accesses =>
            life[t] = "running" /\ owner[GuardOf[doing[t].on]] = t

(* After a lock its thread owns the mutex, as long as the hook runs.        *)
LocksOwned ==
    \A t \in Threads :
        stage[t] = "after" /\ doing[t].kind = "lock" => owner[doing[t].on] = t

(* After its panic a thread does nothing but what cleanup blocks do.        *)
CleanupOnly ==
    \A t \in Threads :
        life[t] = "unwinding" /\ stage[t] # "idle" => doing[t].kind \in Cleanup \cup {"panic"}

Places ==
    /\ PendingShape /\ LeakedHeld /\ TriesUnowned /\ AccessesGuarded
    /\ LocksOwned /\ CleanupOnly

(* The hooks put around one operation, by its kind.                         *)
LEMMA InsertedValue ==
    ASSUME NEW hook
    PROVE  Inserted(<<hook>>) = IF hook \in Hooks THEN <<hook>> ELSE <<>>
<1>1. DOMAIN <<hook>> = {1} /\ <<hook>>[1] = hook
  OBVIOUS
<1>2. QED
  BY <1>1 DEF Inserted

LEMMA Singletons ==
    ASSUME NEW hook
    PROVE  Head(<<hook>>) = hook /\ Tail(<<hook>>) = <<>> /\ <<hook>> # <<>>
OBVIOUS

LEMMA UpdateHooks ==
    LET both == <<"mem_write", "mem_read">> IN
    /\ Head(both) = "mem_write" /\ Tail(both) = <<"mem_read">> /\ both # <<>>
    /\ Tail(Tail(both)) = <<>> /\ Head(Tail(both)) = "mem_read"
OBVIOUS

LEMMA BeforeOpValue ==
    ASSUME NEW t, NEW op
    PROVE  /\ op.kind = "lock" => BeforeOp(t, op) \in {<<>>, <<"lock_before">>}
           /\ op.kind = "try_lock" => BeforeOp(t, op) \in {<<>>, <<"try_lock_before">>}
           /\ op.kind = "drop" =>
                BeforeOp(t, op) = IF "drop_before" \in Hooks THEN <<"drop_before">> ELSE <<>>
           /\ op.kind = "read" => BeforeOp(t, op) = InsertedMem(<<"mem_read">>)
           /\ op.kind = "write" => BeforeOp(t, op) = InsertedMem(<<"mem_write">>)
           /\ op.kind = "update" => BeforeOp(t, op) = InsertedMem(<<"mem_write", "mem_read">>)
           /\ op.kind \notin {"lock", "try_lock", "drop"} \cup Accesses =>
                BeforeOp(t, op) \in {<<>>, <<"entry_before">>, <<"entry_after">>}
BY InsertedValue DEF BeforeOp, Accesses

LEMMA AfterOpValue ==
    ASSUME NEW op
    PROVE  /\ op.kind = "lock" =>
                AfterOp(op) = IF "lock_after" \in Hooks THEN <<"lock_after">> ELSE <<>>
           /\ op.kind = "try_lock" =>
                AfterOp(op) = IF "try_lock_after" \in Hooks THEN <<"try_lock_after">> ELSE <<>>
           /\ op.kind = "drop" => AfterOp(op) \in {<<>>, <<"drop_after">>}
           /\ op.kind \notin {"lock", "try_lock", "drop"} => AfterOp(op) = <<>>
BY InsertedValue DEF AfterOp

(* A hook is where its kind of operation put it.                            *)
LEMMA BeforeHook ==
    ASSUME NEW t, NEW op, NEW hooks, hooks # <<>>,
           hooks = BeforeOp(t, op) \/ (BeforeOp(t, op) # <<>> /\ hooks = Tail(BeforeOp(t, op)))
    PROVE  /\ Head(hooks) \notin {"lock_after", "try_lock_after", "drop_after"}
           /\ Head(hooks) \in MemHooks <=> op.kind \in Accesses
           /\ Head(hooks) = "drop_before" <=> op.kind = "drop"
           /\ op.kind # "update" => Tail(hooks) = <<>>
           /\ Tail(hooks) # <<>> => hooks = BeforeOp(t, op)
           /\ op.kind = "read" => hooks = <<"mem_read">>
           /\ op.kind = "write" => hooks = <<"mem_write">>
           /\ op.kind = "update" => hooks \in {<<"mem_write", "mem_read">>, <<"mem_read">>}
<1> DEFINE before == BeforeOp(t, op)
<1>1. /\ InsertedMem(<<"mem_read">>) \in {<<>>, <<"mem_read">>}
      /\ InsertedMem(<<"mem_write">>) \in {<<>>, <<"mem_write">>}
      /\ InsertedMem(<<"mem_write", "mem_read">>) \in {<<>>, <<"mem_write", "mem_read">>}
  BY DEF InsertedMem
<1>2. CASE op.kind = "update"
  <2>1. before = <<"mem_write", "mem_read">>
    BY <1>1, <1>2, BeforeOpValue
  <2>2. hooks \in {<<"mem_write", "mem_read">>, <<"mem_read">>}
    BY <2>1, UpdateHooks
  <2>3. /\ Head(hooks) \in {"mem_write", "mem_read"}
        /\ Tail(hooks) # <<>> => hooks = before
    BY <2>1, <2>2, UpdateHooks, Singletons, Zenon
  <2>4. QED
    BY <1>2, <2>2, <2>3 DEF MemHooks, Accesses
<1>3. CASE op.kind # "update"
  <2>1. \E hook : before = <<hook>>
    BY <1>1, <1>3, BeforeOpValue DEF Accesses
  <2>2. hooks = before /\ Tail(hooks) = <<>> /\ hooks = <<Head(hooks)>>
    BY <2>1, Singletons, Zenon
  <2>3. CASE op.kind \in Accesses
    <3>1. op.kind \in {"read", "write"}
      BY <1>3, <2>3 DEF Accesses
    <3>2. /\ op.kind = "read" => hooks = <<"mem_read">>
          /\ op.kind = "write" => hooks = <<"mem_write">>
      BY <1>1, <2>2, BeforeOpValue
    <3>3. /\ op.kind = "read" => Head(hooks) = "mem_read"
          /\ op.kind = "write" => Head(hooks) = "mem_write"
      BY <3>2, Singletons
    <3>4. QED
      BY <2>2, <2>3, <3>1, <3>2, <3>3 DEF MemHooks
  <2>4. CASE op.kind \notin Accesses
    <3>1. /\ op.kind = "drop" => hooks = <<"drop_before">>
          /\ op.kind # "drop" =>
               hooks \in {<<"lock_before">>, <<"try_lock_before">>, <<"entry_before">>,
                          <<"entry_after">>}
      BY <2>2, <2>4, BeforeOpValue
    <3>2. /\ op.kind = "drop" => Head(hooks) = "drop_before"
          /\ op.kind # "drop" =>
               Head(hooks) \in {"lock_before", "try_lock_before", "entry_before", "entry_after"}
      BY <3>1, Singletons
    <3>3. QED
      BY <2>2, <2>4, <3>2 DEF MemHooks, Accesses
  <2>5. QED
    BY <2>3, <2>4
<1>4. QED
  BY <1>2, <1>3

LEMMA AfterHook ==
    ASSUME NEW op, AfterOp(op) # <<>>
    PROVE  LET hook == Head(AfterOp(op)) IN
           /\ AfterOp(op) = <<hook>> /\ Tail(AfterOp(op)) = <<>>
           /\ hook = "lock_after" <=> op.kind = "lock"
           /\ hook = "try_lock_after" <=> op.kind = "try_lock"
           /\ hook \in {"lock_after", "try_lock_after", "drop_after"}
BY AfterOpValue, Singletons, Zenon

(* The same of the hooks a thread has still to run.                         *)
LEMMA HookBefore ==
    ASSUME PendingShape, NEW t \in Threads, stage[t] = "before", pending[t] # <<>>
    PROVE  /\ Hook(t) \notin {"lock_after", "try_lock_after", "drop_after"}
           /\ Hook(t) \in MemHooks <=> doing[t].kind \in Accesses
           /\ Hook(t) = "drop_before" <=> doing[t].kind = "drop"
           /\ doing[t].kind # "update" => Tail(pending[t]) = <<>>
           /\ Tail(pending[t]) # <<>> => pending[t] = BeforeOp(t, doing[t])
           /\ doing[t].kind = "read" => pending[t] = <<"mem_read">>
           /\ doing[t].kind = "write" => pending[t] = <<"mem_write">>
           /\ doing[t].kind = "update" =>
                pending[t] \in {<<"mem_write", "mem_read">>, <<"mem_read">>}
<1>1. \/ pending[t] = BeforeOp(t, doing[t])
      \/ BeforeOp(t, doing[t]) # <<>> /\ pending[t] = Tail(BeforeOp(t, doing[t]))
  BY DEF PendingShape
<1>2. QED
  BY <1>1, BeforeHook, Zenon DEF Hook

LEMMA HookAfter ==
    ASSUME PendingShape, NEW t \in Threads, stage[t] = "after", pending[t] # <<>>
    PROVE  /\ Tail(pending[t]) = <<>>
           /\ Hook(t) = "lock_after" <=> doing[t].kind = "lock"
           /\ Hook(t) = "try_lock_after" <=> doing[t].kind = "try_lock"
           /\ Hook(t) \in {"lock_after", "try_lock_after", "drop_after"}
<1>1. pending[t] = AfterOp(doing[t])
  BY DEF PendingShape
<1>2. QED
  BY <1>1, AfterHook DEF Hook

LEMMA HookStages ==
    ASSUME TypeOK, LockDiscipline, NEW t \in Threads, pending[t] # <<>>
    PROVE  stage[t] \in {"before", "after"}
BY DEF TypeOK, LockDiscipline, HookPlace

-----------------------------------------------------------------------------
(* Places is inductive.                                                     *)

LEMMA InitPlaces == Init => Places
<1> SUFFICES ASSUME Init PROVE Places
  OBVIOUS
<1>1. \A t \in Threads : /\ doing[t].kind \in {"start", "idle"} /\ stage[t] # "after"
                         /\ pending[t] = BeforeOp(t, doing[t]) /\ life[t] # "unwinding"
  BY DEF Init, UserInit, Idle, Op
<1>2. leaked = {}
  BY DEF Init
<1>3. QED
  BY <1>1, <1>2 DEF Places, PendingShape, LeakedHeld, TriesUnowned, AccessesGuarded, Accesses,
      LocksOwned, CleanupOnly

(* What the operation a thread begins asks of the mutexes and its life.     *)
LEMMA AllowedPlaces ==
    ASSUME NEW t, NEW op, Allowed(t, op)
    PROVE  /\ op.kind = "try_lock" => owner[op.on] # t
           /\ op.kind \in Accesses => owner[GuardOf[op.on]] = t
           /\ life[t] = "unwinding" => op.kind \in Cleanup
BY DEF Allowed

(* A quiet step of a thread that ends before an operation begins one.       *)
LEMMA QuietOwn ==
    ASSUME TypeOK, NEW t \in Threads, QuietStep(t), stage'[t] = "before"
    PROVE  /\ life[t] \in {"running", "unwinding"} /\ life' = life /\ owner' = owner
           /\ doing'[t] \in Ops /\ Allowed(t, doing'[t])
           /\ pending'[t] = BeforeOp(t, doing'[t])
           /\ doing'[t].kind = "drop" => doing'[t].on \notin leaked
<1>1. PICK op \in Ops : BeginOp(t, op)
  BY DEF QuietStep, DoOp, EndOp, UserPrintFails, DieUnwound, TypeOK, hookVars
<1>2. doing'[t] = op /\ Allowed(t, op) /\ Alive(t)
  BY <1>1 DEF BeginOp, Begin, TypeOK
<1>3. life' = life /\ owner' = owner /\ pending'[t] = BeforeOp(t, op)
  BY <1>1 DEF BeginOp, Begin, TypeOK
<1>4. op.kind = "drop" => op.on \notin leaked
  BY <1>1 DEF BeginOp
<1>5. QED
  BY <1>2, <1>3, <1>4 DEF Alive

(* A mutex leaves its owner only by a drop.                                 *)
LEMMA QuietKeeps ==
    ASSUME TypeOK, NEW t \in Threads, QuietStep(t), NEW m \in Mutexes, owner[m] = t,
           ~(stage[t] = "before" /\ doing[t] = Op("drop", m))
    PROVE  owner'[m] = t
<1> USE ProgramAssumption DEF TypeOK
<1>1. CASE DoOp(t)
  <2>1. stage[t] = "before" /\ doing[t] \in Ops
    BY <1>1 DEF DoOp
  <2>2. ASSUME NEW n \in Mutexes, Take(t, n) PROVE owner'[m] = t
    BY <2>2 DEF Take
  <2>3. CASE DoDrop(t)
    <3>1. doing[t].on \in Mutexes /\ doing[t] = Op("drop", doing[t].on)
      BY <2>1, <2>3, OpTypes DEF DoDrop, Ops, Idle, Op, Accesses
    <3>2. doing[t].on # m
      BY <2>1, <3>1
    <3>3. QED
      BY <2>3, <3>1, <3>2 DEF DoDrop
  <2>4. CASE DoLock(t) \/ DoTryLock(t)
    <3>1. doing[t].on \in Mutexes
      BY <2>1, <2>4, OpTypes DEF DoLock, DoTryLock
    <3>2. QED
      BY <2>2, <2>4, <3>1 DEF DoLock, DoTryLock
  <2>5. CASE DoNothing(t) \/ DoSpawn(t) \/ DoReturn(t) \/ DoAccess(t) \/ DoPrint(t)
             \/ DoLockStdout(t) \/ DoUnlockStdout(t) \/ DoPanic(t)
    BY <2>5 DEF DoNothing, DoSpawn, DoReturn, DoAccess, DoPrint, DoLockStdout, DoUnlockStdout,
                DoPanic
  <2>6. QED
    BY <1>1, <2>3, <2>4, <2>5 DEF DoOp, Perform
<1>2. CASE (\E op \in Ops : BeginOp(t, op)) \/ EndOp(t) \/ UserPrintFails(t) \/ DieUnwound(t)
  BY <1>2, Zenon DEF BeginOp, Begin, EndOp, UserPrintFails, DieUnwound
<1>3. QED
  BY <1>1, <1>2 DEF QuietStep

(* A thread that panics goes on panicking until it is dead.                 *)
LEMMA QuietUnwinds ==
    ASSUME TypeOK, Places, NEW t \in Threads, QuietStep(t), life[t] \in {"unwinding", "dead"}
    PROVE  life'[t] \in {"unwinding", "dead"}
<1> USE DEF TypeOK
<1>1. CASE DoOp(t)
  <2>1. doing[t].kind \in {"drop", "stdout_unlock", "panic"}
    BY <1>1 DEF DoOp, Alive, Places, CleanupOnly, Cleanup
  <2>2. life' = life \/ life' = [life EXCEPT ![t] = "unwinding"]
    BY <1>1, <2>1 DEF DoOp, Perform, DoNothing, DoSpawn, DoReturn, DoLock, DoTryLock,
                      DoDrop, DoAccess, DoPrint, DoLockStdout, DoUnlockStdout, DoPanic, Accesses
  <2>3. QED
    BY <2>2
<1>2. CASE (\E op \in Ops : BeginOp(t, op)) \/ EndOp(t) \/ UserPrintFails(t) \/ DieUnwound(t)
  BY <1>2 DEF BeginOp, Begin, EndOp, UserPrintFails, DieUnwound
<1>3. QED
  BY <1>1, <1>2 DEF QuietStep

LEMMA QuietShape ==
    ASSUME TypeOK, LockDiscipline, Places, NEW t \in Threads, QuietStep(t)
    PROVE  PendingShape'
<1> USE DEF TypeOK
<1> SUFFICES ASSUME NEW u \in Threads
             PROVE  LET before == BeforeOp(u, doing'[u]) IN
                    /\ stage'[u] = "before" =>
                          \/ pending'[u] \in {<<>>, before}
                          \/ before # <<>> /\ pending'[u] = Tail(before)
                    /\ stage'[u] = "after" => pending'[u] \in {<<>>, AfterOp(doing'[u])}
  BY Zenon DEF PendingShape, BeforeOp, AfterOp, Inserted, InsertedMem
<1>1. CASE u # t
  BY <1>1, QuietOthers, ZenonT(60) DEF Places, PendingShape
<1>2. CASE u = t
  <2>1. CASE stage'[u] = "before"
    BY <1>2, <2>1, QuietOwn, Zenon DEF Places, PendingShape
  <2>2. CASE stage'[u] = "after"
    <3>1. CASE DoOp(t)
      BY <1>2, <3>1 DEF DoOp
    <3>2. CASE ~DoOp(t)
      <4>1. stage[t] = "after" /\ UNCHANGED <<doing, pending>>
        BY <1>2, <2>2, <3>2 DEF QuietStep, BeginOp, EndOp, UserPrintFails, DieUnwound, hookVars
      <4>2. QED
        BY <1>2, <2>2, <4>1 DEF Places, PendingShape
    <3>3. QED
      BY <3>1, <3>2
  <2>3. QED
    BY <2>1, <2>2
<1>3. QED
  BY <1>1, <1>2

LEMMA QuietLeaked ==
    ASSUME TypeOK, LockDiscipline, Places, NEW t \in Threads, QuietStep(t)
    PROVE  leaked' = leaked /\ LeakedHeld'
<1> USE DEF TypeOK
<1>1. leaked' = leaked
  BY DEF QuietStep, BeginOp, DoOp, EndOp, UserPrintFails, DieUnwound, hookVars
<1>2. ASSUME NEW m \in leaked
      PROVE  owner'[m] \in Threads /\ life'[owner'[m]] \in {"unwinding", "dead"}
  <2>1. m \in Mutexes /\ owner[m] \in Threads /\ life[owner[m]] \in {"unwinding", "dead"}
    BY DEF Places, LeakedHeld
  <2>2. CASE owner[m] # t
    <3>1. owner'[m] = owner[m]
      BY <2>1, <2>2, QuietOwners, Zenon
    <3>2. life'[owner[m]] = life[owner[m]]
      BY <2>1, <2>2, QuietOthers DEF Spawns
    <3>3. QED
      BY <2>1, <3>1, <3>2
  <2>3. CASE owner[m] = t
    <3>1. ~(stage[t] = "before" /\ doing[t] = Op("drop", m))
      <4>1. Op("drop", m).kind = "drop" /\ Op("drop", m).on = m
        BY DEF Op
      <4>2. QED
        BY <4>1 DEF Places, LeakedHeld
    <3>2. owner'[m] = t /\ life'[t] \in {"unwinding", "dead"}
      BY <2>1, <2>3, <3>1, QuietKeeps, QuietUnwinds
    <3>3. QED
      BY <3>2
  <2>4. QED
    BY <2>2, <2>3
<1>3. ASSUME NEW u \in Threads, stage'[u] = "before", doing'[u].kind = "drop"
      PROVE  doing'[u].on \notin leaked
  <2>1. CASE u # t
    BY <1>3, <2>1, QuietOthers DEF Places, LeakedHeld
  <2>2. CASE u = t
    BY <1>3, <2>2, QuietOwn
  <2>3. QED
    BY <2>1, <2>2
<1>4. QED
  BY <1>1, <1>2, <1>3 DEF LeakedHeld

LEMMA QuietGuards ==
    ASSUME TypeOK, LockDiscipline, Places, NEW t \in Threads, QuietStep(t)
    PROVE  TriesUnowned' /\ AccessesGuarded'
<1> USE DEF TypeOK
<1>1. ASSUME NEW u \in Threads, stage'[u] = "before", u # t
      PROVE  /\ stage[u] = "before" /\ doing'[u] = doing[u] /\ life'[u] = life[u]
             /\ \A m \in Mutexes : owner'[m] = u <=> owner[m] = u
  <2>1. stage[u] = "before" /\ doing'[u] = doing[u]
    BY <1>1, QuietOthers
  <2>2. life'[u] = life[u]
    BY <1>1, <2>1, QuietOthers DEF Spawns, LockDiscipline, SpawnsUnborn
  <2>3. QED
    BY <1>1, <2>1, <2>2, QuietOwners
<1>2. ASSUME NEW u \in Threads, stage'[u] = "before", doing'[u].kind = "try_lock"
      PROVE  owner'[doing'[u].on] # u
  <2>1. CASE u # t
    <3>1. doing[u].on \in Mutexes
      BY <1>1, <1>2, <2>1, OpTypes
    <3>2. QED
      BY <1>1, <1>2, <2>1, <3>1 DEF Places, TriesUnowned
  <2>2. CASE u = t
    <3>1. owner' = owner /\ Allowed(t, doing'[t])
      BY <1>2, <2>2, QuietOwn
    <3>2. QED
      BY <1>2, <2>2, <3>1, AllowedPlaces
  <2>3. QED
    BY <2>1, <2>2
<1>3. ASSUME NEW u \in Threads, stage'[u] = "before", doing'[u].kind \in Accesses
      PROVE  life'[u] = "running" /\ owner'[GuardOf[doing'[u].on]] = u
  <2>1. CASE u # t
    <3>1. doing[u].on \in Cells /\ GuardOf[doing[u].on] \in Mutexes
      BY <1>1, <1>3, <2>1, OpTypes, ProgramAssumption
    <3>2. QED
      BY <1>1, <1>3, <2>1, <3>1 DEF Places, AccessesGuarded
  <2>2. CASE u = t
    <3>1. /\ life[t] \in {"running", "unwinding"} /\ life' = life /\ owner' = owner
          /\ Allowed(t, doing'[t])
      BY <1>3, <2>2, QuietOwn
    <3>2. life[t] # "unwinding"
      BY <1>3, <2>2, <3>1, AllowedPlaces DEF Accesses, Cleanup
    <3>3. QED
      BY <1>3, <2>2, <3>1, <3>2, AllowedPlaces
  <2>3. QED
    BY <2>1, <2>2
<1>4. QED
  BY <1>2, <1>3 DEF TriesUnowned, AccessesGuarded

LEMMA QuietLocksOwned ==
    ASSUME TypeOK, LockDiscipline, Places, NEW t \in Threads, QuietStep(t)
    PROVE  LocksOwned'
<1> USE DEF TypeOK
<1> SUFFICES ASSUME NEW u \in Threads, stage'[u] = "after", doing'[u].kind = "lock"
             PROVE  owner'[doing'[u].on] = u
  BY DEF LocksOwned
<1>1. CASE u # t
  <2>1. stage[u] = "after" /\ doing'[u] = doing[u] /\ doing[u].on \in Mutexes
    BY <1>1, QuietOthers, OpTypes
  <2>2. QED
    BY <1>1, <2>1, QuietOwners DEF Places, LocksOwned
<1>2. CASE u = t
  <2>1. DoOp(t)
    BY <1>2 DEF Places, QuietStep, BeginOp, EndOp, UserPrintFails, DieUnwound, hookVars
  <2>2. doing' = doing /\ doing[t].on \in Mutexes /\ Perform(t)
    BY <1>2, <2>1, OpTypes DEF DoOp
  <2>3. DoLock(t)
    BY <1>2, <2>2 DEF Perform, DoNothing, DoSpawn, DoReturn, DoLock, DoTryLock, DoDrop,
         DoAccess, DoPrint, DoLockStdout, DoUnlockStdout, DoPanic, Accesses
  <2>4. QED
    BY <1>2, <2>2, <2>3 DEF DoLock, Take
<1>3. QED
  BY <1>1, <1>2

LEMMA QuietCleanup ==
    ASSUME TypeOK, LockDiscipline, Places, NEW t \in Threads, QuietStep(t)
    PROVE  CleanupOnly'
<1> USE DEF TypeOK
<1> SUFFICES ASSUME NEW u \in Threads, life'[u] = "unwinding", stage'[u] # "idle"
             PROVE  doing'[u].kind \in Cleanup \cup {"panic"}
  BY DEF CleanupOnly
<1>1. CASE u # t
  <2>1. life[u] = "unwinding" /\ stage[u] # "idle" /\ doing'[u] = doing[u]
    BY <1>1, QuietOthers DEF Spawns
  <2>2. QED
    BY <2>1 DEF Places, CleanupOnly
<1>2. CASE u = t
  <2>1. CASE stage'[t] = "before"
    BY <1>2, <2>1, QuietOwn, AllowedPlaces
  <2>2. CASE DoOp(t)
    <3>1. life'[t] = life[t] \/ life'[t] # "unwinding" \/ doing[t].kind = "panic"
      BY <2>2 DEF DoOp, Perform, DoNothing, DoSpawn, DoReturn, DoLock, DoTryLock, DoDrop,
           DoAccess, DoPrint, DoLockStdout, DoUnlockStdout, DoPanic
    <3>2. doing' = doing /\ stage[t] # "idle"
      BY <2>2 DEF DoOp
    <3>3. QED
      BY <1>2, <3>1, <3>2 DEF Places, CleanupOnly
  <2>3. CASE EndOp(t) \/ UserPrintFails(t) \/ DieUnwound(t)
    BY <1>2, <2>3 DEF EndOp, UserPrintFails, DieUnwound
  <2>4. CASE \E op \in Ops : BeginOp(t, op)
    BY <2>1, <2>4 DEF BeginOp
  <2>5. QED
    BY <2>2, <2>3, <2>4 DEF QuietStep
<1>3. QED
  BY <1>1, <1>2

LEMMA HookPending ==
    ASSUME TypeOK, NEW t \in Threads, HookStep(t)
    PROVE  \/ pending' = pending
           \/ pending' = [pending EXCEPT ![t] = Tail(@)]
           \/ pending' = [pending EXCEPT ![t] = <<>>]
BY DEF HookStep, TakeMonitor, PrintHead, PrintBody, ReleaseMonitor, FindPoisoned,
       BodyFails, Panic

LEMMA HookShape ==
    ASSUME TypeOK, LockDiscipline, Places, NEW t \in Threads, HookStep(t)
    PROVE  PendingShape'
<1> USE DEF TypeOK
<1> SUFFICES ASSUME NEW u \in Threads
             PROVE  LET before == BeforeOp(u, doing'[u]) IN
                    /\ stage'[u] = "before" =>
                          \/ pending'[u] \in {<<>>, before}
                          \/ before # <<>> /\ pending'[u] = Tail(before)
                    /\ stage'[u] = "after" => pending'[u] \in {<<>>, AfterOp(doing'[u])}
  BY Zenon DEF PendingShape, BeforeOp, AfterOp, Inserted, InsertedMem
<1>0. UNCHANGED <<doing, stage, life>> \/ Unwinds(t)
  BY HookFrame
<1>1. CASE u # t
  <2>1. doing'[u] = doing[u] /\ stage'[u] = stage[u] /\ pending'[u] = pending[u]
    BY <1>1, HookFrame
  <2>2. QED
    BY <2>1 DEF Places, PendingShape
<1>2. CASE u = t /\ Unwinds(t)
  BY <1>2 DEF Unwinds
<1>3. CASE u = t /\ UNCHANGED <<doing, stage>> /\ pending'[t] \in {pending[t], <<>>}
  BY <1>3 DEF Places, PendingShape
<1>4. CASE u = t /\ UNCHANGED <<doing, stage>> /\ pending'[t] = Tail(pending[t])
  <2>1. pending[t] # <<>>
    BY HookFrame
  <2>2. CASE stage[t] = "before"
    BY <1>4, <2>1, <2>2, HookBefore, Zenon DEF Places
  <2>3. CASE stage[t] = "after"
    BY <1>4, <2>1, <2>3, HookAfter DEF Places
  <2>4. QED
    BY <1>4, <2>2, <2>3, Zenon
<1>5. QED
  BY <1>0, <1>1, <1>2, <1>3, <1>4, HookPending

LEMMA HookPlaces ==
    ASSUME TypeOK, LockDiscipline, Places, NEW t \in Threads, HookStep(t)
    PROVE  LeakedHeld' /\ TriesUnowned' /\ AccessesGuarded' /\ LocksOwned' /\ CleanupOnly'
<1> USE DEF TypeOK
<1>1. owner' = owner
  BY HookFrame
<1>2. \/ leaked' = leaked /\ UNCHANGED <<doing, stage, life>>
      \/ Unwinds(t)
  BY DEF HookStep, TakeMonitor, PrintHead, PrintBody, ReleaseMonitor, FindPoisoned,
         BodyFails, Panic, userVars, Unwinds, InHook, Alive
<1>3. ASSUME NEW u \in Threads, stage'[u] # "idle"
      PROVE  stage'[u] = stage[u] /\ doing'[u] = doing[u] /\ life'[u] = life[u]
  BY <1>2, <1>3, HookFrame DEF Unwinds
<1>4. \A m \in LeakedBy(t) : owner[m] = t
  BY DEF LeakedBy, Held
<1>5. LeakedHeld'
  <2>1. ASSUME NEW m \in leaked'
        PROVE  owner'[m] \in Threads /\ life'[owner'[m]] \in {"unwinding", "dead"}
    <3>1. CASE leaked' = leaked /\ life' = life
      BY <1>1, <2>1, <3>1 DEF Places, LeakedHeld
    <3>2. CASE Unwinds(t) /\ m \in LeakedBy(t)
      BY <1>1, <1>4, <3>2 DEF Unwinds
    <3>3. CASE Unwinds(t) /\ m \in leaked
      <4>1. owner[m] \in Threads \ {t} /\ life[owner[m]] \in {"unwinding", "dead"}
        BY <3>3 DEF Places, LeakedHeld, Unwinds
      <4>2. life'[owner[m]] = life[owner[m]]
        BY <4>1, HookFrame
      <4>3. QED
        BY <1>1, <4>1, <4>2
    <3>4. QED
      BY <1>2, <2>1, <3>1, <3>2, <3>3 DEF Unwinds
  <2>2. ASSUME NEW u \in Threads, stage'[u] = "before", doing'[u].kind = "drop"
        PROVE  doing'[u].on \notin leaked'
    <3>1. doing'[u].on \notin leaked
      BY <1>3, <2>2 DEF Places, LeakedHeld
    <3>2. ASSUME Unwinds(t) PROVE doing'[u].on \notin LeakedBy(t)
      <4>1. u # t
        BY <2>2, <3>2 DEF Unwinds
      <4>2. owner[doing'[u].on] = u
        BY <1>3, <2>2 DEF LockDiscipline, DropsOwned
      <4>3. QED
        BY <1>4, <4>1, <4>2
    <3>3. QED
      BY <1>2, <3>1, <3>2 DEF Unwinds
  <2>3. QED
    BY <2>1, <2>2 DEF LeakedHeld
<1>6. TriesUnowned'
  BY <1>1, <1>3 DEF Places, TriesUnowned
<1>7. AccessesGuarded'
  BY <1>1, <1>3 DEF Places, AccessesGuarded
<1>8. LocksOwned' /\ CleanupOnly'
  BY <1>1, <1>3 DEF Places, LocksOwned, CleanupOnly
<1>9. QED
  BY <1>5, <1>6, <1>7, <1>8

LEMMA StepPlaces ==
    ASSUME TypeOK, LockDiscipline, Places, [Next]_vars
    PROVE  Places'
<1>1. CASE \E t \in Threads : Step(t)
  <2>1. PICK t \in Threads : QuietStep(t) \/ HookStep(t)
    BY <1>1 DEF Step, QuietStep, HookStep
  <2>2. QED
    BY <2>1, QuietShape, QuietLeaked, QuietGuards, QuietLocksOwned, QuietCleanup,
             HookShape, HookPlaces DEF Places
<1>2. CASE StdoutBreaks \/ UNCHANGED vars
  <2>1. UNCHANGED <<stage, pending, doing, life, owner, leaked>>
    BY <1>2 DEF StdoutBreaks, vars, userVars, hookVars
  <2>2. PendingShape'
    <3>1. ASSUME NEW t \in Threads
          PROVE  /\ BeforeOp(t, doing[t])' = BeforeOp(t, doing[t])
                 /\ AfterOp(doing[t])' = AfterOp(doing[t])
      BY <2>1 DEF BeforeOp, AfterOp, Inserted, InsertedMem
    <3>2. QED
      BY <2>1, <3>1 DEF Places, PendingShape
  <2>3. QED
    BY <2>1, <2>2 DEF Places, LeakedHeld, TriesUnowned, AccessesGuarded, LocksOwned, CleanupOnly
<1>3. QED
  BY <1>1, <1>2 DEF Next, Ended

LEMMA PlacesKept == Spec => []Places
<1>1. TypeOK /\ LockDiscipline /\ Places /\ [Next]_vars => Places'
  BY StepPlaces
<1>2. QED
  BY InitPlaces, DisciplineKept, TypeCorrect, <1>1, PTL DEF Spec

-----------------------------------------------------------------------------
(* What one more record adds to what the log tells.                         *)

LEMMA LockingGrows ==
    ASSUME TypeOK, NEW rec \in Records, log' = Append(log, rec), NEW m
    PROVE  /\ Locking(m) \in Seq(Records)
           /\ Locking(m)' = IF LockedIn(rec) /\ rec.on = m THEN Append(Locking(m), rec)
                                                           ELSE Locking(m)
<1> DEFINE Good == {r \in Records : LockedIn(r) /\ r.on = m}
<1>1. log \in Seq(Records) /\ log' \in Seq(Records)
  BY AppendFacts DEF TypeOK
<1>2. /\ {k \in DOMAIN log : LockedIn(log[k]) /\ log[k].on = m} = {k \in DOMAIN log : log[k] \in Good}
      /\ {k \in DOMAIN log' : LockedIn(log'[k]) /\ log'[k].on = m} = {k \in DOMAIN log' : log'[k] \in Good}
  BY <1>1
<1>3. rec \in Good <=> LockedIn(rec) /\ rec.on = m
  OBVIOUS
<1> HIDE DEF Good
<1>4. /\ Locking(m) = Picked(log, {k \in DOMAIN log : log[k] \in Good})
      /\ Locking(m)' = Picked(log', {k \in DOMAIN log' : log'[k] \in Good})
  BY <1>2, Zenon DEF Locking, LockedIn
<1>5. Picked(log', {k \in DOMAIN log' : log'[k] \in Good}) =
        IF rec \in Good THEN Append(Picked(log, {k \in DOMAIN log : log[k] \in Good}), rec)
                        ELSE Picked(log, {k \in DOMAIN log : log[k] \in Good})
  BY <1>1, PickedMembers, SMTT(30)
<1>6. Locking(m) \in Seq(Records)
  BY <1>1, PickedType DEF Locking
<1>7. QED
  BY <1>3, <1>4, <1>5, <1>6, Zenon

LEMMA SectionsGrow ==
    ASSUME TypeOK, NEW rec \in Records, log' = Append(log, rec), NEW m
    PROVE  /\ Sections(m) \in Seq(Records)
           /\ Sections(m)' = IF (LockedIn(rec) \/ DroppingIn(rec)) /\ rec.on = m
                               THEN Append(Sections(m), rec) ELSE Sections(m)
<1> DEFINE Good == {r \in Records : (LockedIn(r) \/ DroppingIn(r)) /\ r.on = m}
<1>1. log \in Seq(Records) /\ log' \in Seq(Records)
  BY AppendFacts DEF TypeOK
<1>2. /\ {k \in DOMAIN log : (LockedIn(log[k]) \/ DroppingIn(log[k])) /\ log[k].on = m}
           = {k \in DOMAIN log : log[k] \in Good}
      /\ {k \in DOMAIN log' : (LockedIn(log'[k]) \/ DroppingIn(log'[k])) /\ log'[k].on = m}
           = {k \in DOMAIN log' : log'[k] \in Good}
  BY <1>1
<1>3. rec \in Good <=> (LockedIn(rec) \/ DroppingIn(rec)) /\ rec.on = m
  OBVIOUS
<1> HIDE DEF Good
<1>4. /\ Sections(m) = Picked(log, {k \in DOMAIN log : log[k] \in Good})
      /\ Sections(m)' = Picked(log', {k \in DOMAIN log' : log'[k] \in Good})
  BY <1>2, Zenon DEF Sections, LockedIn, DroppingIn
<1>5. Picked(log', {k \in DOMAIN log' : log'[k] \in Good}) =
        IF rec \in Good THEN Append(Picked(log, {k \in DOMAIN log : log[k] \in Good}), rec)
                        ELSE Picked(log, {k \in DOMAIN log : log[k] \in Good})
  BY <1>1, PickedMembers, SMTT(30)
<1>6. Sections(m) \in Seq(Records)
  BY <1>1, PickedType DEF Sections
<1>7. QED
  BY <1>3, <1>4, <1>5, <1>6, Zenon

LEMMA AccessingGrows ==
    ASSUME TypeOK, NEW rec \in Records, log' = Append(log, rec), NEW c
    PROVE  /\ Accessing(c) \in Seq(Records)
           /\ Accessing(c)' = IF rec.hook \in MemHooks /\ rec.on = c
                                THEN Append(Accessing(c), rec) ELSE Accessing(c)
<1> DEFINE Good == {r \in Records : r.hook \in MemHooks /\ r.on = c}
<1>1. log \in Seq(Records) /\ log' \in Seq(Records)
  BY AppendFacts DEF TypeOK
<1>2. /\ {k \in DOMAIN log : log[k].hook \in MemHooks /\ log[k].on = c}
           = {k \in DOMAIN log : log[k] \in Good}
      /\ {k \in DOMAIN log' : log'[k].hook \in MemHooks /\ log'[k].on = c}
           = {k \in DOMAIN log' : log'[k] \in Good}
  BY <1>1
<1>3. rec \in Good <=> rec.hook \in MemHooks /\ rec.on = c
  OBVIOUS
<1> HIDE DEF Good
<1>4. /\ Accessing(c) = Picked(log, {k \in DOMAIN log : log[k] \in Good})
      /\ Accessing(c)' = Picked(log', {k \in DOMAIN log' : log'[k] \in Good})
  BY <1>2, Zenon DEF Accessing
<1>5. Picked(log', {k \in DOMAIN log' : log'[k] \in Good}) =
        IF rec \in Good THEN Append(Picked(log, {k \in DOMAIN log : log[k] \in Good}), rec)
                        ELSE Picked(log, {k \in DOMAIN log : log[k] \in Good})
  BY <1>1, PickedMembers, SMTT(30)
<1>6. Accessing(c) \in Seq(Records)
  BY <1>1, PickedType DEF Accessing
<1>7. QED
  BY <1>3, <1>4, <1>5, <1>6, Zenon

(* What one more acquisition adds to the ones the log can name.             *)
ReportedOf(all) == Picked(all, {k \in DOMAIN all : Reported(all[k])})

LEMMA ReportedGrows ==
    ASSUME NEW old \in Seq(Acquisitions), NEW acquisition \in Acquisitions,
           NEW new, new = Append(old, acquisition)
    PROVE  ReportedOf(new) = IF Reported(acquisition) THEN Append(ReportedOf(old), acquisition)
                                                      ELSE ReportedOf(old)
<1> DEFINE Good == {a \in Acquisitions : Reported(a)}
<1>1. new \in Seq(Acquisitions)
  BY AppendFacts
<1>2. /\ {k \in DOMAIN old : Reported(old[k])} = {k \in DOMAIN old : old[k] \in Good}
      /\ {k \in DOMAIN new : Reported(new[k])} = {k \in DOMAIN new : new[k] \in Good}
  BY <1>1
<1>3. acquisition \in Good <=> Reported(acquisition)
  OBVIOUS
<1> HIDE DEF Good
<1>4. Picked(new, {k \in DOMAIN new : new[k] \in Good}) =
        IF acquisition \in Good THEN Append(Picked(old, {k \in DOMAIN old : old[k] \in Good}), acquisition)
                                ELSE Picked(old, {k \in DOMAIN old : old[k] \in Good})
  BY PickedMembers, SMTT(30)
<1>5. /\ ReportedOf(old) = Picked(old, {k \in DOMAIN old : old[k] \in Good})
      /\ ReportedOf(new) = Picked(new, {k \in DOMAIN new : new[k] \in Good})
  BY <1>2, Zenon DEF ReportedOf
<1>6. QED
  BY <1>3, <1>4, <1>5, Zenon

LEMMA AcquiringGrows ==
    ASSUME NEW m, acquired[m] \in Seq(Acquisitions), NEW acquisition \in Acquisitions,
           acquired'[m] = Append(acquired[m], acquisition)
    PROVE  /\ Acquiring(m) \in Seq(Acquisitions)
           /\ Acquiring(m)' = IF Reported(acquisition) THEN Append(Acquiring(m), acquisition)
                                                       ELSE Acquiring(m)
<1>1. Acquiring(m) \in Seq(Acquisitions)
  BY PickedType DEF Acquiring
<1>2. Acquiring(m) = ReportedOf(acquired[m]) /\ Acquiring(m)' = ReportedOf(acquired'[m])
  BY Zenon DEF Acquiring, ReportedOf, Reported
<1>3. QED
  BY <1>1, <1>2, ReportedGrows, Zenon

LEMMA OwnersGrow ==
    ASSUME NEW S, NEW recs \in Seq(S), NEW rec \in S
    PROVE  Owners(Append(recs, rec)) = Append(Owners(recs), rec.by)
BY DEF Owners

LEMMA ToldGrows ==
    ASSUME NEW recs \in Seq(Records), NEW rec \in Records
    PROVE  Told(Append(recs, rec)) = Append(Told(recs), <<rec.by, rec.hook>>)
<1> DEFINE S == {<<r.by, r.hook>> : r \in Records}
           e == <<rec.by, rec.hook>>
           new == Append(recs, rec)
<1>1. /\ new \in Seq(Records) /\ Len(new) = Len(recs) + 1 /\ new[Len(recs) + 1] = rec
      /\ \A k \in 1..Len(recs) : new[k] = recs[k] /\ recs[k] \in Records
      /\ Len(recs) \in Nat /\ DOMAIN recs = 1..Len(recs) /\ DOMAIN new = 1..Len(recs) + 1
  BY AppendFacts
<1>2. e \in S /\ \A k \in 1..Len(recs) : <<recs[k].by, recs[k].hook>> \in S
  BY <1>1
<1>3. Told(recs) = [k \in 1..Len(recs) |-> <<recs[k].by, recs[k].hook>>]
  BY <1>1 DEF Told
<1> HIDE DEF S, e, new
<1>4. Told(recs) \in Seq(S) /\ Len(Told(recs)) = Len(recs)
  BY <1>1, <1>2, <1>3
<1>5. Append(Told(recs), e) = [k \in 1..Len(recs) + 1 |-> IF k = Len(recs) + 1 THEN e ELSE Told(recs)[k]]
  BY <1>2, <1>4, AppendAsFunction
<1>6. Told(new) = [k \in 1..Len(recs) + 1 |-> <<new[k].by, new[k].hook>>]
  BY <1>1 DEF Told
<1>7. \A k \in 1..Len(recs) + 1 :
        <<new[k].by, new[k].hook>> = IF k = Len(recs) + 1 THEN e ELSE Told(recs)[k]
  BY <1>1, <1>3 DEF e
<1>8. QED
  BY <1>5, <1>6, <1>7, Zenon DEF new, e

(* A log left alone tells what it told.                                     *)
LEMMA LogKept ==
    ASSUME log' = log, NEW m
    PROVE  UNCHANGED <<Locking(m), Sections(m), Accessing(m)>>
BY DEF Locking, Sections, Accessing, LockedIn, DroppingIn

(* The head of a record tells nothing of these.                             *)
LEMMA HeadTellsNothing ==
    ASSUME TypeOK, LockDiscipline, NEW t \in Threads, PrintHead(t), NEW m
    PROVE  UNCHANGED <<Locking(m), Sections(m), Accessing(m)>>
<1> DEFINE rec == Record(t, "head")
<1>1. log' = Append(log, rec) /\ pending[t] # <<>> /\ Hook(t) \in CallHooks
  BY DEF PrintHead, InHook, LockDiscipline, HookPlace
<1>2. rec \in Records
  BY <1>1, RecordType
<1>3. ~LockedIn(rec) /\ ~DroppingIn(rec) /\ rec.hook \notin MemHooks
  BY <1>1 DEF Record, LockedIn, DroppingIn, CallHooks, MemHooks
<1> HIDE DEF rec
<1>4. QED
  BY <1>1, <1>2, <1>3, LockingGrows, SectionsGrow, AccessingGrows

-----------------------------------------------------------------------------
(* The acquisitions the log tells.                                          *)

AfterLockHooks == {"lock_after", "try_lock_after"}

(* The thread has still to print the record of the mutex it acquired.       *)
Untold(t, m) ==
    /\ life[t] = "running" /\ pending[t] # <<>> /\ Hook(t) \in AfterLockHooks
    /\ Hook(t) = "lock_after" \/ m \notin spoiled
    /\ doing[t].on = m /\ at[t] # "unlock"

(* The threads the log should name.                                         *)
ToName(m) == Owners(Acquiring(m))

(* Only an owner that has still to tell it, or never will, is missing.      *)
LockTold(m) ==
    LET told == Owners(Locking(m)) IN
    /\ owner[m] \in Threads /\ Untold(owner[m], m) => ToName(m) = Append(told, owner[m])
    /\ ~(owner[m] \in Threads /\ Untold(owner[m], m)) /\ m \notin leaked => ToName(m) = told
    /\ m \in leaked => ToName(m) \in {told, Append(told, owner[m])}

LocksTold == \A m \in Mutexes : LockTold(m)

HasLockHooks == {"lock_after", "try_lock_after"} \subseteq Hooks

(* Only the after hooks of a lock are about it.                             *)
LEMMA UntoldAfter ==
    ASSUME TypeOK, LockDiscipline, PendingShape, NEW t \in Threads, NEW m, Untold(t, m)
    PROVE  stage[t] = "after" /\ doing[t].kind \in {"lock", "try_lock"}
<1>1. pending[t] # <<>> /\ Hook(t) \in {"lock_after", "try_lock_after"}
  BY DEF Untold, AfterLockHooks
<1>2. stage[t] = "after"
  BY <1>1, HookStages, HookBefore
<1>3. QED
  BY <1>1, <1>2, HookAfter

(* A quiet step leaves what other threads have still to tell.               *)
LEMMA QuietUntold ==
    ASSUME TypeOK, LockDiscipline, NEW t \in Threads, QuietStep(t),
           NEW u \in Threads, u # t, NEW m \in Mutexes, owner[m] = u
    PROVE  Untold(u, m)' <=> Untold(u, m)
<1>1. /\ pending'[u] = pending[u] /\ stage'[u] = stage[u] /\ doing'[u] = doing[u]
      /\ at' = at /\ (life'[u] = life[u] \/ Spawns(t, u))
      /\ m \in spoiled' <=> m \in spoiled
  BY QuietOthers, QuietOutside, QuietSpoiled
<1>2. CASE life'[u] = life[u]
  BY <1>1, <1>2 DEF Untold, Hook
<1>3. CASE Spawns(t, u)
  BY <1>1, <1>3 DEF Untold, Spawns, LockDiscipline, HookPlace, SpawnsUnborn
<1>4. QED
  BY <1>1, <1>2, <1>3

LEMMA QuietToldAll ==
    ASSUME TypeOK, LockDiscipline, NEW t \in Threads, QuietStep(t), NEW m
    PROVE  ~Untold(t, m)
BY DEF Untold, QuietStep, BeginOp, Begin, DoOp, EndOp, UserPrintFails, DieUnwound,
       LockDiscipline, HookPlace

(* What a quiet step can do to a mutex.                                     *)
Acquires(t, m) ==
    /\ owner[m] = None /\ owner'[m] = t
    /\ Untold(t, m)' \/ m \in spoiled
    /\ ToName(m)' = IF Untold(t, m)' THEN Append(ToName(m), t) ELSE ToName(m)
Releases(t, m) ==
    /\ owner[m] = t /\ owner'[m] = None /\ acquired'[m] = acquired[m]
    /\ stage[t] = "before" /\ pending[t] = <<>> /\ doing[t] = Op("drop", m)
LeavesAlone(t, m) ==
    /\ owner'[m] = owner[m] /\ acquired'[m] = acquired[m]
    /\ owner[m] = t => ~Untold(t, m)'

LEMMA NamesKept ==
    ASSUME NEW m, acquired'[m] = acquired[m]
    PROVE  ToName(m)' = ToName(m)
BY DEF ToName, Owners, Acquiring, Reported

(* The hook after an operation that took the mutex has still to tell it,    *)
(* unless try_lock found the mutex poisoned.                                *)
LEMMA TakenUntold ==
    ASSUME TypeOK, LockDiscipline, Places, HasLockHooks, NEW t \in Threads, DoOp(t),
           doing[t].kind \in {"lock", "try_lock"}, NEW m, doing[t].on = m
    PROVE  Untold(t, m)' <=> doing[t].kind = "lock" \/ m \notin spoiled
<1>1. /\ pending'[t] = AfterOp(doing[t]) /\ doing' = doing /\ at' = at /\ Alive(t)
      /\ at[t] = "out" /\ stage[t] = "before"
  BY QuietOutside, Zenon DEF DoOp, TypeOK, QuietStep
<1>2. life' = life /\ spoiled' = spoiled
  BY DEF DoOp, Perform, DoNothing, DoSpawn, DoReturn, DoLock, DoTryLock, DoDrop,
         DoAccess, DoPrint, DoLockStdout, DoUnlockStdout, DoPanic, Accesses
<1>3. life[t] = "running"
  BY <1>1 DEF Alive, Places, CleanupOnly, Cleanup
<1>4. pending'[t] = IF doing[t].kind = "lock" THEN <<"lock_after">> ELSE <<"try_lock_after">>
  BY <1>1, AfterOpValue DEF HasLockHooks
<1>5. /\ pending'[t] # <<>>
      /\ Head(pending'[t]) = IF doing[t].kind = "lock" THEN "lock_after" ELSE "try_lock_after"
  BY <1>4, Singletons, Zenon
<1>6. QED
  BY <1>1, <1>2, <1>3, <1>5 DEF Untold, AfterLockHooks, Hook

(* A mutex that is taken is named where its after hook reports it.          *)
LEMMA TakenNamed ==
    ASSUME TypeOK, LockDiscipline, Places, HasLockHooks, NEW t \in Threads, DoOp(t),
           doing[t].kind \in {"lock", "try_lock"}, NEW m \in Mutexes, doing[t].on = m,
           Take(t, m)
    PROVE  Acquires(t, m)
<1> DEFINE acquisition == [by |-> t, how |-> doing[t].kind, poisoned |-> m \in spoiled]
<1>1. /\ acquisition \in Acquisitions /\ acquisition.by = t
      /\ Reported(acquisition) <=> doing[t].kind = "lock" \/ m \notin spoiled
  <2>1. /\ acquisition.how = doing[t].kind /\ acquisition.by = t
        /\ acquisition.poisoned = (m \in spoiled)
    BY Zenon
  <2>2. (m \in spoiled) \in BOOLEAN
    OBVIOUS
  <2>3. acquisition \in Acquisitions
    BY <2>2 DEF Acquisitions
  <2>4. QED
    BY <2>1, <2>3, Zenon DEF Reported
<1>2. /\ owner[m] = None /\ owner'[m] = t /\ acquired[m] \in Seq(Acquisitions)
      /\ acquired'[m] = Append(acquired[m], acquisition)
  BY DEF Take, TypeOK
<1> HIDE DEF acquisition
<1>3. /\ Acquiring(m) \in Seq(Acquisitions)
      /\ Acquiring(m)' = IF Reported(acquisition) THEN Append(Acquiring(m), acquisition)
                                                  ELSE Acquiring(m)
  BY <1>1, <1>2, AcquiringGrows, Zenon
<1>4. Owners(Append(Acquiring(m), acquisition)) = Append(Owners(Acquiring(m)), t)
  BY <1>1, <1>3, OwnersGrow
<1>5. ToName(m)' = IF Reported(acquisition) THEN Append(ToName(m), t) ELSE ToName(m)
  <2>1. ToName(m)' = Owners(Acquiring(m)')
    BY DEF ToName, Owners
  <2>2. QED
    BY <1>3, <1>4, <2>1 DEF ToName
<1>6. QED
  BY <1>1, <1>2, <1>5, TakenUntold DEF Acquires

LEMMA OperationOnMutex ==
    ASSUME TypeOK, LockDiscipline, Places, HasLockHooks, NEW t \in Threads, DoOp(t),
           NEW m \in Mutexes
    PROVE  Acquires(t, m) \/ Releases(t, m) \/ LeavesAlone(t, m)
<1> USE DEF TypeOK
<1>0. /\ doing[t] \in Ops /\ stage[t] = "before" /\ pending[t] = <<>>
      /\ doing' = doing /\ stage'[t] = "after" /\ pending'[t] = AfterOp(doing[t]) /\ Perform(t)
  BY DEF DoOp
<1>1. ASSUME NEW n \in Mutexes, Take(t, n), doing[t].kind \in {"lock", "try_lock"},
             doing[t].on = n
      PROVE  Acquires(t, m) \/ LeavesAlone(t, m)
  <2>1. CASE m = n
    BY <1>1, <2>1, TakenNamed
  <2>2. CASE m # n
    <3>1. owner'[m] = owner[m] /\ acquired'[m] = acquired[m]
      BY <1>1, <2>2 DEF Take
    <3>2. ~Untold(t, m)'
      BY <1>0, <1>1, <2>2 DEF Untold
    <3>3. QED
      BY <3>1, <3>2 DEF LeavesAlone
  <2>3. QED
    BY <2>1, <2>2
<1>2. CASE DoLock(t)
  BY <1>0, <1>1, <1>2, OpTypes DEF DoLock
<1>3. CASE DoTryLock(t)
  <2>1. CASE Take(t, doing[t].on)
    BY <1>0, <1>1, <1>3, <2>1, OpTypes DEF DoTryLock
  <2>2. CASE UNCHANGED <<owner, acquired>>
    <3>1. owner[m] = t => doing[t].on # m
      BY <1>0, <1>3 DEF DoTryLock, Places, TriesUnowned
    <3>2. owner[m] = t => ~Untold(t, m)'
      BY <1>0, <3>1 DEF Untold
    <3>3. QED
      BY <2>2, <3>2 DEF LeavesAlone
  <2>3. QED
    BY <1>3, <2>1, <2>2 DEF DoTryLock
<1>4. CASE doing[t].kind \notin {"lock", "try_lock"}
  <2>1. ~Untold(t, m)'
    <3>1. pending'[t] \in {<<>>, <<"drop_after">>}
      BY <1>0, <1>4, AfterOpValue
    <3>2. QED
      BY <3>1, Singletons DEF Untold, Hook, AfterLockHooks
  <2>2. CASE DoDrop(t)
    <3>1. owner[doing[t].on] = t /\ doing[t].on \in Mutexes
      BY <1>0, <2>2, OpTypes DEF DoDrop, LockDiscipline, DropsOwned
    <3>2. doing[t] = Op("drop", doing[t].on)
      BY <1>0, <2>2 DEF DoDrop, Ops, Op, Idle, Accesses
    <3>3. CASE doing[t].on = m
      BY <1>0, <2>2, <3>1, <3>2, <3>3 DEF DoDrop, Releases
    <3>4. CASE doing[t].on # m
      BY <2>1, <2>2, <3>4 DEF DoDrop, LeavesAlone
    <3>5. QED
      BY <3>3, <3>4
  <2>3. CASE ~DoDrop(t)
    <3>1. owner' = owner /\ acquired' = acquired
      BY <1>0, <1>4, <2>3 DEF Perform, DoNothing, DoSpawn, DoReturn, DoLock, DoTryLock,
            DoAccess, DoPrint, DoLockStdout, DoUnlockStdout, DoPanic
    <3>2. QED
      BY <2>1, <3>1 DEF LeavesAlone
  <2>4. QED
    BY <2>2, <2>3
<1>5. QED
  BY <1>0, <1>2, <1>3, <1>4 DEF Perform, DoNothing, DoSpawn, DoReturn, DoDrop, DoAccess,
       DoPrint, DoLockStdout, DoUnlockStdout, DoPanic, Accesses

LEMMA QuietMutex ==
    ASSUME TypeOK, LockDiscipline, Places, HasLockHooks, NEW t \in Threads, QuietStep(t),
           NEW m \in Mutexes
    PROVE  Acquires(t, m) \/ Releases(t, m) \/ LeavesAlone(t, m)
<1> USE DEF TypeOK
<1>1. CASE DoOp(t)
  BY <1>1, OperationOnMutex, Zenon
<1>2. ASSUME NEW op \in Ops, BeginOp(t, op) PROVE LeavesAlone(t, m)
  <2>1. owner' = owner /\ acquired' = acquired /\ pending'[t] = BeforeOp(t, op)
    BY <1>2 DEF BeginOp, Begin
  <2>2. pending'[t] # <<>> => Head(pending'[t]) \notin AfterLockHooks
    BY <2>1, BeforeHook DEF AfterLockHooks
  <2>3. QED
    BY <2>1, <2>2 DEF LeavesAlone, Untold, Hook
<1>3. CASE EndOp(t) \/ UserPrintFails(t)
  BY <1>3 DEF EndOp, UserPrintFails, LeavesAlone, Untold, hookVars
<1>4. CASE DieUnwound(t)
  BY <1>4 DEF DieUnwound, LeavesAlone, Untold, hookVars
<1>5. QED
  BY <1>1, <1>2, <1>3, <1>4 DEF QuietStep

LEMMA QuietLocks ==
    ASSUME TypeOK, LockDiscipline, Places, HasLockHooks, LocksTold,
           NEW t \in Threads, QuietStep(t)
    PROVE  LocksTold'
<1> USE DEF TypeOK
<1> SUFFICES ASSUME NEW m \in Mutexes PROVE LockTold(m)'
  BY DEF LocksTold
<1>1. log' = log /\ leaked' = leaked
  BY QuietOutside, QuietLeaked, Zenon
<1>2. Owners(Locking(m))' = Owners(Locking(m))
  BY <1>1, LogKept DEF Owners
<1>3. LockTold(m) /\ owner[m] \in Threads \cup {None} /\ None \notin Threads
  BY ProgramAssumption DEF LocksTold
<1>4. m \in leaked => ~Acquires(t, m) /\ ~Releases(t, m)
  <2>1. m \in leaked => owner[m] \in Threads
    BY Zenon DEF Places, LeakedHeld
  <2>2. Releases(t, m) => m \notin leaked
    <3>1. Op("drop", m).kind = "drop" /\ Op("drop", m).on = m
      BY DEF Op
    <3>2. QED
      BY <3>1 DEF Releases, Places, LeakedHeld
  <2>3. QED
    BY <1>3, <2>1, <2>2 DEF Acquires
<1>5. ~Untold(t, m)
  BY QuietToldAll
<1>6. CASE Acquires(t, m)
  BY <1>1, <1>2, <1>3, <1>4, <1>6 DEF LockTold, Acquires
<1>7. CASE Releases(t, m)
  BY <1>1, <1>2, <1>3, <1>4, <1>5, <1>7, NamesKept DEF LockTold, Releases
<1>8. CASE LeavesAlone(t, m)
  <2>1. \A u \in Threads : owner[m] = u => (Untold(u, m)' <=> Untold(u, m))
    BY <1>5, <1>8, QuietUntold, Zenon DEF LeavesAlone
  <2>2. owner'[m] = owner[m] /\ acquired'[m] = acquired[m]
    BY <1>8 DEF LeavesAlone
  <2>3. owner[m] \in Threads => (Untold(owner[m], m)' <=> Untold(owner[m], m))
    <3> SUFFICES ASSUME owner[m] \in Threads PROVE Untold(owner[m], m)' <=> Untold(owner[m], m)
      OBVIOUS
    <3>1. PICK u \in Threads : u = owner[m]
      OBVIOUS
    <3>2. Untold(u, m)' <=> Untold(u, m)
      BY <2>1, <3>1
    <3>3. QED
      BY <2>2, <3>1, <3>2 DEF Untold, Hook
  <2>4. QED
    BY <1>1, <1>2, <1>3, <2>2, <2>3, NamesKept, Zenon DEF LockTold
<1>9. QED
  BY <1>6, <1>7, <1>8, QuietMutex

(* The steps of a hook and what the threads have still to tell.             *)
LEMMA HookUntold ==
    ASSUME TypeOK, LockDiscipline, NEW t \in Threads, HookStep(t),
           NEW u \in Threads, u # t, NEW m
    PROVE  Untold(u, m)' <=> Untold(u, m)
<1>1. /\ doing'[u] = doing[u] /\ life'[u] = life[u] /\ pending'[u] = pending[u]
      /\ spoiled' = spoiled /\ at[u] = "out" /\ at'[u] = "out"
  BY HookFrame
<1>2. QED
  BY <1>1 DEF Untold, Hook

(* A hook that prints no record of its own mutex goes on owing it, unless   *)
(* its panic leaks the mutex.                                               *)
LEMMA SilentUntold ==
    ASSUME TypeOK, LockDiscipline, Places, NEW t \in Threads, HookStep(t), ~PrintBody(t),
           NEW m \in Mutexes
    PROVE  /\ Untold(t, m)' => Untold(t, m)
           /\ Untold(t, m) /\ owner[m] = t => Untold(t, m)' \/ m \in leaked'
           /\ m \in leaked' => m \in leaked \/ (owner[m] = t /\ ~Untold(t, m)')
           /\ m \in leaked => m \in leaked'
<1> USE DEF TypeOK
<1>0. pending[t] # <<>> /\ spoiled' = spoiled
  BY HookFrame
<1>1. CASE TakeMonitor(t) \/ PrintHead(t)
  <2>1. pending' = pending /\ life' = life /\ leaked' = leaked /\ doing' = doing
    BY <1>1 DEF TakeMonitor, PrintHead, userVars
  <2>2. at[t] # "unlock" /\ at'[t] # "unlock"
    BY <1>1 DEF TakeMonitor, PrintHead, InHook, Goto, FirstPrint
  <2>3. QED
    BY <1>0, <2>1, <2>2 DEF Untold, Hook
<1>2. CASE ReleaseMonitor(t)
  <2>1. /\ pending'[t] = Tail(pending[t]) /\ leaked' = leaked /\ at[t] = "unlock"
        /\ at'[t] = "out"
    BY <1>2 DEF ReleaseMonitor, InHook, Goto
  <2>2. ~Untold(t, m)
    BY <2>1 DEF Untold
  <2>3. CASE stage[t] = "after"
    BY <1>0, <2>1, <2>2, <2>3, HookAfter DEF Places, Untold
  <2>4. CASE stage[t] = "before"
    <3>1. Tail(pending[t]) # <<>> => Tail(pending[t]) = <<"mem_read">>
      <4>1. Tail(pending[t]) # <<>> => pending[t] \in {<<"mem_write", "mem_read">>, <<"mem_read">>}
        BY <1>0, <2>4, HookBefore, Zenon DEF Places
      <4>2. QED
        BY <4>1, UpdateHooks, Singletons, Zenon
    <3>2. ~Untold(t, m)'
      BY <2>1, <3>1, Singletons, ZenonT(60) DEF Untold, Hook, AfterLockHooks
    <3>3. QED
      BY <2>1, <2>2, <3>2
  <2>5. QED
    BY <1>0, <2>3, <2>4, HookStages
<1>3. CASE (FindPoisoned(t) \/ BodyFails(t)) /\ process' = "aborted"
  <2>1. UNCHANGED <<pending, life, leaked, doing>> /\ at[t] # "unlock" /\ at'[t] # "unlock"
    BY <1>3 DEF FindPoisoned, BodyFails, Panic, InHook, Alive, Goto
  <2>2. Untold(t, m)' <=> Untold(t, m)
    BY <1>0, <2>1 DEF Untold, Hook
  <2>3. QED
    BY <2>1, <2>2
<1>4. CASE (FindPoisoned(t) \/ BodyFails(t)) /\ process' # "aborted"
  <2>1. /\ life'[t] = "unwinding" /\ leaked' = leaked \cup LeakedBy(t) /\ at[t] # "unlock"
    BY <1>4 DEF FindPoisoned, BodyFails, Panic, InHook
  <2>2. ~Untold(t, m)'
    BY <2>1 DEF Untold
  <2>3. Untold(t, m) /\ owner[m] = t => m \in LeakedBy(t)
    BY DEF Untold, LeakedBy, Held, AfterLockHooks
  <2>4. m \in LeakedBy(t) => owner[m] = t
    BY DEF LeakedBy, Held
  <2>5. QED
    BY <2>1, <2>2, <2>3, <2>4
<1>5. QED
  BY <1>1, <1>2, <1>3, <1>4 DEF HookStep

LEMMA SilentLog ==
    ASSUME TypeOK, LockDiscipline, NEW t \in Threads, HookStep(t), ~PrintBody(t), NEW m
    PROVE  UNCHANGED <<Locking(m), Sections(m), Accessing(m)>>
<1>1. PrintHead(t) \/ log' = log
  BY DEF HookStep, TakeMonitor, ReleaseMonitor, FindPoisoned, BodyFails, Panic
<1>2. QED
  BY <1>1, HeadTellsNothing, LogKept

LEMMA SilentLocks ==
    ASSUME TypeOK, LockDiscipline, Places, LocksTold, NEW t \in Threads, HookStep(t),
           ~PrintBody(t)
    PROVE  LocksTold'
<1> USE DEF TypeOK
<1> SUFFICES ASSUME NEW m \in Mutexes PROVE LockTold(m)'
  BY DEF LocksTold
<1>1. Owners(Locking(m))' = Owners(Locking(m))
  BY SilentLog DEF Owners
<1>2. owner' = owner /\ ToName(m)' = ToName(m)
  <2>1. owner' = owner /\ acquired' = acquired
    BY DEF HookStep, TakeMonitor, PrintHead, ReleaseMonitor, FindPoisoned, BodyFails, Panic,
           userVars
  <2>2. QED
    BY <2>1, NamesKept
<1>3. LockTold(m) /\ owner[m] \in Threads \cup {None} /\ None \notin Threads
  BY ProgramAssumption DEF LocksTold
<1>4. CASE owner[m] # t
  <2>1. owner[m] \in Threads => (Untold(owner[m], m)' <=> Untold(owner[m], m))
    <3> SUFFICES ASSUME owner[m] \in Threads PROVE Untold(owner[m], m)' <=> Untold(owner[m], m)
      OBVIOUS
    <3>1. PICK u \in Threads : u = owner[m]
      OBVIOUS
    <3>2. Untold(u, m)' <=> Untold(u, m)
      BY <1>4, <3>1, HookUntold, Zenon
    <3>3. QED
      BY <1>2, <3>1, <3>2 DEF Untold, Hook
  <2>2. m \in leaked' <=> m \in leaked
    BY <1>4, SilentUntold
  <2>3. QED
    BY <1>1, <1>2, <1>3, <2>1, <2>2 DEF LockTold
<1>5. CASE owner[m] = t
  <2>1. /\ Untold(t, m)' => Untold(t, m)
        /\ Untold(t, m) => Untold(t, m)' \/ m \in leaked'
        /\ m \in leaked' => m \in leaked \/ ~Untold(t, m)'
        /\ m \in leaked => m \in leaked'
    BY <1>5, SilentUntold
  <2>2. Untold(owner[m], m)' <=> Untold(t, m)'
    BY <1>2, <1>5 DEF Untold, Hook
  <2>3. QED
    BY <1>1, <1>2, <1>3, <1>5, <2>1, <2>2, Zenon DEF LockTold
<1>6. QED
  BY <1>4, <1>5

(* The record a hook's body writes.                                         *)
LEMMA BodyRecord ==
    ASSUME TypeOK, LockDiscipline, NEW t \in Threads, PrintBody(t)
    PROVE  LET rec == Record(t, "body") IN
           /\ rec \in Records /\ log' = Append(log, rec)
           /\ rec.by = t /\ rec.hook = Hook(t) /\ rec.on = doing[t].on /\ rec.part = "body"
           /\ at[t] = "body" /\ at'[t] = "unlock"
           /\ pending[t] # <<>>
           /\ UNCHANGED <<userVars, stage, pending, leaked>>
<1>1. /\ pending[t] # <<>> /\ at[t] = "body" /\ at'[t] = "unlock"
      /\ log' = Append(log, Record(t, "body")) /\ UNCHANGED <<userVars, stage, pending, leaked>>
  BY DEF PrintBody, InHook, Goto, TypeOK
<1>2. Record(t, "body") \in Records
  BY <1>1, RecordType
<1>3. QED
  BY <1>1, <1>2 DEF Record

(* The body of an after hook tells the acquisition its thread owed.         *)
LEMMA BodyTells ==
    ASSUME TypeOK, LockDiscipline, Places, NEW t \in Threads, PrintBody(t), NEW m \in Mutexes
    PROVE  LockedIn(Record(t, "body")) /\ Record(t, "body").on = m <=> Untold(t, m) /\ owner[m] = t
<1>1. at[t] = "body" /\ pending[t] # <<>> /\ stage[t] \in {"before", "after"} /\ Alive(t)
  BY BodyRecord, HookStages DEF PrintBody, InHook
<1>2. /\ Hook(t) = "lock_after" => stage[t] = "after" /\ doing[t].kind = "lock"
      /\ Hook(t) = "try_lock_after" => doing[t].kind = "try_lock"
  BY <1>1, HookBefore, HookAfter DEF Places
<1>3. Hook(t) = "lock_after" => owner[doing[t].on] = t
  BY <1>2 DEF Places, LocksOwned
<1>4. Hook(t) \in AfterLockHooks => life[t] = "running"
  BY <1>1, <1>2 DEF Alive, Places, CleanupOnly, Cleanup, AfterLockHooks
<1>5. QED
  BY <1>1, <1>2, <1>3, <1>4 DEF LockedIn, Record, Untold, AfterLockHooks

LEMMA BodyLocks ==
    ASSUME TypeOK, LockDiscipline, Places, LocksTold, NEW t \in Threads, PrintBody(t)
    PROVE  LocksTold'
<1> USE DEF TypeOK
<1> SUFFICES ASSUME NEW m \in Mutexes PROVE LockTold(m)'
  BY DEF LocksTold
<1> DEFINE rec == Record(t, "body")
<1>1. /\ rec \in Records /\ log' = Append(log, rec) /\ rec.by = t
      /\ at'[t] = "unlock"
      /\ UNCHANGED <<owner, acquired, leaked, life>> /\ ToName(m)' = ToName(m)
  BY BodyRecord, NamesKept DEF userVars
<1>2. LockedIn(rec) /\ rec.on = m <=> Untold(t, m) /\ owner[m] = t
  BY BodyTells
<1>3. LockTold(m) /\ owner[m] \in Threads \cup {None} /\ None \notin Threads
  BY ProgramAssumption DEF LocksTold
<1>4. ~Untold(t, m)'
  BY <1>1 DEF Untold
<1>5. m \in leaked /\ owner[m] = t => ~Untold(t, m)
  BY DEF Places, LeakedHeld, Untold
<1> HIDE DEF rec
<1>6. /\ Locking(m) \in Seq(Records)
      /\ Locking(m)' = IF LockedIn(rec) /\ rec.on = m THEN Append(Locking(m), rec)
                                                      ELSE Locking(m)
  BY <1>1, LockingGrows, Zenon
<1>7. CASE Untold(t, m) /\ owner[m] = t
  <2>1. Locking(m)' = Append(Locking(m), rec)
    BY <1>2, <1>6, <1>7
  <2>2. Owners(Locking(m))' = Append(Owners(Locking(m)), t)
    <3>1. Owners(Locking(m))' = Owners(Append(Locking(m), rec))
      BY <2>1 DEF Owners
    <3>2. QED
      BY <1>1, <1>6, <3>1, OwnersGrow, Zenon
  <2>3. ~Untold(owner[m], m)'
    BY <1>1, <1>4, <1>7 DEF Untold, Hook
  <2>4. QED
    BY <1>1, <1>3, <1>5, <1>7, <2>2, <2>3 DEF LockTold
<1>8. CASE ~(Untold(t, m) /\ owner[m] = t)
  <2>1. Owners(Locking(m))' = Owners(Locking(m))
    BY <1>2, <1>6, <1>8 DEF Owners
  <2>2. owner[m] \in Threads => (Untold(owner[m], m)' <=> Untold(owner[m], m))
    <3> SUFFICES ASSUME owner[m] \in Threads PROVE Untold(owner[m], m)' <=> Untold(owner[m], m)
      OBVIOUS
    <3>1. PICK u \in Threads : u = owner[m]
      OBVIOUS
    <3>2. Untold(u, m)' <=> Untold(u, m)
      BY <1>4, <1>8, <3>1, HookUntold DEF HookStep
    <3>3. QED
      BY <1>1, <3>1, <3>2 DEF Untold, Hook
  <2>3. QED
    BY <1>1, <1>3, <2>1, <2>2, Zenon DEF LockTold
<1>9. QED
  BY <1>7, <1>8

LEMMA InitLocks == Init => LocksTold
<1> SUFFICES ASSUME Init, NEW m \in Mutexes PROVE LockTold(m)
  BY DEF LocksTold
<1>1. log = <<>> /\ owner[m] = None /\ acquired[m] = <<>> /\ leaked = {}
  BY DEF Init, UserInit
<1>2. Locking(m) = <<>> /\ Acquiring(m) = <<>>
  BY <1>1, PickedEmpty DEF Locking, Acquiring
<1>3. Owners(Locking(m)) = <<>> /\ ToName(m) = <<>>
  BY <1>2 DEF Owners, ToName
<1>4. QED
  BY <1>1, <1>3, ProgramAssumption DEF LockTold

(* Nothing else changes what a thread owes.                                 *)
LEMMA IdleLocks ==
    ASSUME LocksTold, StdoutBreaks \/ UNCHANGED vars
    PROVE  LocksTold'
<1>1. UNCHANGED <<life, pending, doing, at, owner, spoiled, acquired, leaked, log>>
  BY DEF StdoutBreaks, vars, userVars, hookVars
<1>2. ASSUME NEW m \in Mutexes PROVE LockTold(m)'
  <2>1. Owners(Locking(m))' = Owners(Locking(m))
    BY <1>1, LogKept DEF Owners
  <2>2. /\ Untold(owner[m], m)' <=> Untold(owner[m], m)
        /\ ToName(m)' = ToName(m)
    BY <1>1, NamesKept DEF Untold, Hook
  <2>3. QED
    BY <1>1, <2>1, <2>2 DEF LocksTold, LockTold
<1>3. QED
  BY <1>2 DEF LocksTold

LEMMA LocksKept ==
    ASSUME HasLockHooks
    PROVE  Spec => []LocksTold
<1>1. ASSUME TypeOK, LockDiscipline, Places, LocksTold, [Next]_vars PROVE LocksTold'
  <2>1. CASE \E t \in Threads : Step(t)
    <3>1. PICK t \in Threads : QuietStep(t) \/ HookStep(t)
      BY <2>1 DEF Step, QuietStep, HookStep
    <3>2. QED
      BY <1>1, <3>1, QuietLocks, SilentLocks, BodyLocks
  <2>2. QED
    BY <1>1, <2>1, IdleLocks DEF Next, Ended
<1>2. QED
  BY InitLocks, PlacesKept, DisciplineKept, TypeCorrect, <1>1, PTL DEF Spec

(* With the after hooks of lock and try_lock the log tells the true order   *)
(* in which every mutex was acquired, without the try_locks that found it   *)
(* poisoned (their ret.is_ok() is false) and with at most the last owner    *)
(* missing: for any number of threads and mutexes, any program, whichever   *)
(* thread or hook panics.  Each after hook runs before its thread can give  *)
(* the mutex away, and a hook that dies leaves it locked.                   *)
THEOREM OrderTold ==
    ASSUME {"lock_after", "try_lock_after"} \subseteq Hooks
    PROVE  Spec => []LockLogFaithful
<1>1. LocksTold => LockLogFaithful
  BY DEF LocksTold, LockTold, LockLogFaithful, ToName
<1>2. QED
  BY <1>1, LocksKept, PTL DEF HasLockHooks

-----------------------------------------------------------------------------
(* The critical sections the log tells.                                     *)

(* The thread has announced that it drops the mutex and not done it yet.    *)
DropTold(t, m) ==
    /\ stage[t] = "before" /\ doing[t] = Op("drop", m)
    /\ pending[t] = <<>> \/ at[t] = "unlock"

(* A mutex is open while its thread owns it and owes no record of having    *)
(* acquired it nor has told that it drops it.                               *)
Open(m) == owner[m] \in Threads /\ ~Untold(owner[m], m) /\ ~DropTold(owner[m], m)

(* The last record is an acquisition exactly while the mutex is open, but   *)
(* for a mutex that is leaked or was acquired poisoned.                     *)
Unclosed(ends) == ends # <<>> /\ LockedIn(ends[Len(ends)])
SectionTold(m) ==
    LET ends == Sections(m)
    IN  /\ Closed(ends)
        /\ Orphaned(ends) => m \in spoiled
        /\ ends # <<>> => LockedIn(ends[Len(ends)]) \/ DroppingIn(ends[Len(ends)])
        /\ Unclosed(ends) => Open(m) /\ owner[m] = ends[Len(ends)].by
        /\ Open(m) => Unclosed(ends) \/ m \in leaked \/ m \in spoiled

SectionsTold == \A m \in Mutexes : SectionTold(m)

HasDropHook == "drop_before" \in Hooks

(* What the records say changes with them only.                             *)
LEMMA EndsKept ==
    ASSUME NEW m, Sections(m)' = Sections(m)
    PROVE  LET ends == Sections(m) IN
           /\ Closed(ends)' <=> Closed(ends)
           /\ Orphaned(ends)' <=> Orphaned(ends)
           /\ Unclosed(ends)' <=> Unclosed(ends)
BY Zenon DEF Closed, Orphaned, Unclosed, LockedIn, DroppingIn

(* A section stays told while its records, its owner and its state stay.    *)
LEMMA SectionStays ==
    ASSUME NEW m \in Mutexes, SectionTold(m), Sections(m)' = Sections(m),
           m \in spoiled => m \in spoiled', m \in leaked => m \in leaked',
           Unclosed(Sections(m)) /\ Open(m) => owner'[m] = owner[m] /\ Open(m)',
           Open(m)' => Open(m) \/ m \in leaked' \/ m \in spoiled'
    PROVE  SectionTold(m)'
<1>1. /\ Closed(Sections(m))' <=> Closed(Sections(m))
      /\ Orphaned(Sections(m))' <=> Orphaned(Sections(m))
      /\ Unclosed(Sections(m))' <=> Unclosed(Sections(m))
  BY EndsKept
<1>2. /\ Closed(Sections(m)) /\ (Orphaned(Sections(m)) => m \in spoiled)
      /\ Sections(m) # <<>> => \/ LockedIn(Sections(m)[Len(Sections(m))])
                               \/ DroppingIn(Sections(m)[Len(Sections(m))])
      /\ Unclosed(Sections(m)) => Open(m) /\ owner[m] = Sections(m)[Len(Sections(m))].by
      /\ Open(m) => Unclosed(Sections(m)) \/ m \in leaked \/ m \in spoiled
  BY Zenon DEF SectionTold
<1>3. /\ Closed(Sections(m))' /\ (Orphaned(Sections(m))' => m \in spoiled')
      /\ Sections(m)' # <<>> => \/ LockedIn(Sections(m)'[Len(Sections(m)')])
                                \/ DroppingIn(Sections(m)'[Len(Sections(m)')])
  BY <1>1, <1>2
<1>4. Unclosed(Sections(m))' => Open(m)' /\ owner'[m] = Sections(m)'[Len(Sections(m)')].by
  BY <1>1, <1>2
<1>5. Open(m)' => Unclosed(Sections(m))' \/ m \in leaked' \/ m \in spoiled'
  BY <1>1, <1>2, Zenon
<1>6. QED
  BY <1>3, <1>4, <1>5, Zenon DEF SectionTold, LockedIn, DroppingIn

LEMMA QuietDropTold ==
    ASSUME TypeOK, LockDiscipline, NEW t \in Threads, QuietStep(t),
           NEW u \in Threads, u # t, NEW m
    PROVE  DropTold(u, m)' <=> DropTold(u, m)
<1>1. /\ pending'[u] = pending[u] /\ stage'[u] = stage[u] /\ doing'[u] = doing[u]
      /\ at' = at
  BY QuietOthers, QuietOutside
<1>2. QED
  BY <1>1 DEF DropTold, Op

(* The owner of a mutex gives it away only after it announced that.         *)
LEMMA QuietOwnDrop ==
    ASSUME TypeOK, LockDiscipline, HasDropHook, NEW t \in Threads, QuietStep(t),
           NEW m \in Mutexes, owner[m] = t
    PROVE  /\ owner'[m] = t => (DropTold(t, m)' <=> DropTold(t, m))
           /\ Releases(t, m) => DropTold(t, m)
<1> USE DEF TypeOK
<1>0. at' = at /\ at[t] = "out" /\ None \notin Threads
  BY QuietOutside, ProgramAssumption, Zenon
<1>1. Releases(t, m) => DropTold(t, m)
  BY DEF Releases, DropTold
<1>2. ASSUME NEW op \in Ops, BeginOp(t, op) PROVE ~DropTold(t, m) /\ ~DropTold(t, m)'
  <2>1. stage[t] = "idle" /\ doing'[t] = op /\ pending'[t] = BeforeOp(t, op)
    BY <1>2 DEF BeginOp, Begin
  <2>2. op.kind = "drop" => pending'[t] # <<>>
    BY <2>1, BeforeOpValue, Singletons DEF HasDropHook
  <2>3. QED
    BY <1>0, <2>1, <2>2 DEF DropTold, Op
<1>3. ASSUME DoOp(t), owner'[m] = t PROVE ~DropTold(t, m) /\ ~DropTold(t, m)'
  <2>1. stage'[t] = "after" /\ Perform(t)
    BY <1>3 DEF DoOp
  <2>2. ASSUME doing[t] = Op("drop", m) PROVE FALSE
    <3>1. doing[t].kind = "drop" /\ doing[t].on = m
      BY <2>2 DEF Op
    <3>2. DoDrop(t)
      BY <2>1, <3>1 DEF Perform, DoNothing, DoSpawn, DoReturn, DoLock, DoTryLock,
            DoAccess, DoPrint, DoLockStdout, DoUnlockStdout, DoPanic, Accesses
    <3>3. QED
      BY <1>0, <1>3, <3>1, <3>2 DEF DoDrop
  <2>3. QED
    BY <2>1, <2>2 DEF DropTold
<1>4. ASSUME EndOp(t) PROVE ~DropTold(t, m) /\ ~DropTold(t, m)'
  BY <1>4 DEF EndOp, DropTold
<1>5. ASSUME UserPrintFails(t) PROVE ~DropTold(t, m) /\ ~DropTold(t, m)'
  <2>1. doing[t].kind = "print" /\ stage'[t] = "idle"
    BY <1>5 DEF UserPrintFails, PrintFails
  <2>2. QED
    BY <2>1 DEF DropTold, Op
<1>6. ASSUME DieUnwound(t) PROVE ~DropTold(t, m) /\ ~DropTold(t, m)'
  <2>1. stage[t] = "idle" /\ stage' = stage
    BY <1>6 DEF DieUnwound, hookVars
  <2>2. QED
    BY <2>1 DEF DropTold
<1>7. QED
  BY <1>1, <1>2, <1>3, <1>4, <1>5, <1>6 DEF QuietStep

LEMMA QuietSections ==
    ASSUME TypeOK, LockDiscipline, Places, HasLockHooks, HasDropHook, SectionsTold,
           NEW t \in Threads, QuietStep(t)
    PROVE  SectionsTold'
<1> USE DEF TypeOK
<1> SUFFICES ASSUME NEW m \in Mutexes PROVE SectionTold(m)'
  BY DEF SectionsTold
<1>1. log' = log /\ leaked' = leaked
  BY QuietOutside, QuietLeaked, Zenon
<1>2. Sections(m)' = Sections(m) /\ (m \in spoiled => m \in spoiled')
  BY <1>1, LogKept, QuietSpoiled
<1>3. SectionTold(m) /\ owner[m] \in Threads \cup {None} /\ None \notin Threads
  BY ProgramAssumption DEF SectionsTold
<1>4. CASE Acquires(t, m)
  <2>1. ~Open(m)
    BY <1>3, <1>4 DEF Acquires, Open
  <2>2. Open(m)' => m \in spoiled
    <3>1. owner'[m] = t /\ (Untold(t, m)' \/ m \in spoiled)
      BY <1>4 DEF Acquires
    <3>2. Untold(t, m)' => Untold(owner[m], m)'
      BY <3>1 DEF Untold, Hook
    <3>3. QED
      BY <3>1, <3>2 DEF Open
  <2>3. QED
    BY <1>1, <1>2, <1>3, <2>1, <2>2, SectionStays
<1>5. CASE Releases(t, m)
  <2>1. ~Open(m)
    <3>1. DropTold(t, m) /\ owner[m] = t
      BY <1>5, QuietOwnDrop DEF Releases
    <3>2. QED
      BY <3>1 DEF Open
  <2>2. ~Open(m)'
    BY <1>3, <1>5 DEF Releases, Open
  <2>3. QED
    BY <1>1, <1>2, <1>3, <2>1, <2>2, SectionStays
<1>6. CASE LeavesAlone(t, m)
  <2>1. owner'[m] = owner[m]
    BY <1>6 DEF LeavesAlone
  <2>2. Open(m)' <=> Open(m)
    <3>1. CASE owner[m] = t
      <4>1. ~Untold(t, m) /\ ~Untold(t, m)' /\ (DropTold(t, m)' <=> DropTold(t, m))
        BY <1>6, <2>1, <3>1, QuietToldAll, QuietOwnDrop, Zenon DEF LeavesAlone
      <4>2. Open(m)' <=> ~DropTold(t, m)'
        BY <2>1, <3>1, <4>1 DEF Open, Untold, DropTold, Hook
      <4>3. QED
        BY <3>1, <4>1, <4>2 DEF Open
    <3>2. CASE owner[m] = None
      BY <1>3, <2>1, <3>2 DEF Open
    <3>3. ASSUME NEW u \in Threads, u # t, owner[m] = u PROVE Open(m)' <=> Open(m)
      <4>1. (Untold(u, m)' <=> Untold(u, m)) /\ (DropTold(u, m)' <=> DropTold(u, m))
        BY <3>3, QuietUntold, QuietDropTold, Zenon
      <4>2. Open(m)' <=> ~Untold(u, m)' /\ ~DropTold(u, m)'
        BY <2>1, <3>3 DEF Open, Untold, DropTold, Hook
      <4>3. QED
        BY <3>3, <4>1, <4>2 DEF Open
    <3>4. QED
      BY <1>3, <3>1, <3>2, <3>3
  <2>3. QED
    BY <1>1, <1>2, <1>3, <2>1, <2>2, SectionStays
<1>7. QED
  BY <1>4, <1>5, <1>6, QuietMutex

LEMMA HookDropTold ==
    ASSUME TypeOK, LockDiscipline, NEW t \in Threads, HookStep(t),
           NEW u \in Threads, u # t, NEW m
    PROVE  DropTold(u, m)' <=> DropTold(u, m)
<1>1. /\ doing'[u] = doing[u] /\ stage'[u] = stage[u] /\ pending'[u] = pending[u]
      /\ at[u] = "out" /\ at'[u] = "out"
  BY HookFrame
<1>2. QED
  BY <1>1 DEF DropTold, Op

LEMMA SilentDropTold ==
    ASSUME TypeOK, LockDiscipline, Places, NEW t \in Threads, HookStep(t), ~PrintBody(t), NEW m
    PROVE  DropTold(t, m)' <=> DropTold(t, m)
<1> USE DEF TypeOK
<1>0. pending[t] # <<>>
  BY HookFrame
<1>1. CASE TakeMonitor(t) \/ PrintHead(t)
  <2>1. /\ pending' = pending /\ at[t] # "unlock" /\ at'[t] # "unlock"
        /\ doing' = doing /\ stage' = stage
    BY <1>1 DEF TakeMonitor, PrintHead, InHook, Goto, FirstPrint, userVars
  <2>2. QED
    BY <1>0, <2>1 DEF DropTold
<1>2. CASE ReleaseMonitor(t)
  <2>1. /\ pending'[t] = Tail(pending[t]) /\ at[t] = "unlock"
        /\ doing' = doing /\ stage' = stage
    BY <1>2 DEF ReleaseMonitor, InHook, userVars
  <2>2. stage[t] = "before" /\ doing[t] = Op("drop", m) => Tail(pending[t]) = <<>>
    <3>1. stage[t] = "before" /\ doing[t].kind # "update" => Tail(pending[t]) = <<>>
      BY <1>0, HookBefore DEF Places
    <3>2. doing[t] = Op("drop", m) => doing[t].kind = "drop"
      BY DEF Op
    <3>3. QED
      BY <3>1, <3>2
  <2>3. QED
    BY <1>0, <2>1, <2>2, Zenon DEF DropTold, Op
<1>3. CASE FindPoisoned(t) \/ BodyFails(t)
  <2>1. /\ at[t] # "unlock" /\ at'[t] = "out"
        /\ UNCHANGED <<pending, doing, stage>> \/ stage'[t] = "idle"
    BY <1>3 DEF FindPoisoned, BodyFails, Panic, InHook, Goto
  <2>2. QED
    BY <1>0, <2>1 DEF DropTold
<1>4. QED
  BY <1>1, <1>2, <1>3 DEF HookStep

(* The steps of a hook leave a section of another thread as it is.          *)
LEMMA HookOtherSection ==
    ASSUME TypeOK, LockDiscipline, NEW t \in Threads, HookStep(t), NEW m \in Mutexes,
           owner[m] # t
    PROVE  Open(m)' <=> Open(m)
<1>1. owner' = owner /\ None \notin Threads /\ owner[m] \in Threads \cup {None}
  BY HookFrame, ProgramAssumption, Zenon DEF TypeOK
<1>2. CASE owner[m] = None
  BY <1>1, <1>2 DEF Open
<1>3. ASSUME NEW u \in Threads, owner[m] = u PROVE Open(m)' <=> Open(m)
  <2>1. (Untold(u, m)' <=> Untold(u, m)) /\ (DropTold(u, m)' <=> DropTold(u, m))
    BY <1>3, HookUntold, HookDropTold
  <2>2. Open(m)' <=> ~Untold(u, m)' /\ ~DropTold(u, m)'
    BY <1>1, <1>3 DEF Open, Untold, DropTold, Hook
  <2>3. QED
    BY <1>3, <2>1, <2>2 DEF Open
<1>4. QED
  BY <1>1, <1>2, <1>3

LEMMA SilentSections ==
    ASSUME TypeOK, LockDiscipline, Places, SectionsTold, NEW t \in Threads, HookStep(t),
           ~PrintBody(t)
    PROVE  SectionsTold'
<1> USE DEF TypeOK
<1> SUFFICES ASSUME NEW m \in Mutexes PROVE SectionTold(m)'
  BY DEF SectionsTold
<1>1. owner' = owner /\ spoiled' = spoiled
  BY HookFrame, Zenon
<1>2. Sections(m)' = Sections(m)
  BY SilentLog
<1>3. SectionTold(m)
  BY DEF SectionsTold
<1>4. m \in leaked => m \in leaked'
  BY SilentUntold
<1>5. CASE owner[m] # t
  <2>1. Open(m)' <=> Open(m)
    BY <1>5, HookOtherSection
  <2>2. QED
    BY <1>1, <1>2, <1>3, <1>4, <2>1, SectionStays
<1>6. CASE owner[m] = t
  <2>1. /\ DropTold(t, m)' <=> DropTold(t, m)
        /\ Untold(t, m)' => Untold(t, m)
        /\ Untold(t, m) => Untold(t, m)' \/ m \in leaked'
    BY <1>6, SilentDropTold, SilentUntold
  <2>2. Open(m) <=> ~Untold(t, m) /\ ~DropTold(t, m)
    BY <1>6 DEF Open
  <2>3. Open(m)' <=> ~Untold(t, m)' /\ ~DropTold(t, m)'
    BY <1>1, <1>6 DEF Open, Untold, DropTold, Hook
  <2>4. /\ Open(m) => Open(m)'
        /\ Open(m)' => Open(m) \/ m \in leaked'
    BY <2>1, <2>2, <2>3, Zenon
  <2>5. QED
    BY <1>1, <1>2, <1>3, <1>4, <2>4, SectionStays
<1>7. QED
  BY <1>5, <1>6

(* One more record.                                                         *)
LEMMA EndsGrow ==
    ASSUME NEW ends \in Seq(Records), NEW rec \in Records, NEW new,
           new = Append(ends, rec), Closed(ends),
           ends # <<>> /\ LockedIn(rec) => DroppingIn(ends[Len(ends)]),
           Unclosed(ends) => rec.by = ends[Len(ends)].by
    PROVE  /\ Closed(new)
           /\ Orphaned(new) => Orphaned(ends) \/ (DroppingIn(rec) /\ ~Unclosed(ends))
           /\ new # <<>> /\ new[Len(new)] = rec
<1>1. /\ new \in Seq(Records) /\ Len(new) = Len(ends) + 1 /\ new[Len(ends) + 1] = rec
      /\ \A k \in 1..Len(ends) : new[k] = ends[k]
      /\ Len(ends) \in Nat /\ DOMAIN ends = 1..Len(ends) /\ DOMAIN new = 1..Len(ends) + 1
  BY AppendFacts
<1>2. Len(ends) # 0 => ends # <<>> /\ Len(ends) \in 1..Len(ends)
  BY <1>1
<1>3. Unclosed(ends) <=> Len(ends) # 0 /\ LockedIn(ends[Len(ends)])
  BY <1>1, <1>2 DEF Unclosed
<1>4. ASSUME NEW k \in DOMAIN new \ {1}
      PROVE  /\ LockedIn(new[k]) => DroppingIn(new[k - 1])
             /\ LockedIn(new[k - 1]) => new[k].by = new[k - 1].by
  <2>1. CASE k \in 1..Len(ends)
    <3>1. k - 1 \in 1..Len(ends) /\ k \in DOMAIN ends \ {1}
      BY <1>1, <1>4, <2>1
    <3>2. new[k] = ends[k] /\ new[k - 1] = ends[k - 1]
      BY <1>1, <2>1, <3>1
    <3>3. /\ LockedIn(ends[k]) => DroppingIn(ends[k - 1])
          /\ LockedIn(ends[k - 1]) => ends[k].by = ends[k - 1].by
      BY <3>1, Zenon DEF Closed
    <3>4. QED
      BY <3>2, <3>3, Zenon
  <2>2. CASE k = Len(ends) + 1
    <3>1. Len(ends) # 0 /\ k - 1 = Len(ends)
      BY <1>1, <1>4, <2>2
    <3>2. new[k] = rec /\ new[k - 1] = ends[Len(ends)]
      BY <1>1, <1>2, <2>2, <3>1
    <3>3. QED
      BY <1>2, <1>3, <3>1, <3>2, Zenon
  <2>3. QED
    BY <1>1, <2>1, <2>2
<1>5. Closed(new)
  BY <1>4, Zenon DEF Closed
<1>6. ASSUME NEW k \in DOMAIN new, DroppingIn(new[k]), ~(k > 1 /\ LockedIn(new[k - 1]))
      PROVE  Orphaned(ends) \/ (DroppingIn(rec) /\ ~Unclosed(ends))
  <2>1. CASE k \in 1..Len(ends)
    <3>1. k > 1 => k - 1 \in 1..Len(ends)
      BY <1>1, <2>1
    <3>2. new[k] = ends[k] /\ (k > 1 => new[k - 1] = ends[k - 1]) /\ k \in DOMAIN ends
      BY <1>1, <2>1, <3>1
    <3>3. DroppingIn(ends[k]) /\ ~(k > 1 /\ LockedIn(ends[k - 1]))
      BY <1>6, <3>2, Zenon
    <3>4. QED
      BY <3>2, <3>3, Zenon DEF Orphaned
  <2>2. CASE k = Len(ends) + 1
    <3>1. Len(ends) # 0 => k > 1 /\ k - 1 = Len(ends)
      BY <1>1, <2>2
    <3>2. new[k] = rec /\ (Len(ends) # 0 => new[k - 1] = ends[Len(ends)])
      BY <1>1, <1>2, <2>2, <3>1
    <3>3. QED
      BY <1>3, <1>6, <3>1, <3>2, Zenon
  <2>3. QED
    BY <1>1, <2>1, <2>2
<1>7. Orphaned(new) => Orphaned(ends) \/ (DroppingIn(rec) /\ ~Unclosed(ends))
  <2> SUFFICES ASSUME Orphaned(new)
               PROVE  Orphaned(ends) \/ (DroppingIn(rec) /\ ~Unclosed(ends))
    OBVIOUS
  <2>1. PICK k \in DOMAIN new : DroppingIn(new[k]) /\ ~(k > 1 /\ LockedIn(new[k - 1]))
    BY Zenon DEF Orphaned
  <2>2. QED
    BY <1>6, <2>1, Zenon
<1>8. new # <<>> /\ new[Len(new)] = rec
  BY <1>1
<1>9. QED
  BY <1>5, <1>7, <1>8, Zenon

(* The body of a drop hook closes the section of the mutex's owner.         *)
LEMMA BodyCloses ==
    ASSUME TypeOK, LockDiscipline, Places, NEW t \in Threads, PrintBody(t), NEW m \in Mutexes
    PROVE  DroppingIn(Record(t, "body")) /\ Record(t, "body").on = m <=>
             stage[t] = "before" /\ doing[t] = Op("drop", m)
<1>1. /\ pending[t] # <<>> /\ doing[t] \in Ops /\ stage[t] \in {"before", "after"}
  BY BodyRecord, HookStages DEF TypeOK
<1>2. Hook(t) = "drop_before" <=> stage[t] = "before" /\ doing[t].kind = "drop"
  BY <1>1, HookBefore, HookAfter DEF Places
<1>3. doing[t].kind = "drop" => doing[t] = Op("drop", doing[t].on)
  BY <1>1 DEF Ops, Op, Idle, Accesses
<1>4. doing[t] = Op("drop", m) => doing[t].kind = "drop" /\ doing[t].on = m
  BY DEF Op
<1>5. QED
  BY <1>2, <1>3, <1>4 DEF DroppingIn, Record

LEMMA BodySections ==
    ASSUME TypeOK, LockDiscipline, Places, SectionsTold, NEW t \in Threads, PrintBody(t)
    PROVE  SectionsTold'
<1> USE DEF TypeOK
<1> SUFFICES ASSUME NEW m \in Mutexes PROVE SectionTold(m)'
  BY DEF SectionsTold
<1> DEFINE rec == Record(t, "body")
           ends == Sections(m)
<1>1. /\ rec \in Records /\ log' = Append(log, rec) /\ rec.by = t
      /\ at[t] = "body" /\ at'[t] = "unlock" /\ pending[t] # <<>>
      /\ UNCHANGED <<owner, spoiled, leaked, life, stage, doing, pending>>
  BY BodyRecord DEF userVars
<1>2. LockedIn(rec) /\ rec.on = m <=> Untold(t, m) /\ owner[m] = t
  BY BodyTells
<1>3. DroppingIn(rec) /\ rec.on = m <=> stage[t] = "before" /\ doing[t] = Op("drop", m)
  BY BodyCloses
<1>4. /\ Closed(ends) /\ (Orphaned(ends) => m \in spoiled)
      /\ ends # <<>> => LockedIn(ends[Len(ends)]) \/ DroppingIn(ends[Len(ends)])
      /\ Unclosed(ends) => Open(m) /\ owner[m] = ends[Len(ends)].by
      /\ Open(m) => Unclosed(ends) \/ m \in leaked \/ m \in spoiled
  BY Zenon DEF SectionsTold, SectionTold
<1>5. ~Untold(t, m)' /\ ~DropTold(t, m)
  BY <1>1 DEF Untold, DropTold
<1>6. DropTold(t, m)' <=> stage[t] = "before" /\ doing[t] = Op("drop", m)
  BY <1>1 DEF DropTold, Op
<1>7. stage[t] = "before" /\ doing[t] = Op("drop", m) => owner[m] = t /\ m \notin leaked
  <2>1. doing[t] = Op("drop", m) => doing[t].kind = "drop" /\ doing[t].on = m
    BY DEF Op
  <2>2. QED
    BY <2>1 DEF LockDiscipline, DropsOwned, Places, LeakedHeld
<1>8. owner[m] = t => /\ Open(m) <=> ~Untold(t, m)
                      /\ Open(m)' <=> ~DropTold(t, m)'
  <2> SUFFICES ASSUME owner[m] = t PROVE /\ Open(m) <=> ~Untold(t, m)
                                         /\ Open(m)' <=> ~DropTold(t, m)'
    OBVIOUS
  <2>1. Open(m) <=> ~Untold(t, m)
    BY <1>5 DEF Open
  <2>2. Open(m)' <=> ~Untold(t, m)' /\ ~DropTold(t, m)'
    BY <1>1 DEF Open, Untold, DropTold, Hook
  <2>3. QED
    BY <1>5, <2>1, <2>2
<1>9. /\ Sections(m) \in Seq(Records)
      /\ Sections(m)' = IF (LockedIn(rec) \/ DroppingIn(rec)) /\ rec.on = m
                          THEN Append(Sections(m), rec) ELSE Sections(m)
  BY <1>1, SectionsGrow, Zenon
<1>10. ~(LockedIn(rec) /\ DroppingIn(rec))
  BY DEF LockedIn, DroppingIn
<1> HIDE DEF rec, ends
<1>11. ASSUME LockedIn(rec) \/ DroppingIn(rec), rec.on = m, NEW new, new = Sections(m)',
              ends # <<>> /\ LockedIn(rec) => DroppingIn(ends[Len(ends)]),
              Unclosed(ends) => rec.by = ends[Len(ends)].by,
              DroppingIn(rec) /\ ~Unclosed(ends) => m \in spoiled,
              LockedIn(rec) => Open(m)' /\ owner[m] = t,
              Open(m)' => LockedIn(rec)
       PROVE  SectionTold(m)'
  <2>1. new = Append(ends, rec) /\ ends \in Seq(Records)
    BY <1>9, <1>11 DEF ends
  <2>2. /\ Closed(new)
        /\ Orphaned(new) => Orphaned(ends) \/ (DroppingIn(rec) /\ ~Unclosed(ends))
        /\ new # <<>> /\ new[Len(new)] = rec
    BY <1>1, <1>4, <1>11, <2>1, EndsGrow, Zenon
  <2>3. Orphaned(new) => m \in spoiled'
    BY <1>1, <1>4, <1>11, <2>2
  <2>4. Unclosed(new) <=> LockedIn(rec)
    BY <2>2, Zenon DEF Unclosed
  <2>5. Unclosed(new) => Open(m)' /\ owner'[m] = new[Len(new)].by
    BY <1>1, <1>11, <2>2, <2>4
  <2>6. Open(m)' => Unclosed(new)
    BY <1>11, <2>4
  <2>7. LockedIn(new[Len(new)]) \/ DroppingIn(new[Len(new)])
    BY <1>11, <2>2
  <2>8. /\ Closed(Sections(m))' <=> Closed(new)
        /\ Orphaned(Sections(m))' <=> Orphaned(new)
        /\ Unclosed(Sections(m))' <=> Unclosed(new)
    <3>0. new = Sections(m)'
      BY <1>11
    <3>1. Closed(Sections(m))' <=> Closed(new)
      BY <3>0, ZenonT(60) DEF Closed, LockedIn, DroppingIn
    <3>2. Orphaned(Sections(m))' <=> Orphaned(new)
      BY <1>11, Zenon DEF Orphaned, LockedIn, DroppingIn
    <3>3. Unclosed(Sections(m))' <=> Unclosed(new)
      BY <1>11, Zenon DEF Unclosed, LockedIn
    <3>4. QED
      BY <3>1, <3>2, <3>3, Zenon
  <2>9. QED
    BY <1>11, <2>2, <2>3, <2>5, <2>6, <2>7, <2>8, Zenon DEF SectionTold, LockedIn, DroppingIn
<1>12. CASE LockedIn(rec) /\ rec.on = m
  <2>1. owner[m] = t /\ ~Open(m) /\ Open(m)'
    BY <1>2, <1>3, <1>6, <1>8, <1>10, <1>12
  <2>2. ~Unclosed(ends) /\ (ends # <<>> => DroppingIn(ends[Len(ends)]))
    BY <1>4, <2>1 DEF Unclosed
  <2>3. QED
    BY <1>10, <1>11, <1>12, <2>1, <2>2
<1>13. CASE DroppingIn(rec) /\ rec.on = m
  <2>1. owner[m] = t /\ m \notin leaked
    BY <1>3, <1>7, <1>13
  <2>2. Open(m) /\ ~Open(m)'
    BY <1>2, <1>3, <1>6, <1>8, <1>10, <1>13, <2>1
  <2>3. Unclosed(ends) => rec.by = ends[Len(ends)].by
    BY <1>1, <1>4, <2>1
  <2>4. ~Unclosed(ends) => m \in spoiled
    BY <1>4, <2>1, <2>2
  <2>5. QED
    BY <1>10, <1>11, <1>13, <2>2, <2>3, <2>4
<1>14. CASE ~((LockedIn(rec) \/ DroppingIn(rec)) /\ rec.on = m)
  <2>1. Open(m)' <=> Open(m)
    <3>1. CASE owner[m] = t
      BY <1>2, <1>3, <1>6, <1>8, <1>14, <3>1
    <3>2. CASE owner[m] # t
      BY <3>2, HookOtherSection, Zenon DEF HookStep
    <3>3. QED
      BY <3>1, <3>2
  <2>2. Sections(m)' = Sections(m) /\ SectionTold(m)
    BY <1>9, <1>14, Zenon DEF SectionsTold
  <2>3. QED
    BY <1>1, <2>1, <2>2, SectionStays
<1>15. QED
  BY <1>12, <1>13, <1>14

LEMMA InitSections == Init => SectionsTold
<1> SUFFICES ASSUME Init, NEW m \in Mutexes PROVE SectionTold(m)
  BY DEF SectionsTold
<1>1. log = <<>> /\ owner[m] = None
  BY DEF Init, UserInit
<1>2. Sections(m) = <<>>
  BY <1>1, PickedEmpty DEF Sections
<1>3. Closed(<<>>) /\ ~Orphaned(<<>>) /\ ~Unclosed(<<>>)
  BY DEF Closed, Orphaned, Unclosed
<1>4. ~Open(m)
  BY <1>1, ProgramAssumption DEF Open
<1>5. QED
  BY <1>2, <1>3, <1>4 DEF SectionTold

LEMMA IdleSections ==
    ASSUME SectionsTold, StdoutBreaks \/ UNCHANGED vars
    PROVE  SectionsTold'
<1>1. UNCHANGED <<life, stage, pending, doing, at, owner, spoiled, leaked, log>>
  BY DEF StdoutBreaks, vars, userVars, hookVars
<1>2. ASSUME NEW m \in Mutexes PROVE SectionTold(m)'
  <2>1. Sections(m)' = Sections(m) /\ SectionTold(m)
    BY <1>1, LogKept DEF SectionsTold
  <2>2. Open(m)' <=> Open(m)
    BY <1>1 DEF Open, Untold, DropTold, Hook
  <2>3. QED
    BY <1>1, <2>1, <2>2, SectionStays
<1>3. QED
  BY <1>2 DEF SectionsTold

LEMMA SectionsKept ==
    ASSUME HasLockHooks, HasDropHook
    PROVE  Spec => []SectionsTold
<1>1. ASSUME TypeOK, LockDiscipline, Places, SectionsTold, [Next]_vars PROVE SectionsTold'
  <2>1. CASE \E t \in Threads : Step(t)
    <3>1. PICK t \in Threads : QuietStep(t) \/ HookStep(t)
      BY <2>1 DEF Step, QuietStep, HookStep
    <3>2. QED
      BY <1>1, <3>1, QuietSections, SilentSections, BodySections
  <2>2. QED
    BY <1>1, <2>1, IdleSections DEF Next, Ended
<1>2. QED
  BY InitSections, PlacesKept, DisciplineKept, TypeCorrect, <1>1, PTL DEF Spec

(* With the drop hook too the log yields the critical sections: an          *)
(* acquisition on record is closed by the drop of its own thread before any *)
(* other of that mutex follows it, and a drop lacks its acquisition only    *)
(* where a panicking thread poisoned the mutex, for try_lock reports the    *)
(* poisoned mutexes it acquires as failures.  (Guards that code without     *)
(* hooks drops, as mem::drop does, are not operations of UserProgram.)      *)
THEOREM SectionsDisjoint ==
    ASSUME {"lock_after", "try_lock_after", "drop_before"} \subseteq Hooks
    PROVE  Spec => []HoldIntervalsDisjoint
<1>1. SectionsTold => HoldIntervalsDisjoint
  BY DEF SectionsTold, SectionTold, HoldIntervalsDisjoint
<1>2. HasLockHooks /\ HasDropHook
  BY DEF HasLockHooks, HasDropHook
<1>3. QED
  BY <1>1, <1>2, SectionsKept, PTL

-----------------------------------------------------------------------------
(* The accesses the log tells.                                              *)

Announcing(t, c) ==
    stage[t] = "before" /\ doing[t].kind \in Accesses /\ doing[t].on = c

(* What the hooks have said so far of the access the thread is about to do: *)
(* hooks is what is still to run, where the place in the first of them.     *)
SaidWith(t, kind, hooks, where) ==
    LET all == ToldOf(<<t, kind>>)
        written == <<<<t, "mem_write">>>>
    IN  CASE hooks = <<>>             -> all
          [] hooks = <<"mem_write">>  -> IF where = "unlock" THEN all ELSE <<>>
          [] hooks = <<"mem_read">>   -> IF where = "unlock" THEN all
                                         ELSE IF kind = "update" THEN written ELSE <<>>
          [] OTHER                    -> IF where = "unlock" THEN written ELSE <<>>

Said(t) == SaidWith(t, doing[t].kind, pending[t], at[t])

AccessTold(c) ==
    LET told == Told(Accessing(c)) IN
    /\ \A t \in Threads : Announcing(t, c) => told = Done(c) \o Said(t)
    /\ (\A t \in Threads : ~Announcing(t, c)) => told = Done(c)

AccessesTold == \A c \in Cells : AccessTold(c)

HasMemHooks == MemHooks \subseteq Hooks

Sayings == Threads \X {"mem_read", "mem_write"}

LEMMA ToldOfValue ==
    ASSUME NEW t, NEW kind
    PROVE  /\ kind = "read" => ToldOf(<<t, kind>>) = <<<<t, "mem_read">>>>
           /\ kind = "write" => ToldOf(<<t, kind>>) = <<<<t, "mem_write">>>>
           /\ kind = "update" => ToldOf(<<t, kind>>) = <<<<t, "mem_write">>, <<t, "mem_read">>>>
<1>1. <<t, kind>>[1] = t /\ <<t, kind>>[2] = kind
  OBVIOUS
<1>2. QED
  BY <1>1 DEF ToldOf

LEMMA ToldOfType ==
    ASSUME NEW access \in Threads \X Accesses
    PROVE  ToldOf(access) \in Seq(Sayings)
<1>1. access[1] \in Threads /\ access[2] \in {"read", "write", "update"}
  BY DEF Accesses
<1>2. <<access[1], "mem_read">> \in Sayings /\ <<access[1], "mem_write">> \in Sayings
  BY <1>1 DEF Sayings
<1>3. \A x \in Sayings : <<x>> \in Seq(Sayings)
  OBVIOUS
<1>4. \A x, y \in Sayings : <<x, y>> \in Seq(Sayings)
  OBVIOUS
<1>5. /\ <<<<access[1], "mem_read">>>> \in Seq(Sayings)
      /\ <<<<access[1], "mem_write">>>> \in Seq(Sayings)
      /\ <<<<access[1], "mem_write">>, <<access[1], "mem_read">>>> \in Seq(Sayings)
  BY <1>2, <1>3, <1>4, Zenon
<1>6. QED
  BY <1>1, <1>5 DEF ToldOf

(* What the hooks say of all the accesses of a cell, when one more is done. *)
SaidOf(accesses) == [k \in DOMAIN accesses |-> ToldOf(accesses[k])]

LEMMA SaidOfType ==
    ASSUME NEW accesses \in Seq(Threads \X Accesses)
    PROVE  SaidOf(accesses) \in Seq(Seq(Sayings))
<1>1. \A k \in DOMAIN accesses : ToldOf(accesses[k]) \in Seq(Sayings)
  BY ToldOfType
<1>2. \E S : S = Seq(Sayings)
  OBVIOUS
<1>3. PICK S : S = Seq(Sayings)
  BY <1>2
<1>4. DOMAIN accesses = 1..Len(accesses) /\ Len(accesses) \in Nat
  OBVIOUS
<1>5. SaidOf(accesses) = [k \in 1..Len(accesses) |-> ToldOf(accesses[k])]
  BY <1>4 DEF SaidOf
<1>6. \A k \in 1..Len(accesses) : ToldOf(accesses[k]) \in S
  BY <1>1, <1>3, <1>4, Zenon
<1>7. SaidOf(accesses) \in Seq(S)
  BY <1>4, <1>5, <1>6
<1>8. QED
  BY <1>3, <1>7

LEMMA SaidOfGrows ==
    ASSUME NEW accesses \in Seq(Threads \X Accesses), NEW e \in Threads \X Accesses
    PROVE  SaidOf(Append(accesses, e)) = Append(SaidOf(accesses), ToldOf(e))
<1> DEFINE new == Append(accesses, e)
<1>1. /\ new \in Seq(Threads \X Accesses) /\ Len(new) = Len(accesses) + 1
      /\ new[Len(accesses) + 1] = e
      /\ \A k \in 1..Len(accesses) : new[k] = accesses[k]
      /\ Len(accesses) \in Nat
  BY AppendFacts
<1>2. DOMAIN accesses = 1..Len(accesses)
  OBVIOUS
<1> HIDE DEF new
<1>3. DOMAIN new = 1..Len(accesses) + 1
  BY <1>1
<1>4. PICK S : S = Seq(Sayings)
  OBVIOUS
<1>5. SaidOf(accesses) \in Seq(S) /\ ToldOf(e) \in S
  BY <1>4, SaidOfType, ToldOfType
<1>6. Len(SaidOf(accesses)) = Len(accesses)
  BY <1>1, <1>2 DEF SaidOf
<1>7. Append(SaidOf(accesses), ToldOf(e)) =
        [k \in 1..Len(accesses) + 1 |->
            IF k = Len(accesses) + 1 THEN ToldOf(e) ELSE SaidOf(accesses)[k]]
  BY <1>5, <1>6, AppendAsFunction
<1>8. SaidOf(new) = [k \in 1..Len(accesses) + 1 |-> ToldOf(new[k])]
  BY <1>3 DEF SaidOf
<1>9. \A k \in 1..Len(accesses) + 1 :
        ToldOf(new[k]) = IF k = Len(accesses) + 1 THEN ToldOf(e) ELSE SaidOf(accesses)[k]
  BY <1>1, <1>2 DEF SaidOf
<1>10. QED
  BY <1>7, <1>8, <1>9 DEF new

LEMMA DoneType ==
    ASSUME TypeOK, NEW c \in Cells
    PROVE  Done(c) \in Seq(Sayings) /\ Done(c) = FlattenSeq(SaidOf(accessed[c]))
<1>1. accessed[c] \in Seq(Threads \X Accesses)
  BY DEF TypeOK
<1>2. SaidOf(accessed[c]) \in Seq(Seq(Sayings))
  BY <1>1, SaidOfType
<1>3. FlattenSeq(SaidOf(accessed[c])) \in Seq(Sayings)
  BY <1>2, FlattenType
<1>4. QED
  BY <1>3 DEF Done, SaidOf

LEMMA DoneGrows ==
    ASSUME TypeOK, NEW c \in Cells, NEW e \in Threads \X Accesses,
           accessed'[c] = Append(accessed[c], e)
    PROVE  Done(c)' = Done(c) \o ToldOf(e)
<1>1. accessed[c] \in Seq(Threads \X Accesses)
  BY DEF TypeOK
<1>2. SaidOf(accessed[c]) \in Seq(Seq(Sayings)) /\ ToldOf(e) \in Seq(Sayings)
  BY <1>1, SaidOfType, ToldOfType
<1>3. Done(c)' = FlattenSeq(SaidOf(Append(accessed[c], e)))
  BY DEF Done, SaidOf, ToldOf
<1>4. Done(c)' = FlattenSeq(Append(SaidOf(accessed[c]), ToldOf(e)))
  BY <1>1, <1>3, SaidOfGrows, Zenon
<1>5. FlattenSeq(Append(SaidOf(accessed[c]), ToldOf(e))) =
        FlattenSeq(SaidOf(accessed[c])) \o ToldOf(e)
  BY <1>2, FlattenAppend
<1>6. QED
  BY <1>4, <1>5, DoneType, Zenon

LEMMA DoneKept ==
    ASSUME NEW c, accessed'[c] = accessed[c]
    PROVE  Done(c)' = Done(c)
BY DEF Done, ToldOf

(* The lists of hooks an access can have in front of it.                    *)
AccessHooks(kind, hooks) ==
    \/ kind = "read" /\ hooks = <<"mem_read">>
    \/ kind = "write" /\ hooks = <<"mem_write">>
    \/ kind = "update" /\ hooks \in {<<"mem_write", "mem_read">>, <<"mem_read">>}

LEMMA HookLists ==
    /\ <<"mem_write">> # <<>> /\ <<"mem_read">> # <<>> /\ <<"mem_write", "mem_read">> # <<>>
    /\ <<"mem_write">> # <<"mem_read">>
    /\ <<"mem_write", "mem_read">> # <<"mem_write">>
    /\ <<"mem_write", "mem_read">> # <<"mem_read">>
<1>1. Len(<<"mem_write", "mem_read">>) = 2 /\ Len(<<"mem_write">>) = 1 /\ Len(<<"mem_read">>) = 1
  OBVIOUS
<1>2. <<"mem_write">>[1] = "mem_write" /\ <<"mem_read">>[1] = "mem_read"
  OBVIOUS
<1>3. "mem_write" # "mem_read"
  OBVIOUS
<1>4. <<"mem_write">> # <<"mem_read">>
  BY <1>2, <1>3
<1>5. /\ <<"mem_write", "mem_read">> # <<"mem_write">>
      /\ <<"mem_write", "mem_read">> # <<"mem_read">>
  BY <1>1
<1>6. QED
  BY <1>4, <1>5, Singletons, UpdateHooks

LEMMA SaidValues ==
    ASSUME NEW t, NEW kind, NEW where
    PROVE  /\ SaidWith(t, kind, <<>>, where) = ToldOf(<<t, kind>>)
           /\ SaidWith(t, kind, <<"mem_write">>, where) =
                IF where = "unlock" THEN ToldOf(<<t, kind>>) ELSE <<>>
           /\ SaidWith(t, kind, <<"mem_read">>, where) =
                IF where = "unlock" THEN ToldOf(<<t, kind>>)
                ELSE IF kind = "update" THEN <<<<t, "mem_write">>>> ELSE <<>>
           /\ SaidWith(t, kind, <<"mem_write", "mem_read">>, where) =
                IF where = "unlock" THEN <<<<t, "mem_write">>>> ELSE <<>>
BY HookLists DEF SaidWith

(* Saying it is a step of its own; entering and leaving a hook says nothing.*)
LEMMA SaidSteps ==
    ASSUME NEW t \in Threads, NEW kind, NEW hooks, AccessHooks(kind, hooks)
    PROVE  /\ \A v, w \in {"out", "head", "body"} :
                 SaidWith(t, kind, hooks, v) = SaidWith(t, kind, hooks, w)
           /\ SaidWith(t, kind, Tail(hooks), "out") = SaidWith(t, kind, hooks, "unlock")
           /\ SaidWith(t, kind, hooks, "body") \in Seq(Sayings)
           /\ SaidWith(t, kind, hooks, "unlock") =
                Append(SaidWith(t, kind, hooks, "body"), <<t, Head(hooks)>>)
<1> DEFINE w == <<t, "mem_write">>
           r == <<t, "mem_read">>
<1>1. w \in Sayings /\ r \in Sayings
  BY DEF Sayings
<1>2. /\ <<>> \in Seq(Sayings) /\ <<w>> \in Seq(Sayings)
      /\ Append(<<>>, w) = <<w>> /\ Append(<<>>, r) = <<r>> /\ Append(<<w>>, r) = <<w, r>>
  BY <1>1, ShortAppends
<1>3. CASE kind = "read" /\ hooks = <<"mem_read">>
  <2>1. Tail(hooks) = <<>> /\ Head(hooks) = "mem_read"
    BY <1>3, Singletons
  <2>2. ToldOf(<<t, kind>>) = <<r>>
    BY <1>3, ToldOfValue
  <2>3. \A v \in {"out", "head", "body"} : SaidWith(t, kind, hooks, v) = <<>>
    BY <1>3, SaidValues, Zenon
  <2>4. SaidWith(t, kind, hooks, "unlock") = <<r>>
    BY <1>3, <2>2, SaidValues, Zenon
  <2>5. SaidWith(t, kind, Tail(hooks), "out") = <<r>>
    BY <1>3, <2>1, <2>2, SaidValues, Zenon
  <2>6. QED
    BY <1>2, <2>1, <2>3, <2>4, <2>5, Zenon
<1>4. CASE kind = "write" /\ hooks = <<"mem_write">>
  <2>1. Tail(hooks) = <<>> /\ Head(hooks) = "mem_write"
    BY <1>4, Singletons
  <2>2. ToldOf(<<t, kind>>) = <<w>>
    BY <1>4, ToldOfValue
  <2>3. \A v \in {"out", "head", "body"} : SaidWith(t, kind, hooks, v) = <<>>
    BY <1>4, SaidValues, Zenon
  <2>4. SaidWith(t, kind, hooks, "unlock") = <<w>>
    BY <1>4, <2>2, SaidValues
  <2>5. SaidWith(t, kind, Tail(hooks), "out") = <<w>>
    BY <1>4, <2>1, <2>2, SaidValues
  <2>6. QED
    BY <1>2, <2>1, <2>3, <2>4, <2>5, Zenon
<1>5. CASE kind = "update" /\ hooks = <<"mem_read">>
  <2>1. Tail(hooks) = <<>> /\ Head(hooks) = "mem_read"
    BY <1>5, Singletons
  <2>2. ToldOf(<<t, kind>>) = <<w, r>>
    BY <1>5, ToldOfValue
  <2>3. \A v \in {"out", "head", "body"} : SaidWith(t, kind, hooks, v) = <<w>>
    BY <1>5, SaidValues, Zenon
  <2>4. SaidWith(t, kind, hooks, "unlock") = <<w, r>>
    BY <1>5, <2>2, SaidValues, Zenon
  <2>5. SaidWith(t, kind, Tail(hooks), "out") = <<w, r>>
    BY <1>5, <2>1, <2>2, SaidValues, Zenon
  <2>6. QED
    BY <1>2, <2>1, <2>3, <2>4, <2>5, Zenon
<1>6. CASE kind = "update" /\ hooks = <<"mem_write", "mem_read">>
  <2>1. Tail(hooks) = <<"mem_read">> /\ Head(hooks) = "mem_write"
    BY <1>6, UpdateHooks
  <2>2. ToldOf(<<t, kind>>) = <<w, r>>
    BY <1>6, ToldOfValue
  <2>3. \A v \in {"out", "head", "body"} : SaidWith(t, kind, hooks, v) = <<>>
    BY <1>6, SaidValues, Zenon
  <2>4. SaidWith(t, kind, hooks, "unlock") = <<w>>
    BY <1>6, <2>2, SaidValues, Zenon
  <2>5. SaidWith(t, kind, Tail(hooks), "out") = <<w>>
    BY <1>6, <2>1, <2>2, SaidValues, ZenonT(60)
  <2>6. QED
    BY <1>2, <2>1, <2>3, <2>4, <2>5, Zenon
<1>7. QED
  BY <1>3, <1>4, <1>5, <1>6 DEF AccessHooks

LEMMA SaidNothing ==
    ASSUME NEW t, NEW kind, NEW hooks,
           \/ kind = "read" /\ hooks = <<"mem_read">>
           \/ kind = "write" /\ hooks = <<"mem_write">>
           \/ kind = "update" /\ hooks = <<"mem_write", "mem_read">>
    PROVE  SaidWith(t, kind, hooks, "out") = <<>>
<1>1. CASE kind = "read" /\ hooks = <<"mem_read">>
  BY <1>1, SaidValues, Zenon
<1>2. CASE kind = "write" /\ hooks = <<"mem_write">>
  BY <1>2, SaidValues, Zenon
<1>3. CASE kind = "update" /\ hooks = <<"mem_write", "mem_read">>
  BY <1>3, SaidValues, Zenon
<1>4. QED
  BY <1>1, <1>2, <1>3

LEMMA AnnouncedHooks ==
    ASSUME PendingShape, NEW t \in Threads, NEW c, Announcing(t, c), pending[t] # <<>>
    PROVE  AccessHooks(doing[t].kind, pending[t]) /\ Hook(t) \in MemHooks
BY HookBefore DEF Announcing, AccessHooks, Accesses

(* A cell's mutex lets one thread at a time be about to access it.          *)
LEMMA OneAnnounces ==
    ASSUME AccessesGuarded, NEW t \in Threads, NEW u \in Threads, NEW c,
           Announcing(t, c), Announcing(u, c)
    PROVE  t = u
BY DEF AccessesGuarded, Announcing

LEMMA AccessKept ==
    ASSUME NEW c \in Cells, AccessTold(c), accessed'[c] = accessed[c],
           Accessing(c)' = Accessing(c),
           \A u \in Threads : /\ Announcing(u, c)' <=> Announcing(u, c)
                              /\ Announcing(u, c) => Said(u)' = Said(u)
    PROVE  AccessTold(c)'
<1>1. Told(Accessing(c))' = Told(Accessing(c))
  BY DEF Told
<1>2. Done(c)' = Done(c)
  BY DoneKept
<1>3. QED
  BY <1>1, <1>2 DEF AccessTold

(* A quiet step leaves what other threads are about to access.              *)
LEMMA QuietSaid ==
    ASSUME TypeOK, LockDiscipline, NEW t \in Threads, QuietStep(t),
           NEW u \in Threads, u # t, NEW c
    PROVE  (Announcing(u, c)' <=> Announcing(u, c)) /\ Said(u)' = Said(u)
<1>1. /\ pending'[u] = pending[u] /\ stage'[u] = stage[u] /\ doing'[u] = doing[u]
      /\ at' = at
  BY QuietOthers, QuietOutside
<1>2. QED
  BY <1>1 DEF Announcing, Said, SaidWith, ToldOf, Accesses

(* An access begins: nothing has been said of it, and nobody else is about  *)
(* to access the cell.                                                      *)
LEMMA AccessBegins ==
    ASSUME TypeOK, LockDiscipline, Places, NEW c \in Cells, AccessTold(c),
           NEW t \in Threads, NEW op \in Ops, BeginOp(t, op), HasMemHooks,
           op.kind \in Accesses, op.on = c
    PROVE  AccessTold(c)'
<1> USE DEF TypeOK
<1>1. /\ doing'[t] = op /\ pending'[t] = BeforeOp(t, op) /\ stage[t] = "idle"
      /\ stage'[t] = "before" /\ at'[t] = "out" /\ accessed' = accessed /\ owner' = owner
      /\ log' = log /\ Allowed(t, op)
  BY QuietOutside, Zenon DEF BeginOp, Begin, QuietStep
<1>2. \A u \in Threads : ~Announcing(u, c)
  <2> SUFFICES ASSUME NEW u \in Threads, Announcing(u, c) PROVE FALSE
    OBVIOUS
  <2>1. u # t
    BY <1>1 DEF Announcing
  <2>2. owner[GuardOf[c]] = t
    BY <1>1, AllowedPlaces
  <2>3. owner[GuardOf[c]] = u
    BY DEF Announcing, Places, AccessesGuarded
  <2>4. QED
    BY <2>1, <2>2, <2>3
<1>3. Said(t)' = <<>>
  <2>1. /\ op.kind = "read" => pending'[t] = <<"mem_read">>
        /\ op.kind = "write" => pending'[t] = <<"mem_write">>
        /\ op.kind = "update" => pending'[t] = <<"mem_write", "mem_read">>
    BY <1>1, BeforeOpValue DEF InsertedMem, HasMemHooks
  <2>2. SaidWith(t, op.kind, pending'[t], "out") = <<>>
    BY <2>1, SaidNothing, Zenon DEF Accesses
  <2>3. Said(t)' = SaidWith(t, op.kind, pending'[t], "out")
    BY <1>1 DEF Said, SaidWith, ToldOf
  <2>4. QED
    BY <2>2, <2>3
<1>4. Told(Accessing(c))' = Told(Accessing(c)) /\ Done(c)' = Done(c)
  BY <1>1, LogKept, DoneKept DEF Told
<1>5. Told(Accessing(c)) = Done(c) /\ Done(c) \o <<>> = Done(c)
  <2>1. \A seq \in Seq(Sayings) : seq \o <<>> = seq
    OBVIOUS
  <2>2. QED
    BY <1>2, <2>1, DoneType DEF AccessTold
<1>6. \A u \in Threads \ {t} : ~Announcing(u, c)'
  BY <1>2, QuietSaid, Zenon DEF QuietStep
<1>7. Announcing(t, c)'
  BY <1>1 DEF Announcing
<1>8. QED
  BY <1>3, <1>4, <1>5, <1>6, <1>7, Zenon DEF AccessTold

(* An access is done once all of it has been said.                          *)
LEMMA AccessHappens ==
    ASSUME TypeOK, LockDiscipline, Places, NEW c \in Cells, AccessTold(c),
           NEW t \in Threads, DoOp(t), Announcing(t, c)
    PROVE  AccessTold(c)'
<1> USE DEF TypeOK
<1> DEFINE e == <<t, doing[t].kind>>
<1>1. /\ pending[t] = <<>> /\ stage'[t] = "after" /\ log' = log /\ Perform(t)
  BY DEF DoOp
<1>2. doing[t].kind \in Accesses /\ doing[t].on = c
  BY DEF Announcing
<1>3. DoAccess(t)
  BY <1>1, <1>2 DEF Perform, DoNothing, DoSpawn, DoReturn, DoLock, DoTryLock, DoDrop,
     DoPrint, DoLockStdout, DoUnlockStdout, DoPanic, Accesses
<1>4. accessed'[c] = Append(accessed[c], e)
  BY <1>2, <1>3, Zenon DEF DoAccess
<1>5. e \in Threads \X Accesses
  BY <1>2
<1>6. Done(c)' = Done(c) \o ToldOf(e)
  BY <1>4, <1>5, DoneGrows, Zenon
<1>7. Said(t) = ToldOf(e)
  <2>1. SaidWith(t, doing[t].kind, <<>>, at[t]) = ToldOf(<<t, doing[t].kind>>)
    BY SaidValues, Zenon
  <2>2. QED
    BY <1>1, <2>1 DEF Said
<1>8. Told(Accessing(c))' = Told(Accessing(c))
  BY <1>1, LogKept DEF Told
<1>9. Told(Accessing(c)) = Done(c) \o Said(t)
  BY Zenon DEF AccessTold
<1>10. ~Announcing(t, c)'
  BY <1>1 DEF Announcing
<1>11. \A u \in Threads \ {t} : ~Announcing(u, c)'
  <2>1. \A u \in Threads \ {t} : ~Announcing(u, c)
    BY OneAnnounces DEF Places
  <2>2. QED
    BY <2>1, QuietSaid, Zenon DEF QuietStep
<1> HIDE DEF e
<1>12. QED
  BY <1>6, <1>7, <1>8, <1>9, <1>10, <1>11 DEF AccessTold

LEMMA QuietAccesses ==
    ASSUME TypeOK, LockDiscipline, Places, HasMemHooks, AccessesTold,
           NEW t \in Threads, QuietStep(t)
    PROVE  AccessesTold'
<1> USE DEF TypeOK
<1> SUFFICES ASSUME NEW c \in Cells PROVE AccessTold(c)'
  BY DEF AccessesTold
<1>0. AccessTold(c) /\ log' = log /\ at' = at
  BY QuietOutside, Zenon DEF AccessesTold
<1>1. Accessing(c)' = Accessing(c)
  BY <1>0, LogKept
<1>2. ASSUME accessed'[c] = accessed[c], ~Announcing(t, c), ~Announcing(t, c)'
      PROVE  AccessTold(c)'
  <2>1. \A u \in Threads : /\ Announcing(u, c)' <=> Announcing(u, c)
                           /\ Announcing(u, c) => Said(u)' = Said(u)
    BY <1>2, QuietSaid, Zenon
  <2>2. QED
    BY <1>0, <1>1, <1>2, <2>1, AccessKept
<1>3. ASSUME NEW op \in Ops, BeginOp(t, op) PROVE AccessTold(c)'
  <2>1. CASE op.kind \in Accesses /\ op.on = c
    BY <1>0, <1>3, <2>1, AccessBegins
  <2>2. CASE ~(op.kind \in Accesses /\ op.on = c)
    BY <1>2, <1>3, <2>2 DEF BeginOp, Begin, Announcing
  <2>3. QED
    BY <2>1, <2>2
<1>4. CASE DoOp(t)
  <2>1. CASE Announcing(t, c)
    BY <1>0, <1>4, <2>1, AccessHappens
  <2>2. CASE ~Announcing(t, c)
    <3>1. stage[t] = "before" /\ stage'[t] = "after" /\ Perform(t)
      BY <1>4 DEF DoOp
    <3>2. accessed'[c] = accessed[c]
      BY <2>2, <3>1 DEF Announcing, Perform, DoNothing, DoSpawn, DoReturn, DoLock, DoTryLock,
            DoDrop, DoAccess, DoPrint, DoLockStdout, DoUnlockStdout, DoPanic
    <3>3. QED
      BY <1>2, <2>2, <3>1, <3>2 DEF Announcing
  <2>3. QED
    BY <2>1, <2>2
<1>5. CASE EndOp(t)
  BY <1>2, <1>5 DEF EndOp, Announcing
<1>6. CASE UserPrintFails(t)
  <2>1. doing[t].kind = "print" /\ stage'[t] = "idle" /\ accessed' = accessed
    BY <1>6 DEF UserPrintFails, PrintFails
  <2>2. QED
    BY <1>2, <2>1 DEF Announcing, Accesses
<1>7. CASE DieUnwound(t)
  <2>1. stage[t] = "idle" /\ stage' = stage /\ accessed' = accessed
    BY <1>7 DEF DieUnwound, hookVars
  <2>2. QED
    BY <1>2, <2>1 DEF Announcing
<1>8. QED
  BY <1>3, <1>4, <1>5, <1>6, <1>7 DEF QuietStep

(* The steps of a hook leave what other threads are about to access.        *)
LEMMA HookSaid ==
    ASSUME TypeOK, LockDiscipline, NEW t \in Threads, HookStep(t),
           NEW u \in Threads, u # t, NEW c
    PROVE  (Announcing(u, c)' <=> Announcing(u, c)) /\ Said(u)' = Said(u)
<1>1. /\ doing'[u] = doing[u] /\ stage'[u] = stage[u] /\ pending'[u] = pending[u]
      /\ at[u] = "out" /\ at'[u] = "out"
  BY HookFrame
<1>2. QED
  BY <1>1 DEF Announcing, Said, SaidWith, ToldOf, Accesses

(* A panic in a hook of an access does not unwind: it aborts.               *)
LEMMA AccessGoesOn ==
    ASSUME TypeOK, LockDiscipline, Places, NEW t \in Threads, HookStep(t), NEW c,
           Announcing(t, c)
    PROVE  UNCHANGED <<doing, stage, life>> /\ Hook(t) \in MemHooks
<1>1. pending[t] # <<>> /\ (UNCHANGED <<doing, stage, life>> \/ Unwinds(t))
  BY HookFrame
<1>2. Hook(t) \in MemHooks
  BY <1>1, AnnouncedHooks DEF Places
<1>3. life' = life
  BY <1>2 DEF HookStep, TakeMonitor, PrintHead, PrintBody, ReleaseMonitor, FindPoisoned,
         BodyFails, Panic, userVars
<1>4. ~Unwinds(t)
  BY <1>3 DEF Unwinds
<1>5. QED
  BY <1>1, <1>2, <1>4

(* A hook that does not print its body says nothing of the access.          *)
LEMMA SilentSaid ==
    ASSUME TypeOK, LockDiscipline, Places, NEW t \in Threads, HookStep(t), ~PrintBody(t),
           NEW c, Announcing(t, c)
    PROVE  Said(t)' = Said(t)
<1> USE DEF TypeOK
<1> DEFINE kind == doing[t].kind
<1>0. doing' = doing /\ life' = life /\ pending[t] # <<>>
  BY HookFrame, AccessGoesOn
<1>1. AccessHooks(kind, pending[t]) /\ Hook(t) \in MemHooks
  BY <1>0, AnnouncedHooks DEF Places
<1>2. Said(t)' = SaidWith(t, kind, pending'[t], at'[t])
  BY <1>0 DEF Said, SaidWith, ToldOf
<1>3. Said(t) = SaidWith(t, kind, pending[t], at[t])
  BY DEF Said
<1> HIDE DEF kind
<1>4. \A v, w \in {"out", "head", "body"} :
         SaidWith(t, kind, pending[t], v) = SaidWith(t, kind, pending[t], w)
  BY <1>1, SaidSteps, Zenon
<1>5. SaidWith(t, kind, Tail(pending[t]), "out") = SaidWith(t, kind, pending[t], "unlock")
  BY <1>1, SaidSteps
<1>6. CASE TakeMonitor(t) \/ PrintHead(t)
  <2>1. pending' = pending /\ at[t] \in {"out", "head"} /\ at'[t] \in {"head", "body"}
    BY <1>6 DEF TakeMonitor, PrintHead, InHook, Goto, FirstPrint
  <2>2. QED
    BY <1>2, <1>3, <1>4, <2>1
<1>7. CASE ReleaseMonitor(t)
  <2>1. pending'[t] = Tail(pending[t]) /\ at[t] = "unlock" /\ at'[t] = "out"
    BY <1>7 DEF ReleaseMonitor, InHook, Goto
  <2>2. QED
    BY <1>2, <1>3, <1>5, <2>1
<1>8. CASE FindPoisoned(t) \/ BodyFails(t)
  <2>1. pending' = pending /\ at[t] \in {"out", "body"} /\ at'[t] = "out"
    BY <1>1, <1>8 DEF FindPoisoned, BodyFails, Panic, InHook, Goto
  <2>2. QED
    BY <1>2, <1>3, <1>4, <2>1
<1>9. QED
  BY <1>6, <1>7, <1>8 DEF HookStep

LEMMA HookAnnouncing ==
    ASSUME TypeOK, LockDiscipline, Places, NEW t \in Threads, HookStep(t),
           NEW u \in Threads, NEW c
    PROVE  Announcing(u, c)' <=> Announcing(u, c)
<1>1. CASE u # t
  BY <1>1, HookSaid
<1>2. CASE u = t /\ Announcing(t, c)
  BY <1>2, AccessGoesOn DEF Announcing, Accesses
<1>3. CASE u = t /\ ~Announcing(t, c)
  <2>1. UNCHANGED <<doing, stage>> \/ stage'[t] = "idle"
    BY HookFrame DEF Unwinds, TypeOK
  <2>2. QED
    BY <1>3, <2>1 DEF Announcing, Accesses
<1>4. QED
  BY <1>1, <1>2, <1>3

LEMMA HookAccessed ==
    ASSUME NEW t \in Threads, HookStep(t)
    PROVE  accessed' = accessed
BY DEF HookStep, TakeMonitor, PrintHead, PrintBody, ReleaseMonitor, FindPoisoned,
       BodyFails, Panic, userVars

LEMMA SilentAccesses ==
    ASSUME TypeOK, LockDiscipline, Places, AccessesTold, NEW t \in Threads, HookStep(t),
           ~PrintBody(t)
    PROVE  AccessesTold'
<1> SUFFICES ASSUME NEW c \in Cells PROVE AccessTold(c)'
  BY DEF AccessesTold
<1>1. AccessTold(c) /\ accessed'[c] = accessed[c] /\ Accessing(c)' = Accessing(c)
  BY HookAccessed, SilentLog DEF AccessesTold
<1>2. \A u \in Threads : /\ Announcing(u, c)' <=> Announcing(u, c)
                         /\ Announcing(u, c) => Said(u)' = Said(u)
  BY HookSaid, SilentSaid, HookAnnouncing
<1>3. QED
  BY <1>1, <1>2, AccessKept

(* The body of a memory hook says its part of the access.                   *)
LEMMA BodySays ==
    ASSUME TypeOK, LockDiscipline, Places, NEW t \in Threads, PrintBody(t), NEW c,
           Announcing(t, c)
    PROVE  /\ Said(t) \in Seq(Sayings) /\ <<t, Hook(t)>> \in Sayings
           /\ Said(t)' = Append(Said(t), <<t, Hook(t)>>)
<1> DEFINE kind == doing[t].kind
<1>1. /\ at[t] = "body" /\ at'[t] = "unlock" /\ pending[t] # <<>>
      /\ doing' = doing /\ pending' = pending
  BY BodyRecord DEF userVars
<1>2. AccessHooks(kind, pending[t]) /\ Hook(t) \in MemHooks
  BY <1>1, AnnouncedHooks DEF Places
<1>3. Said(t)' = SaidWith(t, kind, pending[t], "unlock")
  BY <1>1 DEF Said, SaidWith, ToldOf
<1>4. Said(t) = SaidWith(t, kind, pending[t], "body")
  BY <1>1 DEF Said
<1> HIDE DEF kind
<1>5. SaidWith(t, kind, pending[t], "body") \in Seq(Sayings)
  BY <1>2, SaidSteps
<1>6. SaidWith(t, kind, pending[t], "unlock") =
        Append(SaidWith(t, kind, pending[t], "body"), <<t, Head(pending[t])>>)
  BY <1>2, SaidSteps
<1>7. <<t, Hook(t)>> \in Sayings
  BY <1>2 DEF Sayings, MemHooks
<1>8. QED
  BY <1>3, <1>4, <1>5, <1>6, <1>7 DEF Hook

LEMMA SayingsConcat ==
    \A x, y \in Seq(Sayings), e \in Sayings : Append(x \o y, e) = x \o Append(y, e)
<1> PICK S : S = Sayings
  OBVIOUS
<1>1. \A x, y \in Seq(S), e \in S : Append(x \o y, e) = x \o Append(y, e)
  OBVIOUS
<1>2. QED
  BY <1>1, ZenonT(60)

LEMMA BodyAccesses ==
    ASSUME TypeOK, LockDiscipline, Places, AccessesTold, NEW t \in Threads, PrintBody(t)
    PROVE  AccessesTold'
<1> SUFFICES ASSUME NEW c \in Cells PROVE AccessTold(c)'
  BY DEF AccessesTold
<1> DEFINE rec == Record(t, "body")
<1>1. /\ rec \in Records /\ log' = Append(log, rec) /\ rec.by = t /\ rec.hook = Hook(t)
      /\ rec.on = doing[t].on /\ pending[t] # <<>>
  BY BodyRecord
<1>2. AccessTold(c) /\ accessed'[c] = accessed[c]
  BY HookAccessed DEF AccessesTold, HookStep
<1>3. rec.hook \in MemHooks /\ rec.on = c <=> Announcing(t, c)
  <2>1. stage[t] \in {"before", "after"}
    BY <1>1, HookStages
  <2>2. CASE stage[t] = "before"
    BY <1>1, <2>2, HookBefore DEF Places, Announcing
  <2>3. CASE stage[t] = "after"
    <3>1. Hook(t) \in {"lock_after", "try_lock_after", "drop_after"}
      BY <1>1, <2>3, HookAfter DEF Places
    <3>2. QED
      BY <1>1, <2>3, <3>1 DEF Announcing, MemHooks
  <2>4. QED
    BY <2>1, <2>2, <2>3
<1> HIDE DEF rec
<1>4. /\ Accessing(c) \in Seq(Records)
      /\ Accessing(c)' = IF rec.hook \in MemHooks /\ rec.on = c
                           THEN Append(Accessing(c), rec) ELSE Accessing(c)
  BY <1>1, AccessingGrows
<1>5. CASE ~Announcing(t, c)
  <2>1. Accessing(c)' = Accessing(c)
    BY <1>3, <1>4, <1>5
  <2>2. \A u \in Threads : /\ Announcing(u, c)' <=> Announcing(u, c)
                           /\ Announcing(u, c) => Said(u)' = Said(u)
    BY <1>5, HookSaid, HookAnnouncing DEF HookStep
  <2>3. QED
    BY <1>2, <2>1, <2>2, AccessKept
<1>6. CASE Announcing(t, c)
  <2>1. Accessing(c)' = Append(Accessing(c), rec)
    BY <1>3, <1>4, <1>6
  <2>2. Told(Accessing(c))' = Append(Told(Accessing(c)), <<t, Hook(t)>>)
    <3>1. Told(Accessing(c))' = Told(Append(Accessing(c), rec))
      BY <2>1 DEF Told
    <3>2. QED
      BY <1>1, <1>4, <3>1, ToldGrows
  <2>3. Told(Accessing(c)) = Done(c) \o Said(t)
    BY <1>2, <1>6 DEF AccessTold
  <2>4. /\ Said(t) \in Seq(Sayings) /\ <<t, Hook(t)>> \in Sayings
        /\ Said(t)' = Append(Said(t), <<t, Hook(t)>>)
    BY <1>6, BodySays
  <2>5. Done(c)' = Done(c)
    BY <1>2, DoneKept
  <2>6. Append(Done(c) \o Said(t), <<t, Hook(t)>>) = Done(c) \o Append(Said(t), <<t, Hook(t)>>)
    <3>1. Done(c) \in Seq(Sayings)
      BY DoneType
    <3>2. \A d, x \in Seq(Sayings), e \in Sayings : Append(d \o x, e) = d \o Append(x, e)
      BY SayingsConcat, Zenon
    <3>3. Said(t) \in Seq(Sayings) /\ <<t, Hook(t)>> \in Sayings
      BY <2>4
    <3>4. QED
      BY <3>1, <3>2, <3>3, Zenon
  <2>7. Told(Accessing(c))' = Done(c)' \o Said(t)'
    BY <2>2, <2>3, <2>4, <2>5, <2>6, Zenon
  <2>8. \A u \in Threads : Announcing(u, c)' <=> Announcing(u, c)
    BY HookAnnouncing DEF HookStep
  <2>9. \A u \in Threads : Announcing(u, c)' => u = t
    BY <1>6, <2>8, OneAnnounces DEF Places
  <2>10. Announcing(t, c)'
    BY <1>6, <2>8
  <2>11. QED
    BY <2>7, <2>9, <2>10 DEF AccessTold
<1>7. QED
  BY <1>5, <1>6

LEMMA InitAccesses == Init => AccessesTold
<1> SUFFICES ASSUME Init, NEW c \in Cells PROVE AccessTold(c)
  BY DEF AccessesTold
<1>1. log = <<>> /\ accessed[c] = <<>> /\ \A t \in Threads : doing[t].kind \in {"start", "idle"}
  BY DEF Init, UserInit, Idle, Op
<1>2. Accessing(c) = <<>>
  BY <1>1, PickedEmpty DEF Accessing
<1>3. Told(<<>>) = <<>>
  BY DEF Told
<1>4. SaidOf(<<>>) = <<>>
  BY DEF SaidOf
<1>5. Done(c) = <<>>
  BY <1>1, <1>4, FlattenEmpty DEF Done, SaidOf
<1>6. \A t \in Threads : ~Announcing(t, c)
  BY <1>1 DEF Announcing, Accesses
<1>7. QED
  BY <1>2, <1>3, <1>5, <1>6 DEF AccessTold

LEMMA IdleAccesses ==
    ASSUME AccessesTold, StdoutBreaks \/ UNCHANGED vars
    PROVE  AccessesTold'
<1>1. UNCHANGED <<stage, pending, doing, at, accessed, log>>
  BY DEF StdoutBreaks, vars, userVars, hookVars
<1>2. ASSUME NEW c \in Cells PROVE AccessTold(c)'
  <2>1. Accessing(c)' = Accessing(c) /\ AccessTold(c)
    BY <1>1, LogKept DEF AccessesTold
  <2>2. \A u \in Threads : /\ Announcing(u, c)' <=> Announcing(u, c)
                           /\ Announcing(u, c) => Said(u)' = Said(u)
    BY <1>1 DEF Announcing, Said, SaidWith, ToldOf, Accesses
  <2>3. QED
    BY <1>1, <2>1, <2>2, AccessKept
<1>3. QED
  BY <1>2 DEF AccessesTold

LEMMA AccessesKept ==
    ASSUME HasMemHooks
    PROVE  Spec => []AccessesTold
<1>1. ASSUME TypeOK, LockDiscipline, Places, AccessesTold, [Next]_vars PROVE AccessesTold'
  <2>1. CASE \E t \in Threads : Step(t)
    <3>1. PICK t \in Threads : QuietStep(t) \/ HookStep(t)
      BY <2>1 DEF Step, QuietStep, HookStep
    <3>2. QED
      BY <1>1, <3>1, QuietAccesses, SilentAccesses, BodyAccesses
  <2>2. QED
    BY <1>1, <2>1, IdleAccesses DEF Next, Ended
<1>2. QED
  BY InitAccesses, PlacesKept, DisciplineKept, TypeCorrect, <1>1, PTL DEF Spec

(* What has been said of an access is its first hook, or all of it.         *)
LEMMA SaidParts ==
    ASSUME NEW t \in Threads, NEW kind \in Accesses, NEW hooks,
           hooks = <<>> \/ AccessHooks(kind, hooks), NEW where
    PROVE  LET said == SaidWith(t, kind, hooks, where) IN
           said = <<>> \/ \E n \in 1..2 : said = SubSeq(ToldOf(<<t, kind>>), 1, n)
<1> DEFINE w == <<t, "mem_write">>
           r == <<t, "mem_read">>
           said == SaidWith(t, kind, hooks, where)
           all == ToldOf(<<t, kind>>)
<1>1. w \in Sayings /\ r \in Sayings
  BY DEF Sayings
<1>2. /\ SubSeq(<<w>>, 1, 1) = <<w>> /\ SubSeq(<<r>>, 1, 1) = <<r>>
      /\ SubSeq(<<w, r>>, 1, 1) = <<w>> /\ SubSeq(<<w, r>>, 1, 2) = <<w, r>>
  BY <1>1, ShortPrefixes, Zenon
<1>3. CASE kind \in {"read", "write"}
  <2>1. all \in {<<w>>, <<r>>}
    BY <1>3, ToldOfValue
  <2>2. said = <<>> \/ said = all
    <3>1. CASE hooks = <<>>
      BY <3>1, SaidValues, Zenon
    <3>2. CASE hooks = <<"mem_read">>
      BY <1>3, <3>2, SaidValues, Zenon
    <3>3. CASE hooks = <<"mem_write">>
      BY <1>3, <3>3, SaidValues, Zenon
    <3>4. QED
      BY <1>3, <3>1, <3>2, <3>3 DEF AccessHooks
  <2>3. SubSeq(all, 1, 1) = all
    BY <1>2, <2>1
  <2> HIDE DEF said, all
  <2>4. said = <<>> \/ \E n \in 1..2 : said = SubSeq(all, 1, n)
    BY <2>2, <2>3
  <2>5. QED
    BY <2>4 DEF said, all
<1>4. CASE kind = "update"
  <2>1. all = <<w, r>>
    BY <1>4, ToldOfValue
  <2>2. said = <<>> \/ said = <<w>> \/ said = all
    <3>1. CASE hooks = <<>>
      BY <3>1, SaidValues, Zenon
    <3>2. CASE hooks = <<"mem_read">>
      BY <1>4, <3>2, SaidValues, Zenon
    <3>3. CASE hooks = <<"mem_write", "mem_read">>
      BY <1>4, <3>3, SaidValues, Zenon
    <3>4. QED
      BY <1>4, <3>1, <3>2, <3>3 DEF AccessHooks
  <2>3. SubSeq(all, 1, 1) = <<w>> /\ SubSeq(all, 1, 2) = all
    BY <1>2, <2>1
  <2>4. said = <<>> \/ said = SubSeq(all, 1, 1) \/ said = SubSeq(all, 1, 2)
    <3> HIDE DEF said, all
    <3>1. QED
      BY <2>2, <2>3, Zenon
  <2>5. 1 \in 1..2 /\ 2 \in 1..2
    OBVIOUS
  <2> HIDE DEF said, all
  <2>6. \/ said = <<>> \/ \E n \in 1..2 : said = SubSeq(all, 1, n)
    BY <2>4, <2>5, Zenon
  <2>7. QED
    BY <2>6 DEF said, all
<1>5. QED
  BY <1>3, <1>4 DEF Accesses

LEMMA ToldMeans ==
    ASSUME TypeOK, Places, AccessesTold
    PROVE  AccessLogFaithful
<1> SUFFICES ASSUME NEW c \in Cells
             PROVE  LET told == Told(Accessing(c))
                        next == owner[GuardOf[c]]
                    IN  \/ told = Done(c)
                        \/ /\ next # None /\ doing[next].on = c /\ doing[next].kind \in Accesses
                           /\ \E n \in 1..2 :
                                told = Done(c) \o SubSeq(ToldOf(<<next, doing[next].kind>>), 1, n)
  BY DEF AccessLogFaithful
<1>1. AccessTold(c)
  BY DEF AccessesTold
<1>2. CASE \A t \in Threads : ~Announcing(t, c)
  BY <1>1, <1>2 DEF AccessTold
<1>3. ASSUME NEW t \in Threads, Announcing(t, c)
      PROVE  \/ Told(Accessing(c)) = Done(c)
             \/ /\ owner[GuardOf[c]] = t /\ t # None
                /\ doing[t].on = c /\ doing[t].kind \in Accesses
                /\ \E n \in 1..2 : Told(Accessing(c)) =
                                     Done(c) \o SubSeq(ToldOf(<<t, doing[t].kind>>), 1, n)
  <2>1. Told(Accessing(c)) = Done(c) \o Said(t)
    BY <1>1, <1>3 DEF AccessTold
  <2>2. doing[t].on = c /\ doing[t].kind \in Accesses /\ stage[t] = "before"
    BY <1>3 DEF Announcing
  <2>3. owner[GuardOf[c]] = t /\ t # None
    BY <2>2, ProgramAssumption DEF Places, AccessesGuarded
  <2>4. pending[t] = <<>> \/ AccessHooks(doing[t].kind, pending[t])
    BY <1>3, AnnouncedHooks DEF Places
  <2>5. Said(t) = <<>> \/ \E n \in 1..2 : Said(t) = SubSeq(ToldOf(<<t, doing[t].kind>>), 1, n)
    BY <2>2, <2>4, SaidParts DEF Said
  <2>6. Done(c) \o <<>> = Done(c)
    BY DoneType, ConcatEmpty
  <2>7. CASE Said(t) = <<>>
    BY <2>1, <2>6, <2>7
  <2>8. ASSUME NEW n \in 1..2, Said(t) = SubSeq(ToldOf(<<t, doing[t].kind>>), 1, n)
        PROVE  Told(Accessing(c)) = Done(c) \o SubSeq(ToldOf(<<t, doing[t].kind>>), 1, n)
    BY <2>1, <2>8
  <2>9. QED
    BY <2>2, <2>3, <2>5, <2>7, <2>8, Zenon
<1>4. QED
  BY <1>2, <1>3, Zenon

(* With both memory hooks the log tells the true order of the accesses to   *)
(* every cell that its mutex guards: what was done, in order, then at most  *)
(* the announcement of the access the mutex's owner is about to do; for any *)
(* number of threads and cells, also after hooks panicked (a panic in a     *)
(* memory hook aborts the process, so no access goes unannounced).          *)
THEOREM AccessesInOrder ==
    ASSUME MemHooks \subseteq Hooks
    PROVE  Spec => []AccessLogFaithful
<1>1. HasMemHooks
  BY DEF HasMemHooks
<1>2. TypeOK /\ Places /\ AccessesTold => AccessLogFaithful
  BY ToldMeans
<1>3. QED
  BY <1>1, <1>2, AccessesKept, PlacesKept, TypeCorrect, PTL
=============================================================================
