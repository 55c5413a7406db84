-------------------------- MODULE BodyInstrumenter --------------------------
(* our_optimized_mir once START_INSTRUMENT is set: what the instrumenter    *)
(* does to one mir::Body.  The passes run in order (entry hooks, memory     *)
(* accesses, calls, drops); each of the last three first collects positions *)
(* in the body, then edits the body once per position, so a position is     *)
(* used after the body it was found in has changed.  One action is one      *)
(* collection or one iteration of an editing loop.                          *)
EXTENDS Mir, Selection

CONSTANTS
    Bodies,   \* the bodies rustc may hand over, as Mir!Tag returns them
    Libs,     \* the monitor libraries find_all_monitors may have found
    Owners    \* what the body may belong to, see Instrumentable

VARIABLES
    body,     \* the mir::Body being edited in place
    orig,     \* the body original_optimized_mir returned (ghost)
    lib,      \* MONITORS: which hooks exist
    owner,    \* [entry, kind, filtered]: facts about the body's def_id
    phase,    \* which pass is running
    todo      \* positions collected and not yet instrumented

vars == <<body, orig, lib, owner, phase, todo>>

Phases == {"entry_before", "entry_after", "gates", "collect_mem", "mem",
           "collect_calls", "calls", "collect_drops", "drops", "done", "ice"}

(* Callees with a FunctionCallInstrumenter, guard types with an             *)
(* ObjectDropInstrumenter.                                                  *)
CallTargets ==
    {"Mutex::lock", "Mutex::try_lock", "RwLock::read", "RwLock::write",
     "RwLock::try_read", "RwLock::try_write", "Barrier::wait", "Condvar::wait",
     "Condvar::wait_timeout", "Condvar::wait_timeout_ms", "Condvar::wait_while",
     "Condvar::wait_timeout_while"}
GuardTypes == {"MutexGuard", "RwLockReadGuard", "RwLockWriteGuard"}
MemDrop     == {"std::mem::drop", "core::mem::drop"}
DropInPlace == {"std::ptr::drop_in_place", "core::ptr::drop_in_place"}

(* The Option<DefId> fields of MonitorsInfo: single hooks by name, before / *)
(* after hooks by the callee or guard type they are wired to.               *)
MonitorsInfo ==
    [one    : SUBSET {"entry_before", "entry_after", "mem_read", "mem_write"},
     before : SUBSET (CallTargets \cup GuardTypes),
     after  : SUBSET (CallTargets \cup GuardTypes)]

(* Of the locks' own methods only the waits on a condition variable take    *)
(* something by value, the guard; and a body only drops while it unwinds:   *)
(* what a Drop implementation calls is in a body of its own.  None of these *)
(* methods diverges, and a drop goes on to one place.                       *)
WaitsOnCondvar == {"Condvar::wait", "Condvar::wait_timeout", "Condvar::wait_timeout_ms",
                   "Condvar::wait_while", "Condvar::wait_timeout_while"}
CallsLocksAsUsual(bd) ==
    \A b \in Blocks(bd) :
        /\ bd[b].term.fn \in CallTargets =>
              /\ ~bd[b].cleanup
              /\ bd[b].term.fn \notin WaitsOnCondvar =>
                    \A k \in DOMAIN bd[b].term.args : bd[b].term.args[k][1] # "val"
        /\ bd[b].term.kind = "drop" \/ bd[b].term.fn \in CallTargets \cup MemDrop =>
              \E t \in Blocks(bd) : bd[b].term.to = {t}

ASSUME BodiesAssumption ==
    /\ Bodies \subseteq Body
    /\ \A b \in Bodies : Tagged(b) /\ WellFormed(b) /\ CallsLocksAsUsual(b)
ASSUME LibsAssumption == Libs \subseteq MonitorsInfo

(* The gates of run_our_pass_on_body.                                       *)
Instrumentable(who) == who.kind = "fn" /\ ~who.filtered

Init ==
    /\ orig \in Bodies
    /\ body = orig
    /\ lib \in Libs
    /\ owner \in Owners
    /\ phase = "entry_before"
    /\ todo = <<>>

-----------------------------------------------------------------------------
(* EntryFnBodyInstrumenter                                                  *)

(* instrument_body_before: bb0 is cloned, keeps only the hook call and      *)
(* loses its statements.                                                    *)
(* Slip: the hook returns to a block that was never added.                  *)
EnterThroughHookToNowhere(bd) ==
    Append([bd EXCEPT ![1] = [@ EXCEPT
                !.stmts = <<>>,
                !.term  = HookCall("entry_before", "", <<>>, {Len(bd) + 2}, Continue)]],
           bd[1])

EnterThroughHook(bd) ==
    Append([bd EXCEPT ![1] = [@ EXCEPT
                !.stmts = <<>>,
                !.term  = HookCall("entry_before", "", <<>>, {Len(bd) + 1}, Continue)]],
           bd[1])

EntryBefore ==
    /\ phase = "entry_before"
    /\ body' = IF owner.entry /\ "entry_before" \in lib.one
                 THEN EnterThroughHook(body) ELSE body
    /\ phase' = "entry_after"
    /\ UNCHANGED <<orig, lib, owner, todo>>

(* instrument_body_after: every Return moves behind a hook call; leaving by *)
(* unwinding is not captured.                                               *)
ReturnThroughHook(bd, b) ==
    Apply(bd, b, <<>>, HookCall("entry_after", "", <<>>, {Len(bd) + 1}, Continue),
          <<[bd[b] EXCEPT !.stmts = <<>>]>>)

ReturnsThroughHook(bd) ==
    LET through[b \in 0..Len(bd)] ==
          IF b = 0 THEN bd
          ELSE IF bd[b].term.kind = "return" THEN ReturnThroughHook(through[b - 1], b)
          ELSE through[b - 1]
    IN  through[Len(bd)]

EntryAfter ==
    /\ phase = "entry_after"
    /\ body' = IF owner.entry /\ "entry_after" \in lib.one
                 THEN ReturnsThroughHook(body) ELSE body
    /\ phase' = "gates"
    /\ UNCHANGED <<orig, lib, owner, todo>>

(* run_our_pass_on_body returns early for what must not be instrumented;    *)
(* the entry hooks are in place by then.                                    *)
Gates ==
    /\ phase = "gates"
    /\ phase' = IF Instrumentable(owner) THEN "collect_mem" ELSE "done"
    /\ UNCHANGED <<body, orig, lib, owner, todo>>

-----------------------------------------------------------------------------
(* instrument_mem_acesses                                                   *)

ReadContexts == {"Inspect", "Copy", "Move"}
WriteContexts == {"Store", "Call", "Yield", "AsmOutput", "SetDiscriminant",
                  "Drop", "Deinit"}

Pointers(item, contexts) ==
    LET uses == item.uses
        used == Picked(uses, {k \in DOMAIN uses : uses[k][1] \in contexts})
    IN  [k \in DOMAIN used |-> used[k][2]]
Reads(item) == Pointers(item, ReadContexts)
Writes(item) == Pointers(item, WriteContexts)

(* PlaceDerefCollector keeps at most one read and one write per location    *)
(* and calls bug! on a second one.                                          *)
(* Slip: a read and a write of one location share the slot.                 *)
UncollectableTogether(bd) ==
    \E loc \in Locations(bd) :
        Len(Reads(ItemAt(bd, loc)) \o Writes(ItemAt(bd, loc))) > 1
Uncollectable(bd) ==
    \E loc \in Locations(bd) : \/ Len(Reads(ItemAt(bd, loc))) > 1
                               \/ Len(Writes(ItemAt(bd, loc))) > 1

(* One entry of deref_pointers, `at` remembering what it was collected for. *)
Deref(bd, loc) ==
    [block |-> loc[1], index |-> loc[2], at |-> ItemAt(bd, loc).at,
     read  |-> Reads(ItemAt(bd, loc)), write |-> Writes(ItemAt(bd, loc))]

Derefs(bd, b) ==
    LET items == ItemsOf(bd[b])
        used == {i \in DOMAIN items : Reads(items[i]) \o Writes(items[i]) # <<>>}
    IN  Picked([i \in DOMAIN items |-> Deref(bd, <<b, i>>)], used)

(* sort_by(b.0.cmp(a.0)): last location of the block first.                 *)
(* Slip: ascending order.                                                   *)
DerefsEarlierFirst(bd, b) == Derefs(bd, b)
DerefsInOrder(bd, b) == Reverse(Derefs(bd, b))

(* The blocks come out of an FxHashMap: in any order.                       *)
CollectMem ==
    /\ phase = "collect_mem"
    /\ IF ~({"mem_read", "mem_write"} \subseteq lib.one)
         THEN phase' = "collect_calls" /\ UNCHANGED todo
       ELSE IF Uncollectable(body)
         THEN phase' = "ice" /\ UNCHANGED todo
       ELSE /\ phase' = "mem"
            /\ \E order \in SetToSeqs({b \in Blocks(body) : Derefs(body, b) # <<>>}) :
                 todo' = FlattenSeq([k \in DOMAIN order |-> DerefsInOrder(body, order[k])])
    /\ UNCHANGED <<body, orig, lib, owner>>

(* split_off at the location: the tail and the terminator move to a new     *)
(* block that keeps is_cleanup, the block ends in the hook call.            *)
(* Slip: the statement the block is split at is lost.                       *)
SplitAfterHook(bd, b, i, hook, pointer) ==
    Append([bd EXCEPT ![b] = [bd[b] EXCEPT
                !.stmts = SubSeq(bd[b].stmts, 1, i - 1),
                !.term  = HookCall(hook, "", <<<<"addr", pointer>>>>, {Len(bd) + 1}, Terminate)]],
           [bd[b] EXCEPT !.stmts = SubSeq(@, i + 1, Len(@))])
SplitAtHook(bd, b, i, hook, pointer) ==
    Append([bd EXCEPT ![b] = [bd[b] EXCEPT
                !.stmts = SubSeq(bd[b].stmts, 1, i - 1),
                !.term  = HookCall(hook, "", <<<<"addr", pointer>>>>, {Len(bd) + 1}, Terminate)]],
           [bd[b] EXCEPT !.stmts = SubSeq(@, i, Len(@))])

(* The AddressOf and Cast statements, added by patch.apply once both splits *)
(* are done: in front of both hooks.                                        *)
AddrOf(what, pointers) ==
    [k \in DOMAIN pointers |-> InsertedStmt(<<"addr_of", what>>, <<<<"deref", pointers[k]>>>>)]

(* The read hook first, then the write hook at the same index: the second   *)
(* split has no tail left and puts the write hook before the read hook.     *)
AccessThroughHooks(bd, d) ==
    LET r == IF d.read = <<>> THEN bd
               ELSE SplitAtHook(bd, d.block, d.index, "mem_read", d.read[1])
        w == IF d.write = <<>> THEN r
               ELSE SplitAtHook(r, d.block, d.index, "mem_write", d.write[1])
    IN  Apply(w, d.block, AddrOf("mem_read", d.read) \o AddrOf("mem_write", d.write),
              w[d.block].term, <<>>)

InstrumentMem ==
    /\ phase = "mem" /\ todo # <<>>
    /\ body' = AccessThroughHooks(body, Head(todo))
    /\ todo' = Tail(todo)
    /\ UNCHANGED <<orig, lib, owner, phase>>

MemDone ==
    /\ phase = "mem" /\ todo = <<>>
    /\ phase' = "collect_calls"
    /\ UNCHANGED <<body, orig, lib, owner, todo>>

-----------------------------------------------------------------------------
(* execute_all_function_call_instrumenters                                  *)

(* build_monitor_args: pointers are copied; anything else is passed as a    *)
(* reference taken by a statement added to the call's block.  (The callsite *)
(* string every hook gets first is left out.)                               *)
(* Slip: arguments are passed as the call passes them, moved values too.    *)
MonitorArgsByValue(args) ==
    [k \in DOMAIN args |-> <<IF args[k][1] = "const" THEN "ref" ELSE "copy", args[k][2]>>]
ByRef(args) == Picked(args, {k \in DOMAIN args : args[k][1] # "ptr"})
MonitorArgs(args) ==
    [k \in DOMAIN args |-> <<IF args[k][1] = "ptr" THEN "copy" ELSE "ref", args[k][2]>>]
ArgRefs(args) ==
    LET refs == ByRef(args)
    IN  [k \in DOMAIN refs |-> InsertedStmt(<<"ref">>, <<refs[k]>>)]

(* get_function_path_str: the callee's path, if the operand's type tells it. *)
(* A function pointer does not say what it points to.                       *)
FunctionPath(term) ==
    IF term.kind = "call" /\ term.fn # "fn pointer" THEN {term.fn} ELSE {}

CallPosition(bd, b, name) ==
    [block |-> b, at |-> bd[b].term.at, name |-> name]

CollectCalls ==
    /\ phase = "collect_calls"
    /\ LET hits == {b \in Blocks(body) : FunctionPath(body[b].term) \cap CallTargets # {}}
       IN  todo' = Picked([b \in Blocks(body) |-> CallPosition(body, b, body[b].term.fn)], hits)
    /\ phase' = "calls"
    /\ UNCHANGED <<body, orig, lib, owner>>

DestRef == InsertedStmt(<<"ref_mut">>, <<<<"place", "dest">>>>)

(* instrument_call_before: the call moves to a new block, never a cleanup   *)
(* one, behind the hook call that takes its place.  Returns the body and    *)
(* where the call is now.                                                   *)
CallBefore(bd, b, name) ==
    LET call == bd[b].term IN
    IF name \notin lib.before THEN [body |-> bd, block |-> b]
    ELSE [body  |-> Apply(bd, b, ArgRefs(call.args),
                          HookCall("before", name, MonitorArgs(call.args),
                                   {Len(bd) + 1}, call.unwind),
                          <<[stmts |-> <<>>, term |-> call, cleanup |-> FALSE]>>),
          block |-> Len(bd) + 1]

(* instrument_call_after: the references to the arguments are taken before  *)
(* the call, in its block; the call returns to a new block that borrows its *)
(* destination, calls the hook and goes on to the call's target.            *)
CallAfter(bd, b, name) ==
    LET call == bd[b].term IN
    IF name \notin lib.after THEN bd
    ELSE Apply(bd, b, ArgRefs(call.args), [call EXCEPT !.to = {Len(bd) + 1}],
               <<[stmts   |-> <<DestRef>>,
                  term    |-> HookCall("after", name,
                                       Append(MonitorArgs(call.args), <<"ref", "dest">>),
                                       call.to, call.unwind),
                  cleanup |-> FALSE]>>)

(* Slip: loc_bb is not updated, the after hook goes to the call's old block. *)
InstrumentCallInPlace ==
    /\ phase = "calls" /\ todo # <<>>
    /\ LET pos   == Head(todo)
           moved == CallBefore(body, pos.block, pos.name)
       IN  body' = CallAfter(moved.body, pos.block, pos.name)
    /\ todo' = Tail(todo)
    /\ UNCHANGED <<orig, lib, owner, phase>>

InstrumentCall ==
    /\ phase = "calls" /\ todo # <<>>
    /\ LET pos   == Head(todo)
           moved == CallBefore(body, pos.block, pos.name)
       IN  body' = CallAfter(moved.body, moved.block, pos.name)
    /\ todo' = Tail(todo)
    /\ UNCHANGED <<orig, lib, owner, phase>>

CallsDone ==
    /\ phase = "calls" /\ todo = <<>>
    /\ phase' = "collect_drops"
    /\ UNCHANGED <<body, orig, lib, owner, todo>>

-----------------------------------------------------------------------------
(* execute_all_obj_drop_instrumenters                                       *)

DropsGuard(term) ==
    /\ term.of \in GuardTypes
    /\ term.kind = "drop" \/ FunctionPath(term) \cap MemDrop # {}

CollectDrops ==
    /\ phase = "collect_drops"
    /\ LET hits == {b \in Blocks(body) : DropsGuard(body[b].term)}
       IN  IF \E b \in Blocks(body) : FunctionPath(body[b].term) \cap DropInPlace # {}
             THEN phase' = "ice" /\ UNCHANGED todo      \* unimplemented!
             ELSE /\ phase' = "drops"
                  /\ todo' = Picked([b \in Blocks(body) |->
                                        CallPosition(body, b, body[b].term.of)], hits)
    /\ UNCHANGED <<body, orig, lib, owner>>

GuardRef == InsertedStmt(<<"ref">>, <<<<"place", "guard">>>>)
DropHook(when, drop, to) ==
    HookCall(when, drop.of, <<<<"ref", "guard">>>>, to, drop.unwind)

(* instrument_drop_before: the drop moves to a new block of the same kind.  *)
(* Slip: as for calls, the new block is never a cleanup block.              *)
DropBeforeInPlainBlock(bd, b, ty) ==
    LET drop == bd[b].term IN
    IF ty \notin lib.before THEN [body |-> bd, block |-> b]
    ELSE [body  |-> Apply(bd, b, <<GuardRef>>,
                          DropHook("before", drop, {Len(bd) + 1}),
                          <<[stmts |-> <<>>, term |-> drop, cleanup |-> FALSE]>>),
          block |-> Len(bd) + 1]
DropBefore(bd, b, ty) ==
    LET drop == bd[b].term IN
    IF ty \notin lib.before THEN [body |-> bd, block |-> b]
    ELSE [body  |-> Apply(bd, b, <<GuardRef>>,
                          DropHook("before", drop, {Len(bd) + 1}),
                          <<[bd[b] EXCEPT !.stmts = <<>>]>>),
          block |-> Len(bd) + 1]

(* instrument_drop_after: the reference is taken before the drop; the hook  *)
(* runs in a new block that is never a cleanup block.                       *)
DropAfter(bd, b, ty) ==
    LET drop == bd[b].term IN
    IF ty \notin lib.after THEN bd
    ELSE Apply(bd, b, <<GuardRef>>, [drop EXCEPT !.to = {Len(bd) + 1}],
               <<[stmts   |-> <<>>,
                  term    |-> DropHook("after", drop, drop.to),
                  cleanup |-> FALSE]>>)

InstrumentDrop ==
    /\ phase = "drops" /\ todo # <<>>
    /\ LET pos   == Head(todo)
           moved == DropBefore(body, pos.block, pos.name)
       IN  body' = DropAfter(moved.body, moved.block, pos.name)
    /\ todo' = Tail(todo)
    /\ UNCHANGED <<orig, lib, owner, phase>>

DropsDone ==
    /\ phase = "drops" /\ todo = <<>>
    /\ phase' = "done"          \* the slice of other passes is empty
    /\ UNCHANGED <<body, orig, lib, owner, todo>>

-----------------------------------------------------------------------------
Next ==
    \/ EntryBefore \/ EntryAfter \/ Gates
    \/ CollectMem \/ InstrumentMem \/ MemDone
    \/ CollectCalls \/ InstrumentCall \/ CallsDone
    \/ CollectDrops \/ InstrumentDrop \/ DropsDone

Spec == Init /\ [][Next]_vars /\ WF_vars(Next)
-----------------------------------------------------------------------------
(* What a finished body promises, stated on the control-flow graph and not  *)
(* on blocks: which inserted effects the user's item `item` gets before it  *)
(* and, on its normal edges, after it.                                      *)

Hooks(names) == Instrumentable(owner) /\ names \subseteq lib.one
BeforeHook(name) == Instrumentable(owner) /\ name \in lib.before
AfterHook(name) == Instrumentable(owner) /\ name \in lib.after
When(cond, effects) == IF cond THEN effects ELSE <<>>

MemEffects(item) ==
    LET addr(what, p) == Effect(<<"addr_of", what>>, <<<<"deref", p>>>>, Continue)
        hook(what, p) == Effect(<<what, "">>, <<<<"addr", p>>>>, Terminate)
        each(Op(_, _), what, ps) == [k \in DOMAIN ps |-> Op(what, ps[k])]
    IN  When(Hooks({"mem_read", "mem_write"}),
             each(addr, "mem_read", Reads(item)) \o each(addr, "mem_write", Writes(item))
             \o each(hook, "mem_write", Writes(item)) \o each(hook, "mem_read", Reads(item)))

RefEffects(args) == [k \in DOMAIN ByRef(args) |->
                        Effect(<<"ref">>, <<ByRef(args)[k]>>, Continue)]

BeforeEffects(item) ==
    LET target == item.kind = "call" /\ item.fn \in CallTargets
        guard  == DropsGuard(item)
        guardRef == <<GuardRef.effect>>
    IN  When(target /\ BeforeHook(item.fn),
             Append(RefEffects(item.args),
                    Effect(<<"before", item.fn>>, MonitorArgs(item.args), item.unwind)))
        \o When(target /\ AfterHook(item.fn), RefEffects(item.args))
        \o When(guard /\ BeforeHook(item.of),
                Append(guardRef, Effect(<<"before", item.of>>, <<<<"ref", "guard">>>>, item.unwind)))
        \o When(guard /\ AfterHook(item.of), guardRef)
        \o When(item.kind = "return" /\ owner.entry /\ "entry_after" \in lib.one,
                <<Effect(<<"entry_after", "">>, <<>>, Continue)>>)

AfterEffects(item) ==
    When(item.kind = "call" /\ item.fn \in CallTargets /\ AfterHook(item.fn),
         <<DestRef.effect, Effect(<<"after", item.fn>>,
            Append(MonitorArgs(item.args), <<"ref", "dest">>), item.unwind)>>)
    \o When(DropsGuard(item) /\ AfterHook(item.of),
            <<Effect(<<"after", item.of>>, <<<<"ref", "guard">>>>, item.unwind)>>)

EntryEffects == When(owner.entry /\ "entry_before" \in lib.one,
                     <<Effect(<<"entry_before", "">>, <<>>, Continue)>>)

ExpectedEffects(e) ==
    LET before(loc) == MemEffects(ItemAt(orig, loc)) \o
                       When(IsTerm(orig, loc), BeforeEffects(ItemAt(orig, loc)))
        after == IF e.how = "start" THEN EntryEffects
                 ELSE When(e.how = "normal" /\ IsTerm(orig, e.from),
                           AfterEffects(ItemAt(orig, e.from)))
    IN  after \o before(e.to)

-----------------------------------------------------------------------------
(* Every variable stays in its domain; blocks the passes create included.   *)
TypeOK ==
    /\ orig \in Bodies /\ lib \in Libs /\ owner \in Owners /\ phase \in Phases
    /\ \A b \in Blocks(body) : /\ body[b].cleanup \in BOOLEAN
                                /\ body[b].term.to \subseteq Blocks(body)
    /\ \A k \in DOMAIN todo : todo[k].block \in Blocks(body)

(* After every edit, also in the middle of a pass, the user's program is    *)
(* still there and unchanged: each of its items exactly once, with its      *)
(* operands and unwind action, and the same normal and unwind edges between *)
(* them (inject_for_body and everything below it).                          *)
FlowPreserved ==
    LET own == {loc \in Locations(body) : ItemAt(body, loc).at # Nowhere}
        item(bd, loc) == IF IsTerm(bd, loc) THEN [ItemAt(bd, loc) EXCEPT !.to = {}]
                                            ELSE ItemAt(bd, loc)
    IN  /\ Cardinality(own) = Cardinality(Locations(orig))
        /\ \A loc \in own : item(body, loc) = item(orig, ItemAt(body, loc).at)
        /\ Bare(Edges(body)) = Bare(Edges(orig))

(* The finished body runs exactly the promised hooks, in order, with the    *)
(* promised operands and unwind actions, on every edge of the program: no   *)
(* pass disturbs another and no access, call or drop is missed or reported  *)
(* twice, loops and unwind edges included.                                  *)
HooksAsPromised ==
    phase = "done" =>
        \A e \in Edges(body) : e.effects = ExpectedEffects(e)

(* A position collected before the body was edited still denotes, when its  *)
(* turn comes, the item it was collected for (the reason for the descending *)
(* sort and for loc_bb).                                                    *)
PositionsNotStale ==
    \A k \in DOMAIN todo :
        LET pos == todo[k]
            item == IF phase = "mem" THEN ItemsOf(body[pos.block])[pos.index]
                                     ELSE body[pos.block].term
        IN  item.at = pos.at

(* The body stays what rustc accepts, except that an after-drop hook put on *)
(* an unwinding path runs in a block that is not a cleanup block: those are *)
(* the only ways out of cleanup (obj_drop_instrumenter.rs:208 and :259).    *)
AfterDropHookBlock(b) ==
    body[b].term.fn = "after" /\ body[b].term.of \in GuardTypes
CleanupStaysClosed ==
    /\ \A leave \in LeavesCleanup(body) : AfterDropHookBlock(leave[2])
    /\ \A b \in Blocks(body) :
         /\ body[b].term.to \subseteq Blocks(body) \ {1}
         /\ body[b].term.unwind.act = "cleanup" => body[body[b].term.unwind.block].cleanup
         /\ \A t \in body[b].term.to : 
              body[t].cleanup => body[b].cleanup \/ AfterDropHookBlock(b)

(* A hook never owns what the program owns: pointers are copied to it and   *)
(* anything else lent.  What is lent may be gone when the hook looks (the   *)
(* comment at function_call_instrumenter.rs:232), but only for the hooks    *)
(* that run after a wait on a condition variable, which consumes its guard, *)
(* or after the drop of a guard; every hook before an operation, and those  *)
(* after the lock and barrier calls, see live values.                       *)
Values(item) ==
    IF item.kind = "drop" THEN {"guard"}
    ELSE IF item.kind = "call" THEN {a[2] : a \in {b \in ToSet(item.args) : b[1] = "val"}}
    ELSE {}
HookBlocks == {b \in Blocks(body) : body[b].term.at = Nowhere
                                     /\ body[b].term.fn \in {"before", "after"}}
UserBlocks == {b \in Blocks(body) : body[b].term.at # Nowhere}
Passed(h, modes) == {a[2] : a \in {b \in ToSet(body[h].term.args) : b[1] \in modes}}
HooksSeeLiveValues ==
    \A h \in HookBlocks, b \in UserBlocks :
        LET owned == Values(body[b].term) IN
        /\ body[h].term.fn = "before" /\ b \in body[h].term.to =>
              Passed(h, {"copy", "move"}) \cap owned = {}
        /\ body[h].term.fn = "after" /\ h \in body[b].term.to =>
              /\ Passed(h, {"copy", "move"}) \cap owned = {}
              /\ Passed(h, {"ref"}) \cap owned # {} =>
                    body[h].term.of \in WaitsOnCondvar \cup GuardTypes

(* The compiler is only crashed by a location that dereferences two         *)
(* pointers the same way (and only when both memory hooks exist), or by a   *)
(* direct call of drop_in_place, and then only in an instrumentable body.   *)
TwiceTheSameWay(item) ==
    \E i, j \in DOMAIN item.uses :
        /\ i < j
        /\ \E way \in {ReadContexts, WriteContexts} :
             item.uses[i][1] \in way /\ item.uses[j][1] \in way
CrashesOnlyWhenUnsupported ==
    phase = "ice" =>
        /\ Instrumentable(owner)
        /\ \/ /\ {"mem_read", "mem_write"} \subseteq lib.one
              /\ \E loc \in Locations(orig) : TwiceTheSameWay(ItemAt(orig, loc))
           \/ \E b \in Blocks(orig) : orig[b].term.fn \in DropInPlace
=============================================================================
