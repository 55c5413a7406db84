----------------------- MODULE BodyInstrumenterProofs -----------------------
(* For every body rustc may hand over, however many blocks it has, every    *)
(* monitor library and every owner.  What the passes do to a body is one of *)
(* three things: a terminator moves behind a hook, a terminator is followed *)
(* by a hook, statements are added to a block.                              *)
EXTENDS BodyInstrumenter, OperatorFacts

-----------------------------------------------------------------------------
(* The types of what is inserted.                                           *)

LEMMA InsertedType ==
    ASSUME NEW what \in Seq(Names), NEW on \in Operands
    PROVE  InsertedStmt(what, on) \in Statement
<1>1. <<>> \in Seq(Nat) /\ <<>> \in Operands
  BY DEF Operands
<1>2. Continue \in UnwindAction
  BY DEF Continue, UnwindAction
<1>3. Effect(what, on, Continue) \in [what : Seq(Names), on : Operands, unwind : UnwindAction]
  BY <1>2 DEF Effect
<1>4. QED
  BY <1>1, <1>3 DEF InsertedStmt, Statement, Nowhere

LEMMA OperandType ==
    ASSUME NEW mode \in Names, NEW name \in Names
    PROVE  <<mode, name>> \in Names \X Names /\ <<<<mode, name>>>> \in Operands
BY DEF Operands

LEMMA RefType ==
    ASSUME NEW operand \in Names \X Names
    PROVE  InsertedStmt(<<"ref">>, <<operand>>) \in Statement
<1>1. <<"ref">> \in Seq(Names)
  <2>1. "ref" \in Names
    BY NamesAssumption, Zenon DEF Words
  <2>2. QED
    BY <2>1
<1>2. <<operand>> \in Operands
  BY DEF Operands
<1>3. QED
  BY <1>1, <1>2, InsertedType, Zenon

LEMMA TabledSequence ==
    ASSUME NEW S, NEW n \in Nat, NEW f \in [1..n -> S]
    PROVE  f \in Seq(S) /\ Len(f) = n
OBVIOUS

LEMMA AddrOfType ==
    ASSUME NEW what \in {"mem_read", "mem_write"}, NEW pointers \in Seq(Names)
    PROVE  AddrOf(what, pointers) \in Seq(Statement)
<1>1. "addr_of" \in Names /\ what \in Names /\ "deref" \in Names
  BY NamesAssumption, Zenon DEF Words
<1>2. <<"addr_of", what>> \in Seq(Names)
  BY <1>1
<1>3. ASSUME NEW k \in 1..Len(pointers)
      PROVE  InsertedStmt(<<"addr_of", what>>, <<<<"deref", pointers[k]>>>>) \in Statement
  <2>1. pointers[k] \in Names
    OBVIOUS
  <2>2. <<<<"deref", pointers[k]>>>> \in Operands
    BY <1>1, <2>1, OperandType, Zenon
  <2>3. QED
    BY <1>2, <2>2, InsertedType, Zenon
<1>4. AddrOf(what, pointers) =
        [k \in 1..Len(pointers) |-> InsertedStmt(<<"addr_of", what>>, <<<<"deref", pointers[k]>>>>)]
  BY DEF AddrOf
<1>5. Len(pointers) \in Nat
  OBVIOUS
<1>6. AddrOf(what, pointers) \in [1..Len(pointers) -> Statement]
  BY <1>3, <1>4, Zenon
<1>7. QED
  BY <1>5, <1>6, TabledSequence

LEMMA ArgRefsType ==
    ASSUME NEW args \in Operands
    PROVE  ArgRefs(args) \in Seq(Statement)
<1>1. ByRef(args) \in Seq(Names \X Names)
  BY PickedType DEF ByRef, Operands
<1> DEFINE refs == ByRef(args)
<1>2. ArgRefs(args) = [k \in DOMAIN refs |-> InsertedStmt(<<"ref">>, <<refs[k]>>)]
  BY DEF ArgRefs
<1> HIDE DEF refs
<1>3. refs \in Seq(Names \X Names)
  BY <1>1 DEF refs
<1>4. Len(refs) \in Nat /\ DOMAIN refs = 1..Len(refs)
  BY <1>3
<1>5. ASSUME NEW k \in DOMAIN refs
      PROVE  InsertedStmt(<<"ref">>, <<refs[k]>>) \in Statement
  <2>1. refs[k] \in Names \X Names
    BY <1>3
  <2>2. QED
    BY <2>1, RefType
<1>6. ArgRefs(args) \in [1..Len(refs) -> Statement]
  BY <1>2, <1>4, <1>5
<1>7. QED
  BY <1>4, <1>6, TabledSequence

LEMMA MonitorArgsType ==
    ASSUME NEW args \in Operands
    PROVE  /\ MonitorArgs(args) \in Operands
           /\ Append(MonitorArgs(args), <<"ref", "dest">>) \in Operands
<1>1. "copy" \in Names /\ "ref" \in Names /\ "dest" \in Names
  BY NamesAssumption, Zenon DEF Words
<1>2. Len(args) \in Nat /\ DOMAIN args = 1..Len(args)
  BY DEF Operands
<1>3. ASSUME NEW k \in DOMAIN args
      PROVE  <<IF args[k][1] = "ptr" THEN "copy" ELSE "ref", args[k][2]>> \in Names \X Names
  <2>1. args[k][2] \in Names
    BY DEF Operands
  <2>2. QED
    BY <1>1, <2>1
<1>4. MonitorArgs(args) \in Seq(Names \X Names)
  BY <1>2, <1>3 DEF MonitorArgs
<1>5. <<"ref", "dest">> \in Names \X Names
  BY <1>1
<1>6. QED
  BY <1>4, <1>5, AppendFacts DEF Operands

LEMMA WordFacts ==
    /\ "" \in Names /\ "ref" \in Names /\ "guard" \in Names /\ "addr" \in Names
    /\ "ref_mut" \in Names /\ "place" \in Names /\ "dest" \in Names
    /\ <<>> \in Operands /\ <<>> \in Seq(Statement)
    /\ Continue \in UnwindAction /\ Terminate \in UnwindAction
<1>1. Continue \in UnwindAction /\ Terminate \in UnwindAction
  BY DEF Continue, Terminate, UnwindAction
<1>2. <<>> \in Operands /\ <<>> \in Seq(Statement)
  BY DEF Operands
<1>3. QED
  BY <1>1, <1>2, NamesAssumption, Zenon DEF Words

-----------------------------------------------------------------------------
(* What each instrumenter does to a block.                                  *)

LEMMA GrownAtFacts ==
    ASSUME NEW bd \in Body, NEW b \in 1..Len(bd), NEW x \in BasicBlock, NEW y \in BasicBlock,
           x.cleanup = bd[b].cleanup
    PROVE  LET new == Append([bd EXCEPT ![b] = x], y) IN
           GrownAt(bd, new, b) /\ new[b] = x /\ new[Len(bd) + 1] = y
<1> DEFINE new == Append([bd EXCEPT ![b] = x], y)
<1>1. /\ new \in Seq(BasicBlock) /\ Len(new) = Len(bd) + 1
      /\ new[b] = x /\ new[Len(bd) + 1] = y
      /\ \A c \in 1..Len(bd) : c # b => new[c] = bd[c]
  BY GrownSequence DEF Body
<1> HIDE DEF new
<1>2. QED
  BY <1>1 DEF GrownAt, Body, new

LEMMA EnterMoves ==
    ASSUME NEW bd \in Body, bd # <<>>
    PROVE  LET new == EnterThroughHook(bd) IN
           /\ Moved(bd, new, 1) /\ new[1].term.fn = "entry_before"
           /\ new[1].stmts = <<>> /\ new[Len(bd) + 1] = bd[1]
           /\ HookEffect(new[1].term) = Effect(<<"entry_before", "">>, <<>>, Continue)
<1>1. Len(bd) \in Nat /\ 1 \in 1..Len(bd)
  BY DEF Body
<1> DEFINE n == Len(bd) + 1
           hook == HookCall("entry_before", "", <<>>, {n}, Continue)
           x == [bd[1] EXCEPT !.stmts = <<>>, !.term = hook]
           new == Append([bd EXCEPT ![1] = x], bd[1])
<1>2. EnterThroughHook(bd) = new
  BY DEF EnterThroughHook
<1>3. /\ hook \in Terminator /\ IsHook(hook, {n}) /\ hook.fn = "entry_before"
      /\ hook.unwind = Continue /\ HookEffect(hook) = Effect(<<"entry_before", "">>, <<>>, Continue)
  <2>1. {n} \in SUBSET Nat /\ "entry_before" \in HookNames
    BY <1>1 DEF HookNames
  <2>2. /\ hook.fn = "entry_before" /\ hook.unwind = Continue
        /\ HookEffect(hook) = Effect(<<"entry_before", "">>, <<>>, Continue)
    BY DEF HookCall, HookEffect, Effect
  <2> HIDE DEF n
  <2>3. hook \in Terminator
    BY <2>1, HookCallFacts, WordFacts, Zenon
  <2>4. IsHook(hook, {n})
    BY <2>1, HookCallFacts, WordFacts, Zenon
  <2>5. QED
    BY <2>2, <2>3, <2>4, Zenon
<1> HIDE DEF hook
<1>4. bd[1] \in BasicBlock
  BY <1>1, TermFacts
<1>5. /\ x \in BasicBlock /\ x.term = hook /\ x.stmts = <<>> /\ x.cleanup = bd[1].cleanup
  BY <1>3, <1>4, WordFacts, Zenon DEF BasicBlock
<1> HIDE DEF x
<1>6. GrownAt(bd, new, 1) /\ new[1] = x /\ new[n] = bd[1]
  BY <1>1, <1>4, <1>5, GrownAtFacts
<1> HIDE DEF new, n
<1>7. Moved(bd, new, 1)
  BY <1>3, <1>5, <1>6, Zenon DEF Moved, n
<1>8. QED
  BY <1>2, <1>3, <1>5, <1>6, <1>7, Zenon DEF n

LEMMA ReturnMoves ==
    ASSUME NEW bd \in Body, NEW b \in 1..Len(bd)
    PROVE  LET new == ReturnThroughHook(bd, b) IN
           /\ Moved(bd, new, b) /\ new[b].term.fn = "entry_after"
           /\ new[b].stmts = bd[b].stmts /\ new[Len(bd) + 1].stmts = <<>>
           /\ HookEffect(new[b].term) = Effect(<<"entry_after", "">>, <<>>, Continue)
<1>1. PICK none \in Seq(Statement) : none = <<>>
  BY WordFacts, Zenon
<1> DEFINE n == Len(bd) + 1
           hook == HookCall("entry_after", "", <<>>, {n}, Continue)
           blk == [bd[b] EXCEPT !.stmts = <<>>]
           new == Patch(bd, b, none, hook, blk)
<1>2. bd[b] \in BasicBlock /\ bd[b].stmts \in Seq(Statement) /\ {n} \in SUBSET Nat
  BY TermFacts
<1>3. /\ hook \in Terminator /\ IsHook(hook, {n}) /\ hook.fn = "entry_after"
      /\ hook.unwind = Continue /\ HookEffect(hook) = Effect(<<"entry_after", "">>, <<>>, Continue)
  <2>1. "entry_after" \in HookNames
    BY DEF HookNames
  <2>2. /\ hook.fn = "entry_after" /\ hook.unwind = Continue
        /\ HookEffect(hook) = Effect(<<"entry_after", "">>, <<>>, Continue)
    BY DEF HookCall, HookEffect, Effect
  <2> HIDE DEF n
  <2>3. hook \in Terminator
    BY <1>2, <2>1, HookCallFacts, WordFacts, Zenon
  <2>4. IsHook(hook, {n})
    BY <1>2, <2>1, HookCallFacts, WordFacts, Zenon
  <2>5. QED
    BY <2>2, <2>3, <2>4, Zenon
<1>4. /\ blk \in BasicBlock /\ blk.term = bd[b].term /\ blk.cleanup = bd[b].cleanup
      /\ blk.stmts = <<>>
  BY <1>2, WordFacts, Zenon DEF BasicBlock
<1> HIDE DEF hook, blk
<1>5. /\ GrownAt(bd, new, b) /\ new[b].stmts = bd[b].stmts
      /\ new[b].term = hook /\ new[n] = blk
  <2>1. hook \in Terminator /\ blk \in BasicBlock
    BY <1>3, <1>4, Zenon
  <2>2. new[b].stmts = Joined(bd[b].stmts, none)
    BY <2>1, ApplyFacts
  <2>3. GrownAt(bd, new, b) /\ new[b].term = hook /\ new[n] = blk
    BY <1>4, <2>1, ApplyFacts
  <2>4. Joined(bd[b].stmts, <<>>) = bd[b].stmts
    BY <1>2, ConcatEmpty DEF Joined
  <2>5. QED
    BY <1>1, <2>2, <2>3, <2>4, Zenon
<1>6. ReturnThroughHook(bd, b) = new
  BY <1>1, Zenon DEF ReturnThroughHook, Patch, hook, blk
<1> HIDE DEF new, n
<1>7. Moved(bd, new, b)
  BY <1>3, <1>4, <1>5, Zenon DEF Moved, n
<1>8. QED
  BY <1>3, <1>4, <1>5, <1>6, <1>7, Zenon DEF n

CutAt(stmts, i) == SubSeq(stmts, 1, i - 1)
CutFrom(stmts, i) == SubSeq(stmts, i, Len(stmts))

(* What a memory hook in front of a location does.                          *)
MemHookEffect(what, pointer) == Effect(<<what, "">>, <<<<"addr", pointer>>>>, Terminate)

LEMMA SplitMoves ==
    ASSUME NEW bd \in Body, NEW b \in 1..Len(bd), NEW i \in 1..Len(bd[b].stmts) + 1,
           NEW hook \in {"mem_read", "mem_write"}, NEW pointer \in Names
    PROVE  LET new == SplitAtHook(bd, b, i, hook, pointer) IN
           /\ Moved(bd, new, b) /\ new[b].term.fn = hook
           /\ new[b].stmts = CutAt(bd[b].stmts, i)
           /\ new[Len(bd) + 1].stmts = CutFrom(bd[b].stmts, i)
           /\ HookEffect(new[b].term) = MemHookEffect(hook, pointer)
<1> DEFINE n == Len(bd) + 1
           call == HookCall(hook, "", <<<<"addr", pointer>>>>, {n}, Terminate)
           stmts == bd[b].stmts
           front == SubSeq(stmts, 1, i - 1)
           tail == SubSeq(stmts, i, Len(stmts))
           x == [bd[b] EXCEPT !.stmts = front, !.term = call]
           y == [bd[b] EXCEPT !.stmts = tail]
           new == Append([bd EXCEPT ![b] = x], y)
<1>1. SplitAtHook(bd, b, i, hook, pointer) = new
  BY DEF SplitAtHook
<1>2. bd[b] \in BasicBlock /\ bd[b].stmts \in Seq(Statement) /\ {n} \in SUBSET Nat
  BY TermFacts
<1>3. /\ call \in Terminator /\ IsHook(call, {n}) /\ call.fn = hook
      /\ call.unwind = Terminate /\ HookEffect(call) = MemHookEffect(hook, pointer)
  <2>1. <<<<"addr", pointer>>>> \in Operands
    BY OperandType, WordFacts, Zenon
  <2>2. hook \in HookNames
    BY DEF HookNames
  <2>3. /\ call.fn = hook /\ call.unwind = Terminate
        /\ HookEffect(call) = MemHookEffect(hook, pointer)
    BY DEF HookCall, HookEffect, Effect, MemHookEffect
  <2> HIDE DEF n
  <2>4. call \in Terminator
    BY <1>2, <2>1, <2>2, HookCallFacts, WordFacts, Zenon
  <2>5. IsHook(call, {n})
    BY <1>2, <2>1, <2>2, HookCallFacts, WordFacts, Zenon
  <2>6. QED
    BY <2>3, <2>4, <2>5, Zenon
<1>4. /\ front \in Seq(Statement) /\ Len(front) = i - 1 /\ tail \in Seq(Statement)
      /\ \A j \in 1..i - 1 : front[j] = stmts[j]
  BY <1>2, CutFacts
<1> HIDE DEF call, front, tail
<1>5. /\ x \in BasicBlock /\ x.stmts = front /\ x.term = call /\ x.cleanup = bd[b].cleanup
      /\ y \in BasicBlock /\ y.term = bd[b].term /\ y.cleanup = bd[b].cleanup
      /\ y.stmts = tail
  BY <1>2, <1>3, <1>4, Zenon DEF BasicBlock
<1> HIDE DEF x, y
<1>6. GrownAt(bd, new, b) /\ new[b] = x /\ new[n] = y
  BY <1>5, GrownAtFacts
<1> HIDE DEF new, n
<1>7. call.fn # "after" /\ call.unwind \in {Continue, Terminate, bd[b].term.unwind}
  BY <1>3
<1>8. Moved(bd, new, b)
  BY <1>3, <1>5, <1>6, <1>7 DEF Moved, n
<1>9. front = CutAt(bd[b].stmts, i) /\ tail = CutFrom(bd[b].stmts, i)
  BY DEF CutAt, CutFrom, front, tail
<1>10. QED
  BY <1>1, <1>3, <1>5, <1>6, <1>8, <1>9 DEF n

(* The same of the body under a name.                                       *)
SplitInto(bd, new, b, i, hook, pointer) ==
    /\ Moved(bd, new, b) /\ new[b].term.fn = hook
    /\ new[b].stmts = CutAt(bd[b].stmts, i)
    /\ new[Len(bd) + 1].stmts = CutFrom(bd[b].stmts, i)
    /\ HookEffect(new[b].term) = MemHookEffect(hook, pointer)

LEMMA SplitSplits ==
    ASSUME NEW bd \in Body, NEW b \in 1..Len(bd), NEW i \in 1..Len(bd[b].stmts) + 1,
           NEW hook \in {"mem_read", "mem_write"}, NEW pointer \in Names
    PROVE  SplitInto(bd, SplitAtHook(bd, b, i, hook, pointer), b, i, hook, pointer)
BY SplitMoves DEF SplitInto

LEMMA CallBeforeFacts ==
    ASSUME NEW bd \in Body, NEW b \in 1..Len(bd), NEW name \in Names, ~bd[b].cleanup
    PROVE  LET moved == CallBefore(bd, b, name)
               call == bd[b].term
           IN  IF name \notin lib.before THEN moved.body = bd /\ moved.block = b
               ELSE /\ moved.block = Len(bd) + 1 /\ Moved(bd, moved.body, b)
                    /\ moved.body[b].term.fn = "before"
                    /\ moved.body[b].term.args = MonitorArgs(call.args)
<1> DEFINE n == Len(bd) + 1
           call == bd[b].term
           blk == [stmts |-> <<>>, term |-> call, cleanup |-> FALSE]
           new == InFront(bd, b, ArgRefs(call.args), name, MonitorArgs(call.args), blk)
<1>1. CASE name \notin lib.before
  BY <1>1 DEF CallBefore
<1>2. CASE name \in lib.before
  <2>1. CallBefore(bd, b, name) = [body |-> new, block |-> n]
    BY <1>2 DEF CallBefore, InFront, Patch
  <2>2. /\ call \in Terminator /\ call.args \in Operands /\ bd[b].cleanup = FALSE
    BY TermFacts
  <2>3. blk \in BasicBlock /\ blk.term = call /\ blk.cleanup = bd[b].cleanup
    BY <2>2, WordFacts, Zenon DEF BasicBlock
  <2>4. ArgRefs(call.args) \in Seq(Statement) /\ MonitorArgs(call.args) \in Operands
    BY <2>2, ArgRefsType, MonitorArgsType
  <2> HIDE DEF blk
  <2>5. /\ Moved(bd, new, b) /\ new[b].term.fn = "before"
        /\ new[b].term.args = MonitorArgs(call.args)
    BY <2>3, <2>4, HookInFront
  <2> HIDE DEF new, n
  <2>6. QED
    BY <1>2, <2>1, <2>5 DEF n
<1>3. QED
  BY <1>1, <1>2

LEMMA CallAfterFacts ==
    ASSUME NEW bd \in Body, NEW b \in 1..Len(bd), NEW name \in Names
    PROVE  LET new == CallAfter(bd, b, name)
               n == Len(bd) + 1
           IN  IF name \notin lib.after THEN new = bd
               ELSE /\ Followed(bd, new, b) /\ new[n].term.of = name
                    /\ new[n].term.args = Append(MonitorArgs(bd[b].term.args), <<"ref", "dest">>)
<1> DEFINE call == bd[b].term
           args == Append(MonitorArgs(call.args), <<"ref", "dest">>)
<1>1. CASE name \notin lib.after
  BY <1>1 DEF CallAfter
<1>2. CASE name \in lib.after
  <2>1. call \in Terminator /\ call.args \in Operands
    BY TermFacts
  <2>2. ArgRefs(call.args) \in Seq(Statement) /\ args \in Operands
    BY <2>1, ArgRefsType, MonitorArgsType
  <2>3. DestRef \in Statement
    <3>1. <<"ref_mut">> \in Seq(Names)
      <4>1. "ref_mut" \in Names
        BY WordFacts, Zenon
      <4>2. QED
        BY <4>1
    <3>2. <<<<"place", "dest">>>> \in Operands
      BY WordFacts, OperandType, Zenon
    <3>3. QED
      BY <3>1, <3>2, InsertedType, Zenon DEF DestRef
  <2>4. PICK refs \in Seq(Statement) : refs = <<DestRef>>
    <3>1. <<DestRef>> \in Seq(Statement)
      BY <2>3
    <3>2. QED
      BY <3>1, Zenon
  <2> HIDE DEF args
  <2> DEFINE new == Behind(bd, b, ArgRefs(call.args), name, args, refs)
  <2>5. /\ Followed(bd, new, b) /\ new[Len(bd) + 1].term.of = name
        /\ new[Len(bd) + 1].term.args = args
    BY <2>2, HookBehind
  <2>6. CallAfter(bd, b, name) = new
    BY <1>2, <2>4, Zenon DEF CallAfter, Behind, Patch, args
  <2> HIDE DEF new
  <2>7. QED
    BY <1>2, <2>5, <2>6, Zenon DEF args
<1>3. QED
  BY <1>1, <1>2

LEMMA GuardTypesAreTyped ==
    /\ <<<<"ref", "guard">>>> \in Operands
    /\ \E refs \in Seq(Statement) : refs = <<GuardRef>>
<1>1. <<<<"ref", "guard">>>> \in Operands /\ <<<<"place", "guard">>>> \in Operands
  BY WordFacts, OperandType, Zenon
<1>2. <<"ref">> \in Seq(Names)
  <2>1. "ref" \in Names
    BY WordFacts, Zenon
  <2>2. QED
    BY <2>1
<1>3. GuardRef \in Statement
  BY <1>1, <1>2, InsertedType, Zenon DEF GuardRef
<1>4. <<GuardRef>> \in Seq(Statement)
  BY <1>3
<1>5. QED
  BY <1>1, <1>4, Zenon

LEMMA DropBeforeFacts ==
    ASSUME NEW bd \in Body, NEW b \in 1..Len(bd), NEW name
    PROVE  LET moved == DropBefore(bd, b, name)
           IN  IF name \notin lib.before THEN moved.body = bd /\ moved.block = b
               ELSE /\ moved.block = Len(bd) + 1 /\ Moved(bd, moved.body, b)
                    /\ moved.body[b].term.fn = "before"
                    /\ moved.body[b].term.args = <<<<"ref", "guard">>>>
<1>1. PICK refs \in Seq(Statement) : refs = <<GuardRef>>
  BY GuardTypesAreTyped, Zenon
<1>2. PICK args \in Operands : args = <<<<"ref", "guard">>>>
  BY GuardTypesAreTyped, Zenon
<1> DEFINE n == Len(bd) + 1
           drop == bd[b].term
           blk == [bd[b] EXCEPT !.stmts = <<>>]
           new == InFront(bd, b, refs, drop.of, args, blk)
<1>3. CASE name \notin lib.before
  BY <1>3 DEF DropBefore
<1>4. CASE name \in lib.before
  <2>1. DropBefore(bd, b, name) = [body |-> new, block |-> n]
    BY <1>1, <1>2, <1>4, Zenon DEF DropBefore, DropHook, InFront, Patch
  <2>2. bd[b] \in BasicBlock /\ drop.of \in Names
    BY TermFacts
  <2>3. blk \in BasicBlock /\ blk.term = bd[b].term /\ blk.cleanup = bd[b].cleanup
    BY <2>2, WordFacts, Zenon DEF BasicBlock
  <2> HIDE DEF blk
  <2>4. Moved(bd, new, b) /\ new[b].term.fn = "before" /\ new[b].term.args = args
    BY <2>2, <2>3, HookInFront
  <2> HIDE DEF new, n
  <2>5. /\ DropBefore(bd, b, name).body = new /\ DropBefore(bd, b, name).block = n
    BY <2>1
  <2>6. QED
    BY <1>2, <1>4, <2>4, <2>5, Zenon DEF n
<1>5. QED
  BY <1>3, <1>4

LEMMA DropAfterFacts ==
    ASSUME NEW bd \in Body, NEW b \in 1..Len(bd), NEW name
    PROVE  LET new == DropAfter(bd, b, name)
               n == Len(bd) + 1
           IN  IF name \notin lib.after THEN new = bd
               ELSE /\ Followed(bd, new, b) /\ new[n].term.of = bd[b].term.of
                    /\ new[n].term.args = <<<<"ref", "guard">>>>
<1>1. PICK refs \in Seq(Statement) : refs = <<GuardRef>>
  BY GuardTypesAreTyped, Zenon
<1>2. PICK args \in Operands : args = <<<<"ref", "guard">>>>
  BY GuardTypesAreTyped, Zenon
<1>3. PICK none \in Seq(Statement) : none = <<>>
  BY WordFacts, Zenon
<1> DEFINE drop == bd[b].term
           new == Behind(bd, b, refs, drop.of, args, none)
<1>4. CASE name \notin lib.after
  BY <1>4 DEF DropAfter
<1>5. CASE name \in lib.after
  <2>1. DropAfter(bd, b, name) = new
    BY <1>1, <1>2, <1>3, <1>5, Zenon DEF DropAfter, DropHook, Behind, Patch
  <2>2. drop.of \in Names
    BY TermFacts
  <2>3. /\ Followed(bd, new, b) /\ new[Len(bd) + 1].term.of = drop.of
        /\ new[Len(bd) + 1].term.args = args
    BY <2>2, HookBehind
  <2> HIDE DEF new
  <2>4. QED
    BY <1>2, <1>5, <2>1, <2>3, Zenon
<1>6. QED
  BY <1>4, <1>5

-----------------------------------------------------------------------------
(* What stays true of a body through every edit.                            *)

(* A block whose terminator is a hook on the drop of a guard.               *)
AfterDrop(blk) ==
    blk.term.at = Nowhere /\ blk.term.fn = "after" /\ blk.term.of \in GuardTypes

(* Only an after-drop hook joins cleanup and other blocks.                  *)
Closed(bd) ==
    \A b \in Blocks(bd) :
        /\ bd[b].term.to \subseteq Blocks(bd) \ {1}
        /\ bd[b].term.unwind.act = "cleanup" =>
              /\ bd[b].term.unwind.block \in Blocks(bd)
              /\ bd[bd[b].term.unwind.block].cleanup
        /\ \A t \in bd[b].term.to :
              /\ bd[b].cleanup /\ ~bd[t].cleanup => AfterDrop(bd[t])
              /\ bd[t].cleanup /\ ~bd[b].cleanup => AfterDrop(bd[b])

OneModeEach(args) ==
    \A j, k \in DOMAIN args : args[j][2] = args[k][2] => args[j][1] = args[k][1]

(* What a terminator is, whichever block it has moved to.                   *)
GoodTerm(term, cleanup, src) ==
    /\ term.at # Nowhere => OneModeEach(term.args)
    /\ term.at = Nowhere => term.kind = "call" /\ term.fn \in HookNames
    /\ term.fn \in CallTargets =>
          /\ ~cleanup
          /\ term.fn \notin WaitsOnCondvar => \A k \in DOMAIN term.args : term.args[k][1] # "val"
    /\ term.fn \in DropInPlace => \E b \in Blocks(src) : src[b].term.fn \in DropInPlace
GoodTerms(bd, src) == \A b \in Blocks(bd) : GoodTerm(bd[b].term, bd[b].cleanup, src)

(* HooksSeeLiveValues of any body.                                          *)
Taken(args, modes) == {a[2] : a \in {x \in ToSet(args) : x[1] \in modes}}
Spared(hook, item) == Taken(hook.args, {"copy", "move"}) \cap Values(item) = {}
LateOnly(hook, item) ==
    Taken(hook.args, {"ref"}) \cap Values(item) # {} =>
        hook.of \in WaitsOnCondvar \cup GuardTypes
Live(bd) ==
    \A h, b \in Blocks(bd) :
        bd[h].term.at = Nowhere /\ bd[b].term.at # Nowhere =>
            /\ bd[h].term.fn = "before" /\ b \in bd[h].term.to =>
                  Spared(bd[h].term, bd[b].term)
            /\ bd[h].term.fn = "after" /\ h \in bd[b].term.to =>
                  Spared(bd[h].term, bd[b].term) /\ LateOnly(bd[h].term, bd[b].term)

Sound(bd, src) == bd \in Body /\ Closed(bd) /\ GoodTerms(bd, src) /\ Live(bd)

(* Neither a before nor an after hook, or the user's own terminator.        *)
Editable(bd, b) ==
    bd[b].term.at # Nowhere \/ bd[b].term.fn \notin {"before", "after"}
NoCallHooks(bd) == \A b \in Blocks(bd) : Editable(bd, b)

LEMMA MovedClosed ==
    ASSUME NEW bd \in Body, NEW b \in 1..Len(bd), NEW new, Moved(bd, new, b),
           Editable(bd, b), Closed(bd)
    PROVE  Closed(new)
<1> DEFINE n == Len(bd) + 1
<1>1. /\ Blocks(bd) = 1..Len(bd) /\ Len(bd) \in Nat /\ n \in Nat /\ n > 1
      /\ Blocks(new) = 1..n /\ n \notin 1..Len(bd) /\ 1..n = 1..Len(bd) \cup {n}
  BY BlocksOf DEF Moved, GrownAt
<1>2. /\ \A c \in 1..Len(bd) : c # b => new[c] = bd[c]
      /\ new[b].cleanup = bd[b].cleanup /\ new[b].term.to = {n}
      /\ new[b].term.unwind \in {Continue, Terminate, bd[b].term.unwind}
      /\ new[n].term = bd[b].term /\ new[n].cleanup = bd[b].cleanup
  BY DEF Moved, GrownAt, IsHook
<1>3. ~AfterDrop(bd[b])
  BY DEF Editable, AfterDrop
<1>4. \A c \in 1..Len(bd) : new[c].cleanup = bd[c].cleanup
  BY <1>2
<1> HIDE DEF n
<1>5. ASSUME NEW c \in 1..n
      PROVE  /\ new[c].term.to \subseteq (1..n) \ {1}
             /\ new[c].term.unwind.act = "cleanup" =>
                   /\ new[c].term.unwind.block \in 1..n
                   /\ new[new[c].term.unwind.block].cleanup
             /\ \A t \in new[c].term.to :
                   /\ new[c].cleanup /\ ~new[t].cleanup => AfterDrop(new[t])
                   /\ new[t].cleanup /\ ~new[c].cleanup => AfterDrop(new[c])
  <2>1. CASE c = b
    <3>1. \A t \in new[c].term.to : new[t].cleanup = new[c].cleanup
      BY <1>2, <2>1
    <3>2. new[c].term.to \subseteq (1..n) \ {1}
      BY <1>1, <1>2, <2>1
    <3>3. ASSUME new[c].term.unwind.act = "cleanup"
          PROVE  new[c].term.unwind.block \in 1..n /\ new[new[c].term.unwind.block].cleanup
      <4>1. new[c].term.unwind = bd[b].term.unwind
        BY <1>2, <2>1, <3>3 DEF Continue, Terminate
      <4>2. bd[b].term.unwind.block \in 1..Len(bd) /\ bd[bd[b].term.unwind.block].cleanup
        BY <1>1, <3>3, <4>1 DEF Closed
      <4>3. QED
        BY <1>1, <1>4, <4>1, <4>2, Zenon
    <3>4. QED
      BY <3>1, <3>2, <3>3
  <2>2. CASE c # b
    <3>1. PICK o \in 1..Len(bd) : /\ new[c].term = bd[o].term /\ new[c].cleanup = bd[o].cleanup
                                  /\ AfterDrop(new[c]) <=> AfterDrop(bd[o])
      <4>1. CASE c = n
        BY <1>2, <4>1 DEF AfterDrop
      <4>2. CASE c \in 1..Len(bd)
        BY <1>2, <2>2, <4>2 DEF AfterDrop
      <4>3. QED
        BY <1>1, <4>1, <4>2
    <3>2. bd[o].term.to \subseteq (1..Len(bd)) \ {1}
      BY <1>1 DEF Closed
    <3>3. ASSUME new[c].term.unwind.act = "cleanup"
          PROVE  new[c].term.unwind.block \in 1..n /\ new[new[c].term.unwind.block].cleanup
      <4>1. bd[o].term.unwind.block \in 1..Len(bd) /\ bd[bd[o].term.unwind.block].cleanup
        BY <1>1, <3>1, <3>3 DEF Closed
      <4>2. QED
        BY <1>1, <1>4, <3>1, <4>1, Zenon
    <3>4. ASSUME NEW t \in new[c].term.to
          PROVE  /\ new[c].cleanup /\ ~new[t].cleanup => AfterDrop(new[t])
                 /\ new[t].cleanup /\ ~new[c].cleanup => AfterDrop(new[c])
      <4>1. t \in 1..Len(bd) /\ t \in bd[o].term.to /\ new[t].cleanup = bd[t].cleanup
        BY <1>4, <3>1, <3>2
      <4>2. /\ bd[o].cleanup /\ ~bd[t].cleanup => AfterDrop(bd[t])
            /\ bd[t].cleanup /\ ~bd[o].cleanup => AfterDrop(bd[o])
        BY <1>1, <4>1, Zenon DEF Closed
      <4>3. AfterDrop(bd[t]) => AfterDrop(new[t])
        BY <1>2, <1>3, <4>1
      <4>4. QED
        BY <3>1, <4>1, <4>2, <4>3
    <3>5. QED
      BY <1>1, <3>1, <3>2, <3>3, <3>4
  <2>3. QED
    BY <2>1, <2>2
<1>6. QED
  BY <1>1, <1>5 DEF Closed

LEMMA FollowedClosed ==
    ASSUME NEW bd \in Body, NEW b \in 1..Len(bd), NEW new, Followed(bd, new, b),
           Editable(bd, b), Closed(bd),
           bd[b].cleanup => new[Len(bd) + 1].term.of \in GuardTypes
    PROVE  Closed(new)
<1> DEFINE n == Len(bd) + 1
<1>1. /\ Blocks(bd) = 1..Len(bd) /\ Len(bd) \in Nat /\ n \in Nat /\ n > 1
      /\ Blocks(new) = 1..n /\ n \notin 1..Len(bd) /\ 1..n = 1..Len(bd) \cup {n}
  BY BlocksOf DEF Followed, GrownAt
<1>2. /\ \A c \in 1..Len(bd) : c # b => new[c] = bd[c]
      /\ new[b].cleanup = bd[b].cleanup
      /\ new[b].term = [bd[b].term EXCEPT !.to = {n}]
      /\ new[n].term.unwind = bd[b].term.unwind
      /\ new[n].term.to = bd[b].term.to /\ new[n].term.fn = "after" /\ new[n].term.at = Nowhere
      /\ ~new[n].cleanup /\ (bd[b].cleanup => new[n].term.of \in GuardTypes)
  BY DEF Followed, GrownAt, IsHook
<1>3. new[b].term.to = {n} /\ new[b].term.unwind = bd[b].term.unwind
  <2>1. bd[b].term \in Terminator
    BY TermFacts
  <2>2. QED
    BY <1>2, <2>1 DEF Terminator
<1>4. ~AfterDrop(bd[b]) /\ (bd[b].cleanup => AfterDrop(new[n]))
  BY <1>2 DEF Editable, AfterDrop
<1>5. \A c \in 1..Len(bd) : new[c].cleanup = bd[c].cleanup
  BY <1>2
<1> HIDE DEF n
<1>6. ASSUME NEW c \in 1..n
      PROVE  /\ new[c].term.to \subseteq (1..n) \ {1}
             /\ new[c].term.unwind.act = "cleanup" =>
                   /\ new[c].term.unwind.block \in 1..n
                   /\ new[new[c].term.unwind.block].cleanup
             /\ \A t \in new[c].term.to :
                   /\ new[c].cleanup /\ ~new[t].cleanup => AfterDrop(new[t])
                   /\ new[t].cleanup /\ ~new[c].cleanup => AfterDrop(new[c])
  <2>1. PICK o \in 1..Len(bd) : /\ new[c].term.unwind = bd[o].term.unwind
                                /\ o = IF c = n THEN b ELSE c
    <3>1. CASE c = n
      BY <1>2, <3>1
    <3>2. CASE c \in 1..Len(bd)
      BY <1>1, <1>2, <1>3, <3>2, Zenon
    <3>3. QED
      BY <1>1, <3>1, <3>2
  <2>2. ASSUME new[c].term.unwind.act = "cleanup"
        PROVE  new[c].term.unwind.block \in 1..n /\ new[new[c].term.unwind.block].cleanup
    <3>1. bd[o].term.unwind.block \in 1..Len(bd) /\ bd[bd[o].term.unwind.block].cleanup
      BY <1>1, <2>1, <2>2, Zenon DEF Closed
    <3>2. QED
      BY <1>1, <1>5, <2>1, <3>1, Zenon
  <2>3. bd[o].term.to \subseteq (1..Len(bd)) \ {1}
    BY <1>1 DEF Closed
  <2>4. /\ new[c].term.to \subseteq (1..n) \ {1}
        /\ \A t \in new[c].term.to :
              /\ new[c].cleanup /\ ~new[t].cleanup => AfterDrop(new[t])
              /\ new[t].cleanup /\ ~new[c].cleanup => AfterDrop(new[c])
    <3>1. CASE c = b
      <4>1. new[b].cleanup => AfterDrop(new[n])
        BY <1>2, <1>4, Zenon
      <4>2. new[b].term.to = {n} /\ {n} \subseteq (1..n) \ {1} /\ ~new[n].cleanup
        BY <1>1, <1>2, <1>3
      <4>3. QED
        BY <3>1, <4>1, <4>2
    <3>2. CASE c = n
      <4>1. o = b
        BY <2>1, <3>2
      <4>2. ASSUME NEW t \in bd[b].term.to
            PROVE  new[t].cleanup => AfterDrop(new[n])
        <5>1. t \in 1..Len(bd) /\ new[t].cleanup = bd[t].cleanup
          BY <1>5, <2>3, <4>1
        <5>2. bd[t].cleanup /\ ~bd[b].cleanup => AfterDrop(bd[b])
          BY <1>1, <5>1 DEF Closed
        <5>3. QED
          BY <1>4, <5>1, <5>2
      <4>3. QED
        BY <1>1, <1>2, <2>3, <3>2, <4>1, <4>2
    <3>3. CASE c # b /\ c # n
      <4>1. o = c /\ c \in 1..Len(bd) /\ new[c] = bd[c]
        BY <1>1, <1>2, <2>1, <3>3
      <4>2. ASSUME NEW t \in bd[c].term.to
            PROVE  /\ bd[c].cleanup /\ ~new[t].cleanup => AfterDrop(new[t])
                   /\ new[t].cleanup /\ ~bd[c].cleanup => AfterDrop(bd[c])
        <5>1. t \in 1..Len(bd) /\ new[t].cleanup = bd[t].cleanup
          BY <1>5, <2>3, <4>1
        <5>2. /\ bd[c].cleanup /\ ~bd[t].cleanup => AfterDrop(bd[t])
              /\ bd[t].cleanup /\ ~bd[c].cleanup => AfterDrop(bd[c])
          BY <1>1, <4>1, <5>1, Zenon DEF Closed
        <5>3. AfterDrop(bd[t]) => AfterDrop(new[t])
          BY <1>2, <1>4, <5>1
        <5>4. QED
          BY <5>1, <5>2, <5>3
      <4>3. QED
        BY <1>1, <2>3, <4>1, <4>2
    <3>4. QED
      BY <3>1, <3>2, <3>3
  <2>5. QED
    BY <2>2, <2>4
<1>7. QED
  BY <1>1, <1>6, Zenon DEF Closed

(* The hooks' names are no one else's.                                      *)
LEMMA HooksAreNoTargets ==
    ASSUME NEW fn \in HookNames
    PROVE  fn \notin CallTargets /\ fn \notin DropInPlace /\ fn \notin MemDrop
BY DEF HookNames, CallTargets, DropInPlace, MemDrop

LEMMA HookIsGood ==
    ASSUME NEW term, NEW to, NEW cleanup, NEW src, IsHook(term, to)
    PROVE  GoodTerm(term, cleanup, src)
BY HooksAreNoTargets DEF IsHook, GoodTerm

LEMMA MovedGood ==
    ASSUME NEW bd \in Body, NEW b \in 1..Len(bd), NEW new, NEW src,
           Moved(bd, new, b), GoodTerms(bd, src)
    PROVE  GoodTerms(new, src)
<1> DEFINE n == Len(bd) + 1
<1>1. /\ Blocks(bd) = 1..Len(bd) /\ Len(bd) \in Nat /\ Blocks(new) = 1..n
      /\ 1..n = 1..Len(bd) \cup {n}
  BY BlocksOf DEF Moved, GrownAt
<1>2. /\ \A c \in 1..Len(bd) : c # b => new[c] = bd[c]
      /\ IsHook(new[b].term, {n})
      /\ new[n].term = bd[b].term /\ new[n].cleanup = bd[b].cleanup
  BY DEF Moved, GrownAt
<1> HIDE DEF n
<1>3. GoodTerm(new[b].term, new[b].cleanup, src)
  BY <1>2, HookIsGood
<1>4. \A c \in 1..Len(bd) : GoodTerm(bd[c].term, bd[c].cleanup, src)
  BY <1>1 DEF GoodTerms
<1>5. GoodTerm(new[n].term, new[n].cleanup, src)
  BY <1>2, <1>4
<1>6. QED
  BY <1>1, <1>2, <1>3, <1>4, <1>5 DEF GoodTerms

LEMMA FollowedGood ==
    ASSUME NEW bd \in Body, NEW b \in 1..Len(bd), NEW new, NEW src,
           Followed(bd, new, b), GoodTerms(bd, src)
    PROVE  GoodTerms(new, src)
<1> DEFINE n == Len(bd) + 1
<1>1. /\ Blocks(bd) = 1..Len(bd) /\ Len(bd) \in Nat /\ Blocks(new) = 1..n
      /\ 1..n = 1..Len(bd) \cup {n}
  BY BlocksOf DEF Followed, GrownAt
<1>2. /\ \A c \in 1..Len(bd) : c # b => new[c] = bd[c]
      /\ new[b].term = [bd[b].term EXCEPT !.to = {n}] /\ new[b].cleanup = bd[b].cleanup
      /\ IsHook(new[n].term, bd[b].term.to)
  BY DEF Followed, GrownAt
<1> HIDE DEF n
<1>3. \A c \in 1..Len(bd) : GoodTerm(bd[c].term, bd[c].cleanup, src)
  BY <1>1 DEF GoodTerms
<1>4. GoodTerm(new[n].term, new[n].cleanup, src)
  BY <1>2, HookIsGood
<1>5. GoodTerm(new[b].term, new[b].cleanup, src)
  <2>1. bd[b].term \in Terminator
    BY TermFacts
  <2>2. LET term == new[b].term
            old == bd[b].term
        IN  /\ term.at = old.at /\ term.kind = old.kind /\ term.fn = old.fn
            /\ term.args = old.args
    BY <1>2, <2>1, Redirected
  <2>3. GoodTerm(bd[b].term, bd[b].cleanup, src)
    BY <1>3
  <2>4. QED
    BY <1>2, <2>2, <2>3 DEF GoodTerm
<1>6. QED
  BY <1>1, <1>2, <1>3, <1>4, <1>5 DEF GoodTerms

LEMMA MovedLive ==
    ASSUME NEW bd \in Body, NEW b \in 1..Len(bd), NEW new, Moved(bd, new, b),
           Editable(bd, b), Closed(bd), Live(bd),
           new[b].term.fn = "before" => Spared(new[b].term, bd[b].term)
    PROVE  Live(new)
<1> DEFINE n == Len(bd) + 1
<1>1. /\ Blocks(bd) = 1..Len(bd) /\ Len(bd) \in Nat /\ Blocks(new) = 1..n
      /\ n \notin 1..Len(bd) /\ 1..n = 1..Len(bd) \cup {n}
  BY BlocksOf, SMTT(30) DEF Moved, GrownAt
<1>2. /\ \A c \in 1..Len(bd) : c # b => new[c] = bd[c]
      /\ new[b].term.at = Nowhere /\ new[b].term.to = {n} /\ new[b].term.fn # "after"
      /\ new[n].term = bd[b].term
  BY DEF Moved, GrownAt, IsHook
<1>3. \A c \in 1..Len(bd) : bd[c].term.to \subseteq 1..Len(bd)
  BY <1>1 DEF Closed
<1> HIDE DEF n
<1>4. ASSUME NEW h \in 1..n, NEW u \in 1..n,
             new[h].term.at = Nowhere, new[u].term.at # Nowhere
      PROVE  /\ new[h].term.fn = "before" /\ u \in new[h].term.to =>
                   Spared(new[h].term, new[u].term)
             /\ new[h].term.fn = "after" /\ h \in new[u].term.to =>
                   Spared(new[h].term, new[u].term) /\ LateOnly(new[h].term, new[u].term)
  <2>1. u # b
    BY <1>2, <1>4
  <2>2. CASE h = b
    <3>1. ASSUME new[b].term.fn = "before", u \in new[b].term.to
          PROVE  Spared(new[b].term, new[u].term)
      <4>1. new[u].term = bd[b].term
        BY <1>2, <3>1
      <4>2. QED
        BY <3>1, <4>1
    <3>2. QED
      BY <1>2, <2>2, <3>1
  <2>3. CASE h = n
    <3>1. new[h].term.fn \notin {"before", "after"}
      BY <1>2, <1>4, <2>3 DEF Editable
    <3>2. QED
      BY <3>1
  <2>4. CASE h # b /\ h # n
    <3>1. h \in 1..Len(bd) /\ new[h] = bd[h]
      BY <1>1, <1>2, <2>4
    <3>2. PICK o \in 1..Len(bd) : new[u].term = bd[o].term /\ (u # n => u = o)
      BY <1>1, <1>2, <2>1
    <3>3. u \in new[h].term.to => u = o
      BY <1>1, <1>3, <3>1, <3>2
    <3>4. /\ bd[h].term.fn = "before" /\ o \in bd[h].term.to => Spared(bd[h].term, bd[o].term)
          /\ bd[h].term.fn = "after" /\ h \in bd[o].term.to =>
                Spared(bd[h].term, bd[o].term) /\ LateOnly(bd[h].term, bd[o].term)
      BY <1>1, <1>4, <3>1, <3>2, Zenon DEF Live
    <3>5. QED
      BY <3>1, <3>2, <3>3, <3>4
  <2>5. QED
    BY <2>2, <2>3, <2>4
<1>5. QED
  BY <1>1, <1>4 DEF Live

LEMMA RedirectedValues ==
    ASSUME NEW term \in Terminator, NEW to
    PROVE  Values([term EXCEPT !.to = to]) = Values(term)
<1> DEFINE new == [term EXCEPT !.to = to]
<1>1. new.kind = term.kind /\ new.args = term.args
  BY Redirected
<1> HIDE DEF new
<1>2. Values(new) = Values(term)
  BY <1>1 DEF Values
<1>3. QED
  BY <1>2 DEF new

LEMMA FollowedLive ==
    ASSUME NEW bd \in Body, NEW b \in 1..Len(bd), NEW new, Followed(bd, new, b),
           bd[b].term.at # Nowhere, Closed(bd), Live(bd),
           Spared(new[Len(bd) + 1].term, bd[b].term),
           LateOnly(new[Len(bd) + 1].term, bd[b].term)
    PROVE  Live(new)
<1> DEFINE n == Len(bd) + 1
<1>1. /\ Blocks(bd) = 1..Len(bd) /\ Len(bd) \in Nat /\ Blocks(new) = 1..n
      /\ n \notin 1..Len(bd) /\ 1..n = 1..Len(bd) \cup {n}
  BY BlocksOf DEF Followed, GrownAt
<1>2. /\ \A c \in 1..Len(bd) : c # b => new[c] = bd[c]
      /\ new[b].term = [bd[b].term EXCEPT !.to = {n}]
      /\ new[n].term.at = Nowhere /\ new[n].term.fn = "after"
  BY DEF Followed, GrownAt, IsHook
<1>3. \A c \in 1..Len(bd) : bd[c].term.to \subseteq 1..Len(bd)
  BY <1>1 DEF Closed
<1>4. Spared(new[n].term, bd[b].term) /\ LateOnly(new[n].term, bd[b].term)
  OBVIOUS
<1> HIDE DEF n
<1>5. bd[b].term \in Terminator
  BY TermFacts
<1>6. new[b].term.at = bd[b].term.at /\ new[b].term.to = {n}
  BY <1>2, <1>5, Redirected
<1>7. \A hook : /\ Spared(hook, new[b].term) <=> Spared(hook, bd[b].term)
                /\ LateOnly(hook, new[b].term) <=> LateOnly(hook, bd[b].term)
  <2>1. Values(new[b].term) = Values(bd[b].term)
    <3>1. Values([bd[b].term EXCEPT !.to = {n}]) = Values(bd[b].term)
      BY <1>5, RedirectedValues, Zenon
    <3>2. QED
      BY <1>2, <3>1, Zenon
  <2>2. QED
    BY <2>1 DEF Spared, LateOnly
<1>8. ASSUME NEW h \in 1..n, NEW u \in 1..n,
             new[h].term.at = Nowhere, new[u].term.at # Nowhere
      PROVE  /\ new[h].term.fn = "before" /\ u \in new[h].term.to =>
                   Spared(new[h].term, new[u].term)
             /\ new[h].term.fn = "after" /\ h \in new[u].term.to =>
                   Spared(new[h].term, new[u].term) /\ LateOnly(new[h].term, new[u].term)
  <2>1. u \in 1..Len(bd) /\ bd[u].term.at # Nowhere /\ h # b
    BY <1>1, <1>2, <1>6, <1>8, Zenon
  <2>2. CASE h = n
    <3>1. n \in new[u].term.to => u = b
      BY <1>1, <1>2, <1>3, <2>1
    <3>2. QED
      BY <1>2, <1>4, <1>7, <2>2, <3>1, Zenon
  <2>3. CASE h # n
    <3>1. h \in 1..Len(bd) /\ new[h] = bd[h]
      BY <1>1, <1>2, <2>1, <2>3
    <3>2. /\ bd[h].term.fn = "before" /\ u \in bd[h].term.to => Spared(bd[h].term, bd[u].term)
          /\ bd[h].term.fn = "after" /\ h \in bd[u].term.to =>
                Spared(bd[h].term, bd[u].term) /\ LateOnly(bd[h].term, bd[u].term)
      BY <1>1, <1>8, <2>1, <3>1, Zenon DEF Live
    <3>3. CASE u = b
      <4>1. h \notin new[u].term.to
        BY <1>6, <2>3, <3>3
      <4>2. QED
        BY <1>7, <3>1, <3>2, <3>3, <4>1
    <3>4. CASE u # b
      <4>1. new[u] = bd[u]
        BY <1>2, <2>1, <3>4
      <4>2. QED
        BY <3>1, <3>2, <4>1
    <3>5. QED
      BY <3>3, <3>4
  <2>4. QED
    BY <2>2, <2>3
<1>9. QED
  BY <1>1, <1>8 DEF Live

(* The three edits keep a body sound.                                       *)
LEMMA MovedSound ==
    ASSUME NEW bd, NEW src, Sound(bd, src), NEW b \in 1..Len(bd), NEW new, Moved(bd, new, b),
           Editable(bd, b), new[b].term.fn = "before" => Spared(new[b].term, bd[b].term)
    PROVE  Sound(new, src)
<1>1. bd \in Body /\ Closed(bd) /\ GoodTerms(bd, src) /\ Live(bd)
  BY DEF Sound
<1>2. new \in Body
  BY DEF Moved, GrownAt
<1>3. Closed(new) /\ Live(new) /\ GoodTerms(new, src)
  BY <1>1, MovedClosed, MovedLive, MovedGood
<1>4. QED
  BY <1>2, <1>3 DEF Sound

LEMMA FollowedSound ==
    ASSUME NEW bd, NEW src, Sound(bd, src), NEW b \in 1..Len(bd), NEW new,
           Followed(bd, new, b), bd[b].term.at # Nowhere,
           bd[b].cleanup => new[Len(bd) + 1].term.of \in GuardTypes,
           Spared(new[Len(bd) + 1].term, bd[b].term),
           LateOnly(new[Len(bd) + 1].term, bd[b].term)
    PROVE  Sound(new, src)
<1>1. bd \in Body /\ Closed(bd) /\ GoodTerms(bd, src) /\ Live(bd)
  BY DEF Sound
<1>2. new \in Body /\ Editable(bd, b)
  BY DEF Followed, GrownAt, Editable
<1>3. Closed(new) /\ Live(new) /\ GoodTerms(new, src)
  BY <1>1, <1>2, FollowedClosed, FollowedLive, FollowedGood
<1>4. QED
  BY <1>2, <1>3 DEF Sound

LEMMA RestatedSound ==
    ASSUME NEW bd, NEW src, Sound(bd, src), NEW b \in 1..Len(bd), NEW new, Restated(bd, new, b)
    PROVE  Sound(new, src) /\ (NoCallHooks(bd) => NoCallHooks(new))
<1>1. bd \in Body /\ Closed(bd) /\ GoodTerms(bd, src) /\ Live(bd)
  BY DEF Sound
<1>2. /\ new \in Body /\ Blocks(bd) = 1..Len(bd) /\ Blocks(new) = 1..Len(bd)
  BY <1>1, BlocksOf DEF Restated
<1>3. \A c \in 1..Len(bd) : new[c].term = bd[c].term /\ new[c].cleanup = bd[c].cleanup
  BY DEF Restated
<1>4. \A c \in 1..Len(bd) : AfterDrop(new[c]) <=> AfterDrop(bd[c])
  BY <1>3 DEF AfterDrop
<1>5. Closed(new)
  <2>1. ASSUME NEW c \in 1..Len(bd)
        PROVE  /\ new[c].term.to \subseteq (1..Len(bd)) \ {1}
               /\ new[c].term.unwind.act = "cleanup" =>
                     /\ new[c].term.unwind.block \in 1..Len(bd)
                     /\ new[new[c].term.unwind.block].cleanup
               /\ \A t \in new[c].term.to :
                     /\ new[c].cleanup /\ ~new[t].cleanup => AfterDrop(new[t])
                     /\ new[t].cleanup /\ ~new[c].cleanup => AfterDrop(new[c])
    <3>1. /\ bd[c].term.to \subseteq (1..Len(bd)) \ {1}
          /\ bd[c].term.unwind.act = "cleanup" =>
                /\ bd[c].term.unwind.block \in 1..Len(bd)
                /\ bd[bd[c].term.unwind.block].cleanup
          /\ \A t \in bd[c].term.to :
                /\ bd[c].cleanup /\ ~bd[t].cleanup => AfterDrop(bd[t])
                /\ bd[t].cleanup /\ ~bd[c].cleanup => AfterDrop(bd[c])
      BY <1>1, <1>2 DEF Closed
    <3>2. QED
      BY <1>3, <1>4, <3>1, Zenon
  <2>2. QED
    BY <1>2, <2>1 DEF Closed
<1>6. GoodTerms(new, src) /\ Live(new)
  BY <1>1, <1>2, <1>3 DEF GoodTerms, Live
<1>7. NoCallHooks(bd) => NoCallHooks(new)
  BY <1>2, <1>3 DEF NoCallHooks, Editable
<1>8. QED
  BY <1>2, <1>5, <1>6, <1>7 DEF Sound

LEMMA MovedNoCallHooks ==
    ASSUME NEW bd \in Body, NEW b \in 1..Len(bd), NEW new, Moved(bd, new, b),
           NoCallHooks(bd), new[b].term.fn # "before"
    PROVE  NoCallHooks(new)
<1> DEFINE n == Len(bd) + 1
<1>1. /\ Blocks(bd) = 1..Len(bd) /\ Len(bd) \in Nat /\ Blocks(new) = 1..n
      /\ 1..n = 1..Len(bd) \cup {n}
  <2>1. new \in Body /\ Len(new) = n
    BY DEF Moved, GrownAt
  <2>2. QED
    BY <2>1, BlocksOf
<1>2. /\ \A c \in 1..Len(bd) : c # b => new[c] = bd[c]
      /\ new[b].term.fn # "after" /\ new[n].term = bd[b].term
  BY DEF Moved, GrownAt
<1> HIDE DEF n
<1>3. QED
  BY <1>1, <1>2 DEF NoCallHooks, Editable

-----------------------------------------------------------------------------
(* The memory pass: the items before the place it edits stay where they are. *)

Kept(bd, new, b, i) ==
    /\ Len(new) >= Len(bd)
    /\ \A c \in 1..Len(bd) : c # b => new[c] = bd[c]
    /\ Len(new[b].stmts) >= i - 1
    /\ \A j \in 1..i - 1 : new[b].stmts[j] = bd[b].stmts[j]

Split(bd, b, i, hook, pointers) ==
    IF pointers = <<>> THEN bd ELSE SplitAtHook(bd, b, i, hook, pointers[1])

LEMMA SplitKeeps ==
    ASSUME NEW bd, NEW src, Sound(bd, src), NoCallHooks(bd), NEW b \in 1..Len(bd),
           NEW i \in Nat \ {0}, i - 1 <= Len(bd[b].stmts),
           NEW hook \in {"mem_read", "mem_write"}, NEW pointers \in Seq(Names)
    PROVE  LET new == Split(bd, b, i, hook, pointers) IN
           Sound(new, src) /\ NoCallHooks(new) /\ Kept(bd, new, b, i)
<1>1. bd \in Body
  BY DEF Sound
<1>2. bd[b].stmts \in Seq(Statement) /\ Len(bd[b].stmts) \in Nat /\ Len(bd) \in Nat
  <2>1. bd[b].stmts \in Seq(Statement) /\ Len(bd) \in Nat
    BY <1>1, TermFacts
  <2>2. QED
    BY <2>1
<1>3. CASE pointers = <<>>
  BY <1>2, <1>3 DEF Split, Kept
<1>4. CASE pointers # <<>>
  <2>1. pointers[1] \in Names
    BY <1>4
  <2>2. i \in 1..Len(bd[b].stmts) + 1
    BY <1>2
  <2> DEFINE new == SplitAtHook(bd, b, i, hook, pointers[1])
  <2>3. Split(bd, b, i, hook, pointers) = new
    BY <1>4 DEF Split
  <2>4. /\ Moved(bd, new, b) /\ new[b].term.fn = hook
        /\ new[b].stmts = CutAt(bd[b].stmts, i)
    <3>1. PICK pointer \in Names : pointer = pointers[1]
      BY <2>1
    <3>2. SplitInto(bd, SplitAtHook(bd, b, i, hook, pointer), b, i, hook, pointer)
      BY <1>1, <2>2, SplitSplits
    <3>3. SplitInto(bd, new, b, i, hook, pointer)
      BY <3>1, <3>2
    <3> HIDE DEF new
    <3>4. QED
      BY <3>3 DEF SplitInto
  <2> HIDE DEF new
  <2>5. Editable(bd, b)
    BY <1>1, BlocksOf DEF NoCallHooks
  <2>6. new[b].term.fn # "before"
    BY <2>4
  <2>7. Sound(new, src)
    BY <2>4, <2>5, <2>6, MovedSound
  <2>8. NoCallHooks(new)
    BY <1>1, <2>4, <2>6, MovedNoCallHooks
  <2>9. /\ Len(new) >= Len(bd) /\ \A c \in 1..Len(bd) : c # b => new[c] = bd[c]
    BY <1>2, <2>4 DEF Moved, GrownAt
  <2>10. /\ Len(new[b].stmts) = i - 1
         /\ \A j \in 1..i - 1 : new[b].stmts[j] = bd[b].stmts[j]
    <3> DEFINE stmts == bd[b].stmts
    <3>1. /\ Len(SubSeq(stmts, 1, i - 1)) = i - 1
          /\ \A j \in 1..i - 1 : SubSeq(stmts, 1, i - 1)[j] = stmts[j]
      BY <1>2, <2>2, CutFacts
    <3>2. new[b].stmts = SubSeq(stmts, 1, i - 1)
      BY <2>4 DEF CutAt
    <3>3. QED
      BY <3>1, <3>2
  <2>11. QED
    BY <2>3, <2>7, <2>8, <2>9, <2>10 DEF Kept
<1>5. QED
  BY <1>3, <1>4

LEMMA KeptTwice ==
    ASSUME NEW x, NEW y, NEW z, NEW b \in 1..Len(x), NEW i \in Nat \ {0},
           Len(x) \in Nat, Len(y) \in Nat, Len(z) \in Nat,
           Kept(x, y, b, i), Kept(y, z, b, i)
    PROVE  Kept(x, z, b, i)
BY DEF Kept

LEMMA AccessFacts ==
    ASSUME NEW bd, NEW src, Sound(bd, src), NoCallHooks(bd), NEW d,
           d.block \in 1..Len(bd), d.index \in Nat \ {0},
           d.index - 1 <= Len(bd[d.block].stmts),
           d.read \in Seq(Names), d.write \in Seq(Names)
    PROVE  LET new == AccessThroughHooks(bd, d) IN
           Sound(new, src) /\ NoCallHooks(new) /\ Kept(bd, new, d.block, d.index)
<1> DEFINE b == d.block
           i == d.index
           r == Split(bd, b, i, "mem_read", d.read)
           w == Split(r, b, i, "mem_write", d.write)
           reads == AddrOf("mem_read", d.read)
           writes == AddrOf("mem_write", d.write)
           new == Apply(w, b, reads \o writes, w[b].term, <<>>)
<1>1. AccessThroughHooks(bd, d) = new
  BY DEF AccessThroughHooks, Split
<1>2. Sound(r, src) /\ NoCallHooks(r) /\ Kept(bd, r, b, i)
  BY SplitKeeps, Zenon
<1> HIDE DEF r
<1>3. Len(bd) \in Nat /\ Len(r) \in Nat
  BY <1>2 DEF Sound, Body
<1>4. b \in 1..Len(r) /\ i - 1 <= Len(r[b].stmts)
  <2>1. r[b].stmts \in Seq(Statement) /\ b \in 1..Len(r)
    BY <1>2, <1>3, TermFacts, SMTT(30) DEF Sound, Kept
  <2>2. QED
    BY <1>2, <2>1 DEF Kept
<1>5. Sound(w, src) /\ NoCallHooks(w) /\ Kept(r, w, b, i)
  BY <1>2, <1>4, SplitKeeps, Zenon
<1> HIDE DEF w
<1>6. Len(w) \in Nat /\ w \in Body
  BY <1>5 DEF Sound, Body
<1>7. b \in 1..Len(w) /\ w[b].stmts \in Seq(Statement) /\ Len(w[b].stmts) \in Nat
  <2>1. b \in 1..Len(w)
    BY <1>3, <1>4, <1>5, <1>6 DEF Kept
  <2>2. w[b].stmts \in Seq(Statement)
    BY <1>6, <2>1, TermFacts, Zenon
  <2>3. QED
    BY <2>1, <2>2
<1>8. reads \o writes \in Seq(Statement)
  <2>1. reads \in Seq(Statement) /\ writes \in Seq(Statement)
    BY AddrOfType, Zenon
  <2> HIDE DEF reads, writes
  <2>2. QED
    BY <2>1, ConcatFacts
<1> DEFINE stmts == reads \o writes
<1>9. stmts \in Seq(Statement) /\ new = Apply(w, b, stmts, w[b].term, <<>>)
  BY <1>8
<1> HIDE DEF stmts, new
<1>10. /\ Restated(w, new, b) /\ Len(new[b].stmts) >= Len(w[b].stmts)
       /\ \A j \in 1..Len(w[b].stmts) : new[b].stmts[j] = w[b].stmts[j]
  BY <1>6, <1>7, <1>9, ApplyInPlace, ZenonT(60)
<1>11. Sound(new, src) /\ NoCallHooks(new)
  BY <1>5, <1>7, <1>10, RestatedSound
<1>12. Len(new) \in Nat /\ Len(new[b].stmts) \in Nat
  <2>1. new \in Body /\ b \in 1..Len(new)
    BY <1>7, <1>10 DEF Restated
  <2>2. new[b].stmts \in Seq(Statement) /\ Len(new) \in Nat
    BY <2>1, TermFacts, Zenon
  <2>3. QED
    BY <2>2
<1>13. Kept(w, new, b, i)
  <2>1. Len(new) >= Len(w) /\ \A c \in 1..Len(w) : c # b => new[c] = w[c]
    BY <1>6, <1>10 DEF Restated
  <2>2. i - 1 <= Len(w[b].stmts) /\ i - 1 \in Nat
    BY <1>5, <1>7 DEF Kept
  <2>3. Len(new[b].stmts) >= i - 1 /\ \A j \in 1..i - 1 : new[b].stmts[j] = w[b].stmts[j]
    <3>1. ASSUME NEW j \in 1..i - 1 PROVE new[b].stmts[j] = w[b].stmts[j]
      <4>1. j \in 1..Len(w[b].stmts)
        BY <1>7, <2>2
      <4>2. QED
        BY <1>10, <4>1
    <3> DEFINE less == Len(w[b].stmts)
               more == Len(new[b].stmts)
    <3>2. more >= i - 1
      <4>1. more >= less /\ less \in Nat /\ more \in Nat
        BY <1>7, <1>10, <1>12
      <4>2. i - 1 <= less /\ i - 1 \in Nat
        BY <2>2
      <4> HIDE DEF less, more, i
      <4>3. QED
        BY <4>1, <4>2
    <3>3. QED
      BY <3>1, <3>2
  <2>4. QED
    BY <2>1, <2>3 DEF Kept
<1>14. Kept(bd, new, b, i)
  <2>1. Kept(bd, w, b, i)
    BY <1>2, <1>3, <1>5, <1>6, KeptTwice, Zenon
  <2>2. QED
    BY <1>3, <1>6, <1>12, <1>13, <2>1, KeptTwice, Zenon
<1>15. QED
  BY <1>1, <1>11, <1>14

-----------------------------------------------------------------------------
(* What is dereferenced: until the memory pass, what rustc's body does.     *)

Known(uses, src) ==
    uses = <<>> \/ \E loc \in Locations(src) : ItemAt(src, loc).uses = uses
UsesKnown(bd, src) ==
    \A b \in Blocks(bd) :
        /\ Known(bd[b].term.uses, src)
        /\ \A i \in DOMAIN bd[b].stmts : Known(bd[b].stmts[i].uses, src)
Calm(bd, src) == Sound(bd, src) /\ NoCallHooks(bd) /\ UsesKnown(bd, src)

LEMMA ItemsKnown ==
    ASSUME NEW bd \in Body, NEW src, UsesKnown(bd, src), NEW loc \in Locations(bd)
    PROVE  Known(ItemAt(bd, loc).uses, src)
<1>1. PICK b \in 1..Len(bd) : \E i \in 1..Len(bd[b].stmts) + 1 :
          loc = <<b, i>> /\ ItemAt(bd, loc) = ItemsOf(bd[b])[i]
  BY LocationsArePlaces
<1>2. PICK i \in 1..Len(bd[b].stmts) + 1 : ItemAt(bd, loc) = ItemsOf(bd[b])[i]
  BY <1>1
<1>3. bd[b] \in BasicBlock /\ b \in Blocks(bd)
  BY TermFacts, BlocksOf
<1>4. Len(bd[b].stmts) \in Nat /\ DOMAIN bd[b].stmts = 1..Len(bd[b].stmts)
  BY <1>3, ItemFacts
<1>5. CASE i \in 1..Len(bd[b].stmts)
  <2>1. ItemAt(bd, loc) = bd[b].stmts[i]
    BY <1>2, <1>3, <1>5, ItemFacts
  <2>2. QED
    BY <1>3, <1>4, <1>5, <2>1 DEF UsesKnown
<1>6. CASE i = Len(bd[b].stmts) + 1
  <2>1. ItemAt(bd, loc) = bd[b].term
    BY <1>2, <1>3, <1>6, ItemFacts
  <2>2. QED
    BY <1>3, <2>1 DEF UsesKnown
<1>7. QED
  BY <1>4, <1>5, <1>6

LEMMA OriginalIsCalm ==
    ASSUME NEW src \in Bodies
    PROVE  Calm(src, src) /\ src # <<>>
<1>1. src \in Body /\ Tagged(src) /\ WellFormed(src) /\ CallsLocksAsUsual(src)
  BY BodiesAssumption
<1>2. Blocks(src) = 1..Len(src) /\ Len(src) \in Nat
  BY <1>1, BlocksOf
<1>3. ASSUME NEW b \in 1..Len(src)
      PROVE  src[b].term.at # Nowhere /\ OneModeEach(src[b].term.args)
  <2>1. src[b] \in BasicBlock /\ Len(src[b].stmts) \in Nat
    BY <1>1, TermFacts, ItemFacts
  <2> DEFINE i == Len(src[b].stmts) + 1
  <2>2. i \in 1..Len(src[b].stmts) + 1 /\ ItemsOf(src[b])[i] = src[b].term
    BY <2>1, ItemFacts
  <2> HIDE DEF i
  <2>3. <<b, i>> \in Locations(src) /\ ItemAt(src, <<b, i>>) = src[b].term
    BY <1>1, <2>2, PlacesAreLocations
  <2>4. src[b].term.at = <<b, i>>
    BY <1>1, <2>3 DEF Tagged
  <2>5. OneModeEach(src[b].term.args)
    BY <1>1, <1>2 DEF Tagged, OneModeEach
  <2>6. QED
    BY <2>4, <2>5 DEF Nowhere
<1>4. Closed(src)
  <2>1. \A b \in 1..Len(src) :
          /\ src[b].term.to \subseteq (1..Len(src)) \ {1}
          /\ src[b].term.unwind.act = "cleanup" =>
                /\ src[b].term.unwind.block \in 1..Len(src)
                /\ src[src[b].term.unwind.block].cleanup
          /\ \A t \in src[b].term.to : src[t].cleanup => src[b].cleanup
    BY <1>1, <1>2 DEF WellFormed
  <2>2. ASSUME NEW b \in 1..Len(src), NEW t \in src[b].term.to, src[b].cleanup, ~src[t].cleanup
        PROVE  FALSE
    <3>1. t \in 1..Len(src)
      BY <2>1
    <3>2. <<b, t>> \in (1..Len(src)) \X (1..Len(src))
      BY <3>1
    <3>3. <<b, t>> \in LeavesCleanup(src)
      BY <1>2, <2>2, <3>2 DEF LeavesCleanup
    <3>4. QED
      BY <1>1, <3>3 DEF WellFormed
  <2>3. QED
    BY <1>2, <2>1, <2>2 DEF Closed
<1>5. GoodTerms(src, src)
  BY <1>1, <1>2, <1>3 DEF GoodTerms, GoodTerm, CallsLocksAsUsual
<1>6. Live(src) /\ NoCallHooks(src)
  BY <1>2, <1>3 DEF Live, NoCallHooks, Editable
<1>7. UsesKnown(src, src)
  <2>1. ASSUME NEW b \in 1..Len(src), NEW i \in 1..Len(src[b].stmts) + 1
        PROVE  Known(ItemsOf(src[b])[i].uses, src)
    BY <1>1, PlacesAreLocations, Zenon DEF Known
  <2>2. ASSUME NEW b \in 1..Len(src)
        PROVE  /\ Known(src[b].term.uses, src)
               /\ \A i \in DOMAIN src[b].stmts : Known(src[b].stmts[i].uses, src)
    <3>1. src[b] \in BasicBlock
      BY <1>1, TermFacts
    <3>2. /\ Len(src[b].stmts) \in Nat /\ DOMAIN src[b].stmts = 1..Len(src[b].stmts)
          /\ \A i \in 1..Len(src[b].stmts) : ItemsOf(src[b])[i] = src[b].stmts[i]
          /\ ItemsOf(src[b])[Len(src[b].stmts) + 1] = src[b].term
      BY <3>1, ItemFacts
    <3>3. QED
      BY <2>1, <3>2, SMTT(30)
  <2>3. QED
    BY <1>2, <2>2 DEF UsesKnown
<1>8. src # <<>>
  BY <1>1 DEF WellFormed
<1>9. QED
  BY <1>1, <1>4, <1>5, <1>6, <1>7, <1>8 DEF Calm, Sound

-----------------------------------------------------------------------------
(* The entry hooks.                                                         *)

(* The blocks of new hold no statement that those of bd do not hold.        *)
MovedUses(bd, new, b) ==
    /\ new[b].stmts \in {<<>>, bd[b].stmts}
    /\ new[Len(bd) + 1].stmts \in {<<>>, bd[b].stmts}

LEMMA MovedCalm ==
    ASSUME NEW bd, NEW src, Calm(bd, src), NEW b \in 1..Len(bd), NEW new, Moved(bd, new, b),
           new[b].term.fn # "before", MovedUses(bd, new, b)
    PROVE  Calm(new, src)
<1>1. bd \in Body /\ Sound(bd, src) /\ NoCallHooks(bd) /\ UsesKnown(bd, src)
  BY DEF Calm, Sound
<1>2. Editable(bd, b)
  BY <1>1, BlocksOf DEF NoCallHooks
<1>3. Sound(new, src) /\ NoCallHooks(new)
  BY <1>1, <1>2, MovedSound, MovedNoCallHooks
<1> DEFINE n == Len(bd) + 1
<1>4. /\ Blocks(bd) = 1..Len(bd) /\ Len(bd) \in Nat /\ Blocks(new) = 1..n
      /\ n \notin 1..Len(bd) /\ 1..n = 1..Len(bd) \cup {n}
  <2>1. new \in Body /\ Len(new) = n
    BY DEF Moved, GrownAt
  <2>2. QED
    BY <1>1, <2>1, BlocksOf
<1>5. /\ \A c \in 1..Len(bd) : c # b => new[c] = bd[c]
      /\ new[b].term.uses = <<>> /\ new[n].term = bd[b].term
  BY DEF Moved, GrownAt, IsHook
<1>6. new[b].stmts \in {<<>>, bd[b].stmts} /\ new[n].stmts \in {<<>>, bd[b].stmts}
  BY DEF MovedUses
<1> HIDE DEF n
<1>7. \A c \in 1..Len(bd) :
        /\ Known(bd[c].term.uses, src)
        /\ \A i \in DOMAIN bd[c].stmts : Known(bd[c].stmts[i].uses, src)
  BY <1>1, <1>4 DEF UsesKnown
<1>8. \A stmts \in {<<>>, bd[b].stmts} : \A i \in DOMAIN stmts : Known(stmts[i].uses, src)
  <2>1. DOMAIN <<>> = {}
    OBVIOUS
  <2>2. QED
    BY <1>7, <2>1
<1>9. ASSUME NEW c \in 1..n
      PROVE  /\ Known(new[c].term.uses, src)
             /\ \A i \in DOMAIN new[c].stmts : Known(new[c].stmts[i].uses, src)
  <2>1. CASE c = b
    <3>1. Known(new[c].term.uses, src)
      BY <1>5, <2>1 DEF Known
    <3>2. QED
      BY <1>6, <1>8, <2>1, <3>1
  <2>2. CASE c = n
    BY <1>5, <1>6, <1>7, <1>8, <2>2
  <2>3. CASE c # b /\ c # n
    BY <1>4, <1>5, <1>7, <2>3
  <2>4. QED
    BY <2>1, <2>2, <2>3
<1>10. QED
  BY <1>3, <1>4, <1>9 DEF Calm, UsesKnown

LEMMA EnterCalm ==
    ASSUME NEW bd, NEW src, Calm(bd, src), bd # <<>>
    PROVE  Calm(EnterThroughHook(bd), src)
<1> DEFINE new == EnterThroughHook(bd)
<1>1. bd \in Body
  BY DEF Calm, Sound
<1>2. /\ Moved(bd, new, 1) /\ new[1].term.fn = "entry_before"
      /\ new[1].stmts = <<>> /\ new[Len(bd) + 1] = bd[1]
  BY <1>1, EnterMoves, Zenon
<1>3. 1 \in 1..Len(bd)
  BY <1>1 DEF Body
<1> HIDE DEF new
<1>4. MovedUses(bd, new, 1)
  BY <1>2 DEF MovedUses
<1>5. new[1].term.fn # "before"
  BY <1>2
<1>6. Calm(new, src)
  BY <1>2, <1>3, <1>4, <1>5, MovedCalm
<1>7. QED
  BY <1>6 DEF new

LEMMA ReturnCalm ==
    ASSUME NEW bd, NEW src, Calm(bd, src), NEW b \in 1..Len(bd)
    PROVE  Calm(ReturnThroughHook(bd, b), src) /\ Len(ReturnThroughHook(bd, b)) = Len(bd) + 1
<1> DEFINE new == ReturnThroughHook(bd, b)
<1>1. bd \in Body
  BY DEF Calm, Sound
<1>2. /\ Moved(bd, new, b) /\ new[b].term.fn = "entry_after"
      /\ new[b].stmts = bd[b].stmts /\ new[Len(bd) + 1].stmts = <<>>
  BY <1>1, ReturnMoves, Zenon
<1> HIDE DEF new
<1>3. MovedUses(bd, new, b)
  BY <1>2 DEF MovedUses
<1>4. new[b].term.fn # "before"
  BY <1>2
<1>5. Calm(new, src)
  BY <1>2, <1>3, <1>4, MovedCalm
<1>6. Len(new) = Len(bd) + 1
  BY <1>2 DEF Moved, GrownAt
<1>7. QED
  BY <1>5, <1>6 DEF new

(* The recursive function behind ReturnsThroughHook.                        *)
ThroughStep(bd, f, n) ==
    IF n = 0 THEN bd
    ELSE IF bd[n].term.kind = "return" THEN ReturnThroughHook(f[n - 1], n)
    ELSE f[n - 1]

LEMMA ThroughExists ==
    ASSUME NEW bd, NEW N \in Nat
    PROVE  \E f : f = [n \in 0..N |-> ThroughStep(bd, f, n)]
<1> DEFINE Good == {k \in 0..N : \E f : f = [n \in 0..k |-> ThroughStep(bd, f, n)]}
<1>1. 0 \in Good
  <2>1. [n \in 0..0 |-> bd] = [n \in 0..0 |-> ThroughStep(bd, [i \in 0..0 |-> bd], n)]
    BY DEF ThroughStep
  <2>2. QED
    BY <2>1
<1>2. ASSUME NEW k \in 1..N, k - 1 \in Good PROVE k \in Good
  <2>1. PICK f : f = [n \in 0..k - 1 |-> ThroughStep(bd, f, n)]
    BY <1>2
  <2> DEFINE g == [n \in 0..k |-> IF n = k THEN ThroughStep(bd, f, k) ELSE f[n]]
  <2>2. ASSUME NEW n \in 0..k PROVE g[n] = ThroughStep(bd, g, n)
    <3>1. CASE n = k
      <4>1. g[k - 1] = f[k - 1] /\ g[k] = ThroughStep(bd, f, k)
        OBVIOUS
      <4>2. QED
        BY <3>1, <4>1 DEF ThroughStep
    <3>2. CASE n # k
      <4>1. n \in 0..k - 1 /\ g[n] = f[n]
        BY <3>2
      <4>2. f[n] = ThroughStep(bd, f, n)
        BY <2>1, <4>1
      <4>3. n # 0 => g[n - 1] = f[n - 1]
        BY <4>1
      <4>4. QED
        BY <4>1, <4>2, <4>3 DEF ThroughStep
    <3>3. QED
      BY <3>1, <3>2
  <2>3. g = [n \in 0..k |-> ThroughStep(bd, g, n)]
    BY <2>2
  <2>4. \E h : h = [n \in 0..k |-> ThroughStep(bd, h, n)]
    BY <2>3, Zenon
  <2>5. QED
    BY <2>4
<1> HIDE DEF Good
<1>3. 0..N \subseteq Good
  BY <1>1, <1>2, SetInduction
<1>4. N \in Good
  BY <1>3
<1>5. QED
  BY <1>4 DEF Good

LEMMA ThroughEquations ==
    ASSUME NEW bd \in Body
    PROVE  \E f : /\ f[0] = bd
                  /\ \A n \in 1..Len(bd) :
                       f[n] = IF bd[n].term.kind = "return" THEN ReturnThroughHook(f[n - 1], n)
                              ELSE f[n - 1]
                  /\ ReturnsThroughHook(bd) = f[Len(bd)]
<1> DEFINE F == CHOOSE f : f = [n \in 0..Len(bd) |->
                    IF n = 0 THEN bd
                    ELSE IF bd[n].term.kind = "return" THEN ReturnThroughHook(f[n - 1], n)
                    ELSE f[n - 1]]
<1>1. Len(bd) \in Nat
  BY BlocksOf
<1>2. \E f : f = [n \in 0..Len(bd) |->
                    IF n = 0 THEN bd
                    ELSE IF bd[n].term.kind = "return" THEN ReturnThroughHook(f[n - 1], n)
                    ELSE f[n - 1]]
  <2>1. \E f : f = [n \in 0..Len(bd) |-> ThroughStep(bd, f, n)]
    BY <1>1, ThroughExists
  <2>2. QED
    BY <2>1, Zenon DEF ThroughStep
<1>3. F = [n \in 0..Len(bd) |->
                    IF n = 0 THEN bd
                    ELSE IF bd[n].term.kind = "return" THEN ReturnThroughHook(F[n - 1], n)
                    ELSE F[n - 1]]
  BY <1>2, Zenon
<1>4. ReturnsThroughHook(bd) = F[Len(bd)]
  BY DEF ReturnsThroughHook
<1> HIDE DEF F
<1>5. F[0] = bd
  BY <1>1, <1>3
<1>6. ASSUME NEW n \in 1..Len(bd)
      PROVE  F[n] = IF bd[n].term.kind = "return" THEN ReturnThroughHook(F[n - 1], n)
                    ELSE F[n - 1]
  <2>1. n \in 0..Len(bd) /\ n # 0
    BY <1>1
  <2>2. QED
    BY <1>3, <2>1, Zenon
<1>7. QED
  BY <1>4, <1>5, <1>6

LEMMA ReturnsCalm ==
    ASSUME NEW bd, NEW src, Calm(bd, src)
    PROVE  Calm(ReturnsThroughHook(bd), src)
<1>1. bd \in Body /\ Len(bd) \in Nat
  BY BlocksOf DEF Calm, Sound
<1>2. PICK f : /\ f[0] = bd
               /\ \A n \in 1..Len(bd) :
                    f[n] = IF bd[n].term.kind = "return" THEN ReturnThroughHook(f[n - 1], n)
                           ELSE f[n - 1]
               /\ ReturnsThroughHook(bd) = f[Len(bd)]
  BY <1>1, ThroughEquations
<1> DEFINE Good == {n \in 0..Len(bd) : /\ Calm(f[n], src) /\ Len(f[n]) \in Nat
                                       /\ Len(f[n]) >= Len(bd)}
<1>3. 0 \in Good
  BY <1>1, <1>2
<1>4. ASSUME NEW n \in 1..Len(bd), n - 1 \in Good PROVE n \in Good
  <2>1. Calm(f[n - 1], src) /\ Len(f[n - 1]) \in Nat /\ Len(f[n - 1]) >= Len(bd)
    BY <1>4
  <2>2. n \in 1..Len(f[n - 1])
    BY <1>1, <2>1
  <2>3. /\ Calm(ReturnThroughHook(f[n - 1], n), src)
        /\ Len(ReturnThroughHook(f[n - 1], n)) = Len(f[n - 1]) + 1
    BY <2>1, <2>2, ReturnCalm
  <2>4. n \in 0..Len(bd)
    BY <1>1
  <2>5. f[n] = ReturnThroughHook(f[n - 1], n) \/ f[n] = f[n - 1]
    BY <1>2
  <2>6. QED
    BY <1>1, <2>1, <2>3, <2>4, <2>5
<1> HIDE DEF Good
<1>5. Len(bd) \in Good
  <2>1. 0..Len(bd) \subseteq Good
    BY <1>1, <1>3, <1>4, SetInduction, Zenon
  <2>2. QED
    BY <1>1, <2>1
<1>6. QED
  BY <1>2, <1>5 DEF Good

-----------------------------------------------------------------------------
(* Positions of accesses.                                                   *)

DerefPosition ==
    [block : Nat, index : Nat, at : Seq(Nat), read : Seq(Names), write : Seq(Names)]

LEMMA PointersType ==
    ASSUME NEW item, item.uses \in Operands, NEW contexts
    PROVE  /\ Pointers(item, contexts) \in Seq(Names)
           /\ Len(Pointers(item, contexts)) =
                Len(Picked(item.uses, {k \in DOMAIN item.uses : item.uses[k][1] \in contexts}))
<1> DEFINE uses == item.uses
           used == Picked(uses, {k \in DOMAIN uses : uses[k][1] \in contexts})
<1>1. Pointers(item, contexts) = [k \in DOMAIN used |-> used[k][2]]
  BY DEF Pointers
<1>2. used \in Seq(Names \X Names)
  BY PickedType DEF Operands
<1> HIDE DEF used
<1>3. Len(used) \in Nat /\ DOMAIN used = 1..Len(used)
  BY <1>2
<1>4. \A k \in 1..Len(used) : used[k][2] \in Names
  BY <1>2
<1>5. [k \in DOMAIN used |-> used[k][2]] \in [1..Len(used) -> Names]
  BY <1>3, <1>4
<1>6. /\ [k \in DOMAIN used |-> used[k][2]] \in Seq(Names)
      /\ Len([k \in DOMAIN used |-> used[k][2]]) = Len(used)
  BY <1>3, <1>5, TabledSequence
<1>7. QED
  BY <1>1, <1>6 DEF used

(* s lists places of bd, and of one block the later ones first.             *)
Placed(bd, s) ==
    /\ s \in Seq(DerefPosition)
    /\ \A k \in 1..Len(s) :
          /\ s[k].block \in 1..Len(bd)
          /\ s[k].index \in 1..Len(bd[s[k].block].stmts) + 1
          /\ ItemsOf(bd[s[k].block])[s[k].index].at = s[k].at
    /\ \A j, k \in 1..Len(s) : j < k /\ s[j].block = s[k].block => s[k].index < s[j].index
Within(s, blocks) == \A k \in 1..Len(s) : s[k].block \in blocks

LEMMA ItemType ==
    ASSUME NEW bd \in Body, NEW b \in 1..Len(bd), NEW i \in 1..Len(bd[b].stmts) + 1
    PROVE  ItemsOf(bd[b])[i].at \in Seq(Nat) /\ ItemsOf(bd[b])[i].uses \in Operands
<1>1. /\ bd[b] \in BasicBlock /\ bd[b].stmts \in Seq(Statement) /\ bd[b].term \in Terminator
      /\ Len(bd[b].stmts) \in Nat
  BY TermFacts, ItemFacts
<1>2. CASE i = Len(bd[b].stmts) + 1
  <2>1. ItemsOf(bd[b])[i] = bd[b].term
    BY <1>1, <1>2, ItemFacts
  <2>2. QED
    BY <1>1, <2>1 DEF Terminator
<1>3. CASE i \in 1..Len(bd[b].stmts)
  <2>1. ItemsOf(bd[b])[i] = bd[b].stmts[i]
    BY <1>1, <1>3, ItemFacts
  <2>2. bd[b].stmts[i] \in Statement
    BY <1>1, <1>3
  <2>3. QED
    BY <2>1, <2>2 DEF Statement
<1>4. QED
  BY <1>1, <1>2, <1>3

LEMMA DerefsPlaced ==
    ASSUME NEW bd \in Body, NEW b \in 1..Len(bd)
    PROVE  Placed(bd, DerefsInOrder(bd, b)) /\ Within(DerefsInOrder(bd, b), {b})
<1> DEFINE items == ItemsOf(bd[b])
           N == Len(bd[b].stmts) + 1
           used == {i \in DOMAIN items : Reads(items[i]) \o Writes(items[i]) # <<>>}
           seq == [i \in DOMAIN items |-> Deref(bd, <<b, i>>)]
           picked == Picked(seq, used)
           s == DerefsInOrder(bd, b)
<1>1. DOMAIN items = 1..N /\ N \in Nat
  BY TermFacts, ItemFacts
<1>2. Derefs(bd, b) = picked
  BY DEF Derefs
<1>3. s = [k \in 1..Len(picked) |-> picked[Len(picked) - k + 1]]
  BY <1>2 DEF DerefsInOrder, Reverse
<1>4. ASSUME NEW i \in 1..N
      PROVE  /\ Deref(bd, <<b, i>>) \in DerefPosition
             /\ Deref(bd, <<b, i>>).block = b /\ Deref(bd, <<b, i>>).index = i
             /\ Deref(bd, <<b, i>>).at = items[i].at
  <2> DEFINE item == items[i]
  <2>1. ItemAt(bd, <<b, i>>) = item
    BY DEF ItemAt
  <2>2. Deref(bd, <<b, i>>) = [block |-> b, index |-> i, at |-> item.at,
                               read |-> Reads(item), write |-> Writes(item)]
    BY <2>1 DEF Deref
  <2>3. item.at \in Seq(Nat) /\ item.uses \in Operands
    BY ItemType
  <2> HIDE DEF item
  <2>4. Reads(item) \in Seq(Names) /\ Writes(item) \in Seq(Names)
    BY <2>3, PointersType, Zenon DEF Reads, Writes
  <2>5. b \in Nat /\ i \in Nat
    BY <1>1, TermFacts
  <2>6. QED
    BY <2>2, <2>3, <2>4, <2>5 DEF DerefPosition, item
<1> HIDE DEF items, N
<1>5. seq \in Seq(DerefPosition) /\ Len(seq) = N
  <2>1. seq \in [1..N -> DerefPosition]
    BY <1>1, <1>4
  <2> HIDE DEF seq
  <2>2. QED
    BY <1>1, <2>1, TabledSequence
<1>6. \A i \in 1..N : seq[i] = Deref(bd, <<b, i>>)
  BY <1>1
<1> HIDE DEF seq, used
<1>7. picked \in Seq(DerefPosition)
  BY <1>5, PickedType
<1>8. PICK from : Sources(seq, used, picked, Len(seq), from)
  BY <1>5, PickedSources
<1> HIDE DEF picked
<1>9. Len(picked) \in Nat
  BY <1>7
<1>10. /\ \A k \in 1..Len(picked) : from[k] \in 1..N /\ picked[k] = Deref(bd, <<b, from[k]>>)
       /\ \A j, k \in 1..Len(picked) : j < k => from[j] < from[k]
  BY <1>5, <1>6, <1>8, Zenon DEF Sources
<1>11. s \in Seq(DerefPosition) /\ Len(s) = Len(picked)
  <2>1. s \in [1..Len(picked) -> DerefPosition]
    BY <1>3, <1>7, <1>9
  <2> HIDE DEF s
  <2>2. QED
    BY <1>9, <2>1, TabledSequence
<1>12. \A k \in 1..Len(s) : s[k] = picked[Len(picked) - k + 1]
  BY <1>3, <1>11
<1> HIDE DEF s
<1>13. ASSUME NEW k \in 1..Len(s)
       PROVE  /\ Len(picked) - k + 1 \in 1..Len(picked)
              /\ s[k].block = b /\ s[k].index = from[Len(picked) - k + 1]
              /\ s[k].index \in 1..N /\ s[k].at = items[s[k].index].at
  <2> DEFINE m == Len(picked) - k + 1
  <2>1. m \in 1..Len(picked) /\ s[k] = picked[m]
    BY <1>9, <1>11, <1>12
  <2> HIDE DEF m
  <2>2. from[m] \in 1..N /\ picked[m] = Deref(bd, <<b, from[m]>>)
    BY <1>10, <2>1
  <2>3. /\ Deref(bd, <<b, from[m]>>).block = b /\ Deref(bd, <<b, from[m]>>).index = from[m]
        /\ Deref(bd, <<b, from[m]>>).at = items[from[m]].at
    BY <1>4, <2>2
  <2>4. QED
    BY <2>1, <2>2, <2>3 DEF m
<1>14. ASSUME NEW j \in 1..Len(s), NEW k \in 1..Len(s), j < k
       PROVE  s[k].index < s[j].index
  <2>1. Len(picked) - k + 1 < Len(picked) - j + 1
    BY <1>9, <1>11, <1>14
  <2>2. QED
    BY <1>10, <1>13, <1>14, <2>1, Zenon
<1>15. QED
  BY <1>11, <1>13, <1>14, Zenon DEF Placed, Within, items, N, s

LEMMA PlacedJoin ==
    ASSUME NEW bd, NEW s, NEW t, Placed(bd, s), Placed(bd, t),
           NEW B, NEW C, Within(s, B), Within(t, C), B \cap C = {}
    PROVE  Placed(bd, s \o t) /\ Within(s \o t, B \cup C)
<1> DEFINE u == s \o t
<1>1. s \in Seq(DerefPosition) /\ t \in Seq(DerefPosition)
  BY DEF Placed
<1>2. /\ u \in Seq(DerefPosition) /\ Len(u) = Len(s) + Len(t)
      /\ \A k \in 1..Len(s) : u[k] = s[k]
      /\ \A k \in 1..Len(t) : u[Len(s) + k] = t[k]
      /\ Len(s) \in Nat /\ Len(t) \in Nat
  BY <1>1, ConcatFacts
<1> HIDE DEF u
<1>3. ASSUME NEW k \in 1..Len(u), k \notin 1..Len(s)
      PROVE  k - Len(s) \in 1..Len(t) /\ u[k] = t[k - Len(s)]
  <2>1. k - Len(s) \in 1..Len(t) /\ k = Len(s) + (k - Len(s))
    BY <1>2, <1>3
  <2>2. QED
    BY <1>2, <2>1
<1>4. ASSUME NEW k \in 1..Len(u)
      PROVE  /\ u[k].block \in 1..Len(bd)
             /\ u[k].index \in 1..Len(bd[u[k].block].stmts) + 1
             /\ ItemsOf(bd[u[k].block])[u[k].index].at = u[k].at
             /\ u[k].block \in B \cup C
  <2>1. CASE k \in 1..Len(s)
    BY <1>2, <2>1, Zenon DEF Placed, Within
  <2>2. CASE k \notin 1..Len(s)
    <3>1. PICK l \in 1..Len(t) : u[k] = t[l]
      BY <1>3, <2>2
    <3>2. QED
      BY <3>1 DEF Placed, Within
  <2>3. QED
    BY <2>1, <2>2
<1>5. ASSUME NEW j \in 1..Len(u), NEW k \in 1..Len(u), j < k, u[j].block = u[k].block
      PROVE  u[k].index < u[j].index
  <2>1. CASE k \in 1..Len(s)
    <3>1. j \in 1..Len(s)
      BY <1>5, <2>1
    <3>2. QED
      BY <1>2, <1>5, <2>1, <3>1, Zenon DEF Placed
  <2>2. CASE k \notin 1..Len(s) /\ j \in 1..Len(s)
    <3>1. u[j].block \in B /\ u[k].block \in C
      BY <1>2, <1>3, <2>2, Zenon DEF Within
    <3>2. QED
      BY <1>5, <3>1
  <2>3. CASE k \notin 1..Len(s) /\ j \notin 1..Len(s)
    <3> DEFINE l == k - Len(s)
               i == j - Len(s)
    <3>1. l \in 1..Len(t) /\ i \in 1..Len(t) /\ u[k] = t[l] /\ u[j] = t[i]
      BY <1>3, <2>3
    <3>2. i < l
      BY <1>2, <1>5
    <3> HIDE DEF i, l
    <3>3. QED
      BY <1>5, <3>1, <3>2 DEF Placed
  <2>4. QED
    BY <2>1, <2>2, <2>3
<1>6. QED
  BY <1>2, <1>4, <1>5, Zenon DEF Placed, Within, u

LEMMA BlocksInAnyOrder ==
    ASSUME NEW bd \in Body, NEW T \in SUBSET Blocks(bd), NEW order \in SetToSeqs(T)
    PROVE  LET seqs == [k \in DOMAIN order |-> DerefsInOrder(bd, order[k])] IN
           Placed(bd, FlattenSeq(seqs))
<1> DEFINE N == Cardinality(T)
           seqs == [k \in DOMAIN order |-> DerefsInOrder(bd, order[k])]
           Upto(n) == {order[m] : m \in 1..n}
<1>1. T \subseteq 1..Len(bd) /\ Len(bd) \in Nat
  BY BlocksOf
<1>2. N \in Nat
  <2>1. IsFiniteSet(1..Len(bd))
    BY <1>1, FS_Interval
  <2>2. QED
    BY <1>1, <2>1, FS_Subset, FS_CardinalityType, Zenon
<1>3. order \in [1..N -> T] /\ \A i, j \in 1..N : i # j => order[i] # order[j]
  BY DEF SetToSeqs
<1> HIDE DEF N
<1>4. DOMAIN order = 1..N /\ \A k \in 1..N : order[k] \in 1..Len(bd)
  BY <1>1, <1>3, Zenon
<1>5. \A k \in 1..N : /\ Placed(bd, DerefsInOrder(bd, order[k]))
                      /\ Within(DerefsInOrder(bd, order[k]), {order[k]})
  BY <1>4, DerefsPlaced
<1>6. seqs \in Seq(Seq(DerefPosition)) /\ Len(seqs) = N
  <2>1. seqs \in [1..N -> Seq(DerefPosition)]
    BY <1>4, <1>5, Zenon DEF Placed
  <2> HIDE DEF seqs
  <2>2. QED
    BY <1>2, <2>1, TabledSequence
<1>7. \A k \in 1..N : seqs[k] = DerefsInOrder(bd, order[k])
  BY <1>4
<1> HIDE DEF seqs
<1>8. CASE seqs = <<>>
  <2>1. FlattenSeq(seqs) = <<>>
    BY <1>8, FlattenEmpty, Zenon
  <2>2. Placed(bd, <<>>)
    <3>1. <<>> \in Seq(DerefPosition) /\ 1..Len(<<>>) = {}
      OBVIOUS
    <3>2. QED
      BY <3>1 DEF Placed
  <2>3. QED
    BY <2>1, <2>2, Zenon DEF seqs
<1>9. CASE seqs # <<>>
  <2>1. N > 0
    BY <1>2, <1>6, <1>9
  <2>2. PICK f : /\ f[1] = seqs[1]
                 /\ \A n \in 2..Len(seqs) : f[n] = f[n - 1] \o seqs[n]
                 /\ FlattenSeq(seqs) = f[Len(seqs)]
    <3>1. PICK S : S = Seq(DerefPosition)
      OBVIOUS
    <3>2. seqs \in Seq(S)
      BY <1>6, <3>1
    <3>3. QED
      BY <1>9, <3>2, FlattenEquations, Zenon
  <2> DEFINE Good == {n \in 0..N : n # 0 => Placed(bd, f[n]) /\ Within(f[n], Upto(n))}
  <2>3. 0 \in Good
    <3>1. 0 \in 0..N
      BY <1>2
    <3>2. QED
      BY <3>1
  <2>4. ASSUME NEW n \in 1..N, n - 1 \in Good PROVE n \in Good
    <3>1. Placed(bd, seqs[n]) /\ Within(seqs[n], {order[n]}) /\ n \in 0..N
      BY <1>2, <1>5, <1>7
    <3>2. CASE n = 1
      <4>1. Upto(1) = {order[1]}
        OBVIOUS
      <4>2. f[n] = seqs[n] /\ Upto(n) = {order[n]}
        BY <2>2, <3>2, <4>1
      <4>3. QED
        BY <3>1, <4>2, Zenon
    <3>3. CASE n # 1
      <4>1. n \in 2..Len(seqs) /\ n - 1 # 0
        BY <1>2, <1>6, <3>3
      <4>2. f[n] = f[n - 1] \o seqs[n]
        BY <2>2, <4>1, Zenon
      <4>3. Placed(bd, f[n - 1]) /\ Within(f[n - 1], Upto(n - 1))
        BY <2>4, <4>1
      <4>4. Upto(n - 1) \cap {order[n]} = {} /\ Upto(n - 1) \cup {order[n]} = Upto(n)
        <5>1. \A m \in 1..n - 1 : m \in 1..N /\ m # n
          BY <1>2
        <5>2. 1..n = (1..n - 1) \cup {n}
          BY <1>2
        <5>3. QED
          BY <1>3, <5>1, <5>2
      <4> HIDE DEF Upto
      <4>5. Placed(bd, f[n - 1] \o seqs[n]) /\ Within(f[n - 1] \o seqs[n], Upto(n))
        <5>1. /\ Placed(bd, f[n - 1] \o seqs[n])
              /\ Within(f[n - 1] \o seqs[n], Upto(n - 1) \cup {order[n]})
          BY <3>1, <4>3, <4>4, PlacedJoin, Zenon
        <5>2. QED
          BY <4>4, <5>1, Zenon
      <4>6. QED
        BY <3>1, <4>2, <4>5, Zenon
    <3>4. QED
      BY <3>2, <3>3
  <2> HIDE DEF Good
  <2>5. N \in Good
    <3>1. 0..N \subseteq Good
      BY <1>2, <2>3, <2>4, SetInduction
    <3>2. QED
      BY <1>2, <3>1
  <2>6. Placed(bd, f[N])
    BY <1>2, <2>1, <2>5 DEF Good
  <2>7. QED
    BY <1>6, <2>2, <2>6 DEF seqs
<1>10. QED
  BY <1>8, <1>9

LEMMA TailFacts ==
    ASSUME NEW S, NEW todo_ \in Seq(S), todo_ # <<>>
    PROVE  /\ Head(todo_) = todo_[1] /\ Head(todo_) \in S /\ 1 \in 1..Len(todo_)
           /\ Tail(todo_) \in Seq(S) /\ Len(Tail(todo_)) \in Nat
           /\ \A k \in 1..Len(Tail(todo_)) :
                 k + 1 \in 1..Len(todo_) /\ k + 1 > 1 /\ Tail(todo_)[k] = todo_[k + 1]
OBVIOUS

LEMMA PlacedKept ==
    ASSUME NEW bd \in Body, NEW new \in Body, NEW s, Placed(bd, s), s # <<>>,
           Kept(bd, new, Head(s).block, Head(s).index)
    PROVE  Placed(new, Tail(s))
<1> DEFINE t == Tail(s)
           d == Head(s)
<1>1. s \in Seq(DerefPosition)
  BY DEF Placed
<1>2. /\ d = s[1] /\ 1 \in 1..Len(s) /\ t \in Seq(DerefPosition) /\ Len(t) \in Nat
      /\ \A k \in 1..Len(t) : k + 1 \in 1..Len(s) /\ k + 1 > 1 /\ t[k] = s[k + 1]
  BY <1>1, TailFacts
<1> HIDE DEF t, d
<1>3. Kept(bd, new, d.block, d.index) /\ Len(bd) \in Nat /\ Len(new) \in Nat
  BY BlocksOf DEF d
<1>4. ASSUME NEW k \in 1..Len(t)
      PROVE  /\ t[k].block \in 1..Len(new)
             /\ t[k].index \in 1..Len(new[t[k].block].stmts) + 1
             /\ ItemsOf(new[t[k].block])[t[k].index].at = t[k].at
  <2> DEFINE b == t[k].block
             i == t[k].index
  <2>1. /\ b \in 1..Len(bd) /\ i \in 1..Len(bd[b].stmts) + 1
        /\ ItemsOf(bd[b])[i].at = t[k].at
        /\ b = d.block => i < d.index
    <3>1. PICK m \in 1..Len(s) : m > 1 /\ t[k] = s[m]
      BY <1>2
    <3>2. /\ s[m].block \in 1..Len(bd)
          /\ s[m].index \in 1..Len(bd[s[m].block].stmts) + 1
          /\ ItemsOf(bd[s[m].block])[s[m].index].at = s[m].at
          /\ s[m].block = s[1].block => s[m].index < s[1].index
      BY <1>2, <3>1 DEF Placed
    <3>3. QED
      BY <1>2, <3>1, <3>2
  <2> HIDE DEF b, i
  <2>2. b \in 1..Len(new)
    BY <1>3, <2>1 DEF Kept
  <2>3. CASE b # d.block
    <3>1. new[b] = bd[b]
      BY <1>3, <2>1, <2>3 DEF Kept
    <3>2. QED
      BY <2>1, <2>2, <3>1 DEF b, i
  <2>4. CASE b = d.block
    <3>1. /\ Len(new[b].stmts) \in Nat /\ Len(bd[b].stmts) \in Nat
          /\ bd[b] \in BasicBlock /\ new[b] \in BasicBlock
      BY <2>1, <2>2, TermFacts, ItemFacts, Zenon
    <3>2. d.index \in 1..Len(bd[b].stmts) + 1
      BY <1>2, <2>4 DEF Placed
    <3>3. i \in 1..d.index - 1 /\ Len(new[b].stmts) >= d.index - 1
      BY <1>3, <2>1, <2>4, <3>1, <3>2 DEF Kept
    <3>4. new[b].stmts[i] = bd[b].stmts[i]
      BY <1>3, <2>4, <3>3 DEF Kept
    <3>5. i \in 1..Len(new[b].stmts) /\ i \in 1..Len(bd[b].stmts)
      BY <3>1, <3>2, <3>3
    <3>6. ItemsOf(new[b])[i] = new[b].stmts[i] /\ ItemsOf(bd[b])[i] = bd[b].stmts[i]
      BY <3>1, <3>5, ItemFacts, SMTT(30)
    <3>7. i \in 1..Len(new[b].stmts) + 1
      BY <3>1, <3>5
    <3>8. QED
      BY <2>1, <2>2, <3>4, <3>6, <3>7 DEF b, i
  <2>5. QED
    BY <2>3, <2>4
<1>5. ASSUME NEW j \in 1..Len(t), NEW k \in 1..Len(t), j < k, t[j].block = t[k].block
      PROVE  t[k].index < t[j].index
  <2>1. j + 1 < k + 1
    BY <1>2, <1>5
  <2>2. QED
    BY <1>2, <1>5, <2>1, Zenon DEF Placed
<1>6. QED
  BY <1>2, <1>4, <1>5 DEF Placed, t

-----------------------------------------------------------------------------
(* Positions of calls and drops.                                            *)

HookPosition == [block : Nat, at : Seq(Nat), name : Names]

(* s lists blocks of bd, each once.                                         *)
Listed(bd, s) ==
    /\ s \in Seq(HookPosition)
    /\ \A k \in 1..Len(s) :
          s[k].block \in 1..Len(bd) /\ bd[s[k].block].term.at = s[k].at
    /\ \A j, k \in 1..Len(s) : j # k => s[j].block # s[k].block

CallsTarget(term, name) == term.fn = name /\ name \in CallTargets /\ term.kind = "call"
DropsNamed(term, name) == term.of = name /\ DropsGuard(term)
CallsOf(bd, s) == \A k \in 1..Len(s) : CallsTarget(bd[s[k].block].term, s[k].name)
DropsOf(bd, s) == \A k \in 1..Len(s) : DropsNamed(bd[s[k].block].term, s[k].name)

LEMMA CollectedListed ==
    ASSUME NEW bd \in Body, NEW hits, NEW names \in [1..Len(bd) -> Names]
    PROVE  LET s == Picked([b \in Blocks(bd) |-> CallPosition(bd, b, names[b])], hits) IN
           /\ Listed(bd, s)
           /\ \A k \in 1..Len(s) : s[k].block \in hits /\ s[k].name = names[s[k].block]
<1> DEFINE seq == [b \in Blocks(bd) |-> CallPosition(bd, b, names[b])]
           s == Picked(seq, hits)
           N == Len(bd)
<1>1. Blocks(bd) = 1..N /\ N \in Nat
  BY BlocksOf
<1>2. ASSUME NEW b \in 1..N
      PROVE  /\ CallPosition(bd, b, names[b]) \in HookPosition
             /\ seq[b].block = b /\ seq[b].at = bd[b].term.at /\ seq[b].name = names[b]
  <2>1. seq[b] = [block |-> b, at |-> bd[b].term.at, name |-> names[b]]
    BY <1>1 DEF CallPosition
  <2>2. bd[b].term.at \in Seq(Nat)
    BY TermFacts DEF Terminator
  <2>3. b \in Nat /\ names[b] \in Names
    BY <1>1
  <2>4. QED
    BY <1>1, <2>1, <2>2, <2>3 DEF HookPosition, CallPosition
<1>3. seq \in Seq(HookPosition) /\ Len(seq) = N
  <2>1. seq \in [1..N -> HookPosition]
    BY <1>1, <1>2
  <2> HIDE DEF seq
  <2>2. QED
    BY <1>1, <2>1, TabledSequence
<1> HIDE DEF seq
<1>4. s \in Seq(HookPosition)
  BY <1>3, PickedType
<1>5. PICK from : Sources(seq, hits, s, Len(seq), from)
  BY <1>3, PickedSources, Zenon
<1> HIDE DEF s
<1>6. \A k \in 1..Len(s) : from[k] \in 1..N /\ s[k] = seq[from[k]] /\ from[k] \in hits
  BY <1>3, <1>5, Zenon DEF Sources
<1>7. \A k \in 1..Len(s) : /\ s[k].block = from[k] /\ s[k].at = bd[from[k]].term.at
                           /\ s[k].name = names[from[k]]
  BY <1>2, <1>6
<1>8. ASSUME NEW j \in 1..Len(s), NEW k \in 1..Len(s), j # k
      PROVE  s[j].block # s[k].block
  <2>1. Len(s) \in Nat /\ (j < k \/ k < j)
    BY <1>4, <1>8
  <2>2. from[j] < from[k] \/ from[k] < from[j]
    BY <1>5, <2>1 DEF Sources
  <2>3. from[j] \in Nat /\ from[k] \in Nat
    BY <1>1, <1>6
  <2>4. QED
    BY <1>7, <2>2, <2>3
<1>9. Listed(bd, s) /\ \A k \in 1..Len(s) : s[k].block \in hits /\ s[k].name = names[s[k].block]
  BY <1>4, <1>6, <1>7, <1>8 DEF Listed
<1>10. QED
  BY <1>9 DEF s, seq

(* The block of the first position may change, the others do not.           *)
Elsewhere(bd, new, b) ==
    /\ new \in Body /\ Len(new) >= Len(bd)
    /\ \A c \in 1..Len(bd) : c # b => new[c] = bd[c]

LEMMA ListedKept ==
    ASSUME NEW bd \in Body, NEW new, NEW s, Listed(bd, s), s # <<>>,
           Elsewhere(bd, new, Head(s).block)
    PROVE  /\ Listed(new, Tail(s))
           /\ \A k \in 1..Len(Tail(s)) : \E m \in 1..Len(s) :
                 /\ Tail(s)[k] = s[m]
                 /\ new[Tail(s)[k].block] = bd[s[m].block]
<1> DEFINE t == Tail(s)
           d == Head(s)
<1>1. s \in Seq(HookPosition)
  BY DEF Listed
<1>2. /\ d = s[1] /\ 1 \in 1..Len(s) /\ t \in Seq(HookPosition) /\ Len(t) \in Nat
      /\ \A k \in 1..Len(t) : k + 1 \in 1..Len(s) /\ k + 1 > 1 /\ t[k] = s[k + 1]
  BY <1>1, TailFacts
<1> HIDE DEF t, d
<1>3. Elsewhere(bd, new, d.block) /\ Len(bd) \in Nat /\ Len(new) \in Nat
  BY BlocksOf DEF d, Elsewhere
<1>4. ASSUME NEW k \in 1..Len(t)
      PROVE  \E m \in 1..Len(s) :
                /\ t[k] = s[m] /\ m = k + 1 /\ new[t[k].block] = bd[s[m].block]
                /\ t[k].block \in 1..Len(new) /\ new[t[k].block].term.at = t[k].at
  <2>1. k + 1 \in 1..Len(s) /\ k + 1 > 1 /\ t[k] = s[k + 1]
    BY <1>2
  <2> DEFINE m == k + 1
  <2>2. m \in 1..Len(s) /\ m # 1 /\ t[k] = s[m]
    BY <2>1
  <2> HIDE DEF m
  <2>3. /\ s[m].block \in 1..Len(bd) /\ s[m].block # s[1].block
        /\ bd[s[m].block].term.at = s[m].at
    BY <1>2, <2>2, Zenon DEF Listed
  <2>4. new[s[m].block] = bd[s[m].block] /\ s[m].block \in 1..Len(new)
    BY <1>2, <1>3, <2>3, SMTT(30) DEF Elsewhere
  <2>5. QED
    BY <2>2, <2>3, <2>4 DEF m
<1>5. ASSUME NEW j \in 1..Len(t), NEW k \in 1..Len(t), j # k
      PROVE  t[j].block # t[k].block
  <2>1. /\ j + 1 \in 1..Len(s) /\ k + 1 \in 1..Len(s) /\ j + 1 # k + 1
        /\ t[j] = s[j + 1] /\ t[k] = s[k + 1]
    BY <1>2, <1>5
  <2>2. QED
    BY <2>1 DEF Listed
<1>6. Listed(new, t)
  BY <1>2, <1>4, <1>5 DEF Listed
<1>7. QED
  BY <1>4, <1>6 DEF t

LEMMA WorkKept ==
    ASSUME NEW bd \in Body, NEW new, NEW s, Listed(bd, s), s # <<>>,
           Elsewhere(bd, new, Head(s).block)
    PROVE  /\ Listed(new, Tail(s))
           /\ CallsOf(bd, s) => CallsOf(new, Tail(s))
           /\ DropsOf(bd, s) => DropsOf(new, Tail(s))
<1>1. /\ Listed(new, Tail(s))
      /\ \A k \in 1..Len(Tail(s)) : \E m \in 1..Len(s) :
            /\ Tail(s)[k] = s[m]
            /\ new[Tail(s)[k].block] = bd[s[m].block]
  BY ListedKept
<1> DEFINE t == Tail(s)
<1> HIDE DEF t
<1>2. ASSUME NEW k \in 1..Len(t)
      PROVE  \E m \in 1..Len(s) : t[k] = s[m] /\ new[t[k].block] = bd[s[m].block]
  BY <1>1 DEF t
<1>3. ASSUME CallsOf(bd, s), NEW k \in 1..Len(t)
      PROVE  CallsTarget(new[t[k].block].term, t[k].name)
  <2>1. PICK m \in 1..Len(s) : t[k] = s[m] /\ new[t[k].block] = bd[s[m].block]
    BY <1>2
  <2>2. CallsTarget(bd[s[m].block].term, s[m].name)
    BY <1>3 DEF CallsOf
  <2>3. QED
    BY <2>1, <2>2
<1>4. ASSUME DropsOf(bd, s), NEW k \in 1..Len(t)
      PROVE  DropsNamed(new[t[k].block].term, t[k].name)
  <2>1. PICK m \in 1..Len(s) : t[k] = s[m] /\ new[t[k].block] = bd[s[m].block]
    BY <1>2
  <2>2. DropsNamed(bd[s[m].block].term, s[m].name)
    BY <1>4 DEF DropsOf
  <2>3. QED
    BY <2>1, <2>2
<1>5. QED
  BY <1>1, <1>3, <1>4 DEF CallsOf, DropsOf, t
-----------------------------------------------------------------------------
(* Instrumenting a call or a drop.                                          *)

(* A hook takes over only pointers, and an operation owns none.             *)
LEMMA ArgsSpared ==
    ASSUME NEW args \in Operands, OneModeEach(args)
    PROVE  LET owned == {a[2] : a \in {x \in ToSet(args) : x[1] = "val"}} IN
           /\ Taken(MonitorArgs(args), {"copy", "move"}) \cap owned = {}
           /\ Taken(Append(MonitorArgs(args), <<"ref", "dest">>), {"copy", "move"}) \cap owned = {}
<1> DEFINE owned == {a[2] : a \in {x \in ToSet(args) : x[1] = "val"}}
           m == MonitorArgs(args)
           r == <<"ref", "dest">>
<1>1. Len(args) \in Nat /\ DOMAIN args = 1..Len(args)
  BY DEF Operands
<1>2. /\ m \in Operands /\ r \in Names \X Names /\ Append(m, r) \in Operands
      /\ Len(m) = Len(args)
      /\ \A k \in 1..Len(args) :
            m[k] = <<IF args[k][1] = "ptr" THEN "copy" ELSE "ref", args[k][2]>>
  <2>1. m \in Operands /\ Append(m, r) \in Operands
    BY MonitorArgsType
  <2>2. m = [k \in DOMAIN args |-> <<IF args[k][1] = "ptr" THEN "copy" ELSE "ref", args[k][2]>>]
    BY DEF MonitorArgs
  <2>3. DOMAIN m = 1..Len(args)
    BY <1>1, <2>2
  <2>4. Len(m) = Len(args)
    BY <1>1, <2>1, <2>3 DEF Operands
  <2>5. QED
    BY <1>1, <2>1, <2>2, <2>4, WordFacts, Zenon
<1> DEFINE all == Append(m, r)
<1> HIDE DEF m
<1>3. /\ \A k \in 1..Len(args) : all[k] = m[k]
      /\ DOMAIN all = 1..Len(args) + 1 /\ all[Len(args) + 1] = r /\ DOMAIN m = 1..Len(args)
  BY <1>1, <1>2 DEF Operands
<1> HIDE DEF all
<1>4. ASSUME NEW k \in 1..Len(args), m[k][1] \in {"copy", "move"}
      PROVE  m[k][2] \notin owned
  <2>1. args[k][1] = "ptr" /\ m[k][2] = args[k][2]
    BY <1>2, <1>4
  <2>2. SUFFICES ASSUME NEW j \in 1..Len(args), args[j][1] = "val", args[j][2] = args[k][2]
                 PROVE FALSE
    BY <1>1, <2>1 DEF ToSet
  <2>3. QED
    BY <1>1, <2>1, <2>2 DEF OneModeEach
<1>5. Taken(m, {"copy", "move"}) \cap owned = {}
  <2>1. SUFFICES ASSUME NEW k \in 1..Len(args), m[k][1] \in {"copy", "move"}
                 PROVE  m[k][2] \notin owned
    BY <1>3 DEF Taken, ToSet
  <2>2. QED
    BY <1>4, <2>1
<1>6. Taken(all, {"copy", "move"}) \cap owned = {}
  <2>1. SUFFICES ASSUME NEW k \in 1..Len(args) + 1, all[k][1] \in {"copy", "move"}
                 PROVE  all[k][2] \notin owned
    BY <1>3 DEF Taken, ToSet
  <2>2. r[1] \notin {"copy", "move"}
    OBVIOUS
  <2>3. k \in 1..Len(args) /\ all[k] = m[k]
    BY <1>1, <1>3, <2>1, <2>2
  <2>4. QED
    BY <1>4, <2>1, <2>3
<1>7. QED
  BY <1>5, <1>6 DEF all, m

(* What the two halves of an edit have in common.                           *)
LEMMA MovedElsewhere ==
    ASSUME NEW bd \in Body, NEW b \in 1..Len(bd), NEW new, Moved(bd, new, b)
    PROVE  /\ Elsewhere(bd, new, b)
           /\ new[Len(bd) + 1].term = bd[b].term
           /\ new[Len(bd) + 1].cleanup = bd[b].cleanup
           /\ Len(bd) + 1 \in 1..Len(new)
BY BlocksOf DEF Moved, GrownAt, Elsewhere

LEMMA FollowedElsewhere ==
    ASSUME NEW bd \in Body, NEW b \in 1..Len(bd), NEW x, Elsewhere(bd, x, b),
           NEW c \in {b, Len(bd) + 1}, NEW new, Followed(x, new, c)
    PROVE  Elsewhere(bd, new, b)
<1>1. Len(bd) \in Nat /\ x \in Body /\ Len(x) \in Nat
  BY BlocksOf DEF Elsewhere
<1>2. QED
  BY <1>1 DEF Followed, GrownAt, Elsewhere

LEMMA UserTerm ==
    ASSUME NEW bd, NEW src, Sound(bd, src), NEW b \in 1..Len(bd), NEW name,
           CallsTarget(bd[b].term, name) \/ DropsNamed(bd[b].term, name)
    PROVE  bd[b].term.at # Nowhere /\ OneModeEach(bd[b].term.args)
<1> DEFINE term == bd[b].term
<1>1. GoodTerm(term, bd[b].cleanup, src)
  BY BlocksOf DEF Sound, GoodTerms
<1> HIDE DEF term
<1>2. CASE term.at = Nowhere
  <2>1. term.kind = "call" /\ term.fn \in HookNames
    BY <1>1, <1>2 DEF GoodTerm
  <2>2. term.fn \notin CallTargets /\ term.fn \notin MemDrop
    BY <2>1, HooksAreNoTargets
  <2>3. ~CallsTarget(term, name)
    BY <2>2 DEF CallsTarget
  <2>4. ~DropsGuard(term)
    BY <2>1, <2>2, Zenon DEF DropsGuard, FunctionPath
  <2>5. QED
    BY <2>3, <2>4 DEF DropsNamed, term
<1>3. QED
  BY <1>1, <1>2 DEF GoodTerm, term
LEMMA CallInstrumented ==
    ASSUME NEW bd, NEW src, Sound(bd, src), NEW b \in 1..Len(bd), NEW name,
           CallsTarget(bd[b].term, name)
    PROVE  LET moved == CallBefore(bd, b, name)
               new == CallAfter(moved.body, moved.block, name)
           IN  Sound(new, src) /\ Elsewhere(bd, new, b)
<1> DEFINE call == bd[b].term
           owned == {a[2] : a \in {x \in ToSet(call.args) : x[1] = "val"}}
           moved == CallBefore(bd, b, name)
           mid == moved.body
           c == moved.block
           new == CallAfter(mid, c, name)
<1>1. /\ bd \in Body /\ Len(bd) \in Nat /\ GoodTerm(call, bd[b].cleanup, src)
      /\ call \in Terminator /\ call.args \in Operands
  BY BlocksOf, TermFacts DEF Sound, GoodTerms
<1>2. call.fn = name /\ name \in CallTargets /\ call.kind = "call" /\ name \in Names
  BY <1>1 DEF CallsTarget, Terminator
<1>3. call.at # Nowhere /\ OneModeEach(call.args)
  BY UserTerm
<1>4. /\ ~bd[b].cleanup
      /\ name \notin WaitsOnCondvar => owned = {}
  <2>1. /\ ~bd[b].cleanup
        /\ name \notin WaitsOnCondvar => \A k \in DOMAIN call.args : call.args[k][1] # "val"
    BY <1>1, <1>2 DEF GoodTerm
  <2>2. \A x \in ToSet(call.args) : \E k \in DOMAIN call.args : x = call.args[k]
    BY DEF ToSet
  <2>3. QED
    BY <2>1, <2>2
<1>5. Values(call) = owned
  BY <1>2 DEF Values
<1>6. /\ Taken(MonitorArgs(call.args), {"copy", "move"}) \cap owned = {}
      /\ Taken(Append(MonitorArgs(call.args), <<"ref", "dest">>), {"copy", "move"})
             \cap owned = {}
  BY <1>1, <1>3, ArgsSpared
<1> HIDE DEF call, owned
<1>7. /\ Sound(mid, src) /\ Elsewhere(bd, mid, b) /\ c \in {b, Len(bd) + 1}
      /\ c \in 1..Len(mid) /\ mid[c].term = call /\ ~mid[c].cleanup
  <2>1. CASE name \notin lib.before
    <3>1. mid = bd /\ c = b
      BY <1>1, <1>2, <1>4, <2>1, CallBeforeFacts
    <3>2. QED
      BY <1>1, <1>4, <3>1 DEF Elsewhere, call
  <2>2. CASE name \in lib.before
    <3>1. /\ c = Len(bd) + 1 /\ Moved(bd, mid, b) /\ mid[b].term.fn = "before"
          /\ mid[b].term.args = MonitorArgs(call.args)
      BY <1>1, <1>2, <1>4, <2>2, CallBeforeFacts DEF call
    <3> HIDE DEF mid, c
    <3>2. Spared(mid[b].term, bd[b].term)
      BY <1>5, <1>6, <3>1 DEF Spared, call
    <3>3. Editable(bd, b)
      BY <1>3 DEF Editable, call
    <3>4. Sound(mid, src)
      BY <3>1, <3>2, <3>3, MovedSound
    <3>5. QED
      BY <1>1, <1>4, <3>1, <3>4, MovedElsewhere DEF call
  <2>3. QED
    BY <2>1, <2>2
<1> HIDE DEF mid, c
<1>8. mid \in Body
  BY <1>7 DEF Elsewhere
<1>9. CASE name \notin lib.after
  <2>1. new = mid
    BY <1>2, <1>7, <1>8, <1>9, CallAfterFacts
  <2>2. QED
    BY <1>7, <2>1 DEF mid, c
<1>10. CASE name \in lib.after
  <2> DEFINE hook == new[Len(mid) + 1].term
  <2>1. /\ Followed(mid, new, c) /\ hook.of = name
        /\ hook.args = Append(MonitorArgs(call.args), <<"ref", "dest">>)
    BY <1>2, <1>7, <1>8, <1>10, CallAfterFacts, Zenon
  <2> HIDE DEF new
  <2>2. Spared(hook, mid[c].term)
    BY <1>5, <1>6, <1>7, <2>1, Zenon DEF Spared
  <2>3. LateOnly(hook, mid[c].term)
    BY <1>4, <1>5, <1>7, <2>1 DEF LateOnly
  <2> HIDE DEF hook
  <2>4. Sound(new, src)
    BY <1>3, <1>7, <2>1, <2>2, <2>3, FollowedSound DEF hook
  <2>5. Elsewhere(bd, new, b)
    BY <1>1, <1>7, <2>1, FollowedElsewhere
  <2>6. QED
    BY <2>4, <2>5 DEF new, mid, c
<1>11. QED
  BY <1>9, <1>10

LEMMA DropInstrumented ==
    ASSUME NEW bd, NEW src, Sound(bd, src), NEW b \in 1..Len(bd), NEW name,
           DropsNamed(bd[b].term, name)
    PROVE  LET moved == DropBefore(bd, b, name)
               new == DropAfter(moved.body, moved.block, name)
           IN  Sound(new, src) /\ Elsewhere(bd, new, b)
<1> DEFINE drop == bd[b].term
           moved == DropBefore(bd, b, name)
           mid == moved.body
           c == moved.block
           new == DropAfter(mid, c, name)
<1>1. bd \in Body /\ Len(bd) \in Nat
  BY BlocksOf DEF Sound
<1>2. drop.of \in GuardTypes
  BY DEF DropsNamed, DropsGuard
<1>3. drop.at # Nowhere
  BY UserTerm
<1>4. Taken(<<<<"ref", "guard">>>>, {"copy", "move"}) = {}
  <2> DEFINE args == <<<<"ref", "guard">>>>
  <2>1. \A x \in ToSet(args) : x = <<"ref", "guard">>
    BY DEF ToSet
  <2> HIDE DEF args
  <2>2. \A x \in ToSet(args) : x[1] = "ref"
    BY <2>1
  <2>3. QED
    BY <2>2 DEF Taken, args
<1> HIDE DEF drop
<1>5. /\ Sound(mid, src) /\ Elsewhere(bd, mid, b) /\ c \in {b, Len(bd) + 1}
      /\ c \in 1..Len(mid) /\ mid[c].term = drop
  <2>1. CASE name \notin lib.before
    <3>1. mid = bd /\ c = b
      BY <1>1, <2>1, DropBeforeFacts
    <3>2. QED
      BY <1>1, <3>1 DEF Elsewhere, drop
  <2>2. CASE name \in lib.before
    <3>1. /\ c = Len(bd) + 1 /\ Moved(bd, mid, b) /\ mid[b].term.fn = "before"
          /\ mid[b].term.args = <<<<"ref", "guard">>>>
      BY <1>1, <2>2, DropBeforeFacts
    <3> HIDE DEF mid, c
    <3>2. Spared(mid[b].term, bd[b].term)
      BY <1>4, <3>1, Zenon DEF Spared
    <3>3. Editable(bd, b)
      BY <1>3 DEF Editable, drop
    <3>4. Sound(mid, src)
      BY <3>1, <3>2, <3>3, MovedSound
    <3>5. QED
      BY <1>1, <3>1, <3>4, MovedElsewhere DEF drop
  <2>3. QED
    BY <2>1, <2>2
<1> HIDE DEF mid, c
<1>6. mid \in Body
  BY <1>5 DEF Elsewhere
<1>7. CASE name \notin lib.after
  <2>1. new = mid
    BY <1>5, <1>6, <1>7, DropAfterFacts
  <2>2. QED
    BY <1>5, <2>1 DEF mid, c
<1>8. CASE name \in lib.after
  <2> DEFINE hook == new[Len(mid) + 1].term
  <2>1. Followed(mid, new, c) /\ hook.of = drop.of /\ hook.args = <<<<"ref", "guard">>>>
    BY <1>5, <1>6, <1>8, DropAfterFacts
  <2> HIDE DEF new
  <2>2. Spared(hook, mid[c].term)
    BY <1>4, <2>1, Zenon DEF Spared
  <2>3. LateOnly(hook, mid[c].term)
    BY <1>2, <2>1 DEF LateOnly
  <2> HIDE DEF hook
  <2>4. Sound(new, src)
    BY <1>2, <1>3, <1>5, <2>1, <2>2, <2>3, FollowedSound DEF hook
  <2>5. Elsewhere(bd, new, b)
    BY <1>1, <1>5, <2>1, FollowedElsewhere
  <2>6. QED
    BY <2>4, <2>5 DEF new, mid, c
<1>9. QED
  BY <1>7, <1>8
-----------------------------------------------------------------------------
(* The inductive invariant.                                                 *)

Params == orig \in Bodies /\ lib \in Libs /\ owner \in Owners /\ phase \in Phases

(* Before the calls are instrumented no hook stands next to a call; before  *)
(* the accesses are, every item dereferences what it did.                   *)
Before ==
    /\ phase = "entry_before" => body = orig
    /\ phase \in {"entry_before", "entry_after", "gates", "collect_mem"} => Calm(body, orig)
    /\ phase \in {"mem", "collect_calls"} => NoCallHooks(body)
    /\ phase \notin {"entry_before", "entry_after", "gates", "done"} => Instrumentable(owner)

(* What is left to do is where the collecting pass found it.                *)
Work ==
    /\ phase = "mem" => Placed(body, todo)
    /\ phase = "calls" => Listed(body, todo) /\ CallsOf(body, todo)
    /\ phase = "drops" => Listed(body, todo) /\ DropsOf(body, todo)
    /\ phase \notin {"mem", "calls", "drops"} => todo = <<>>

IInv == Params /\ Sound(body, orig) /\ Before /\ Work /\ CrashesOnlyWhenUnsupported
LEMMA TwoPointers ==
    ASSUME NEW item, item.uses \in Operands, NEW contexts \in {ReadContexts, WriteContexts},
           Len(Pointers(item, contexts)) > 1
    PROVE  TwiceTheSameWay(item)
<1> DEFINE uses == item.uses
           places == {k \in DOMAIN uses : uses[k][1] \in contexts}
           picked == Picked(uses, places)
<1>1. uses \in Seq(Names \X Names) /\ Len(uses) \in Nat /\ DOMAIN uses = 1..Len(uses)
  BY DEF Operands
<1>2. Len(picked) > 1 /\ Len(picked) \in Nat
  <2>1. Len(Pointers(item, contexts)) = Len(picked)
    BY PointersType, Zenon
  <2>2. picked \in Seq(Names \X Names)
    BY <1>1, PickedType
  <2> HIDE DEF picked
  <2>3. QED
    BY <2>1, <2>2
<1>3. PICK from : Sources(uses, places, picked, Len(uses), from)
  BY <1>1, PickedSources, Zenon
<1> HIDE DEF picked
<1>4. /\ from[1] \in 1..Len(uses) /\ from[2] \in 1..Len(uses) /\ from[1] < from[2]
      /\ from[1] \in places /\ from[2] \in places
  <2>1. 1 \in 1..Len(picked) /\ 2 \in 1..Len(picked) /\ 1 < 2
    BY <1>2
  <2>2. QED
    BY <1>3, <2>1 DEF Sources
<1>5. QED
  BY <1>1, <1>4, Zenon DEF TwiceTheSameWay

(* The collector gives up only on a location of the program that does two   *)
(* accesses of one kind.                                                    *)
LEMMA GivenUp ==
    ASSUME NEW bd, NEW src, Calm(bd, src), Uncollectable(bd)
    PROVE  \E loc \in Locations(src) : TwiceTheSameWay(ItemAt(src, loc))
<1>1. bd \in Body /\ UsesKnown(bd, src)
  BY DEF Calm, Sound
<1>2. PICK loc \in Locations(bd) : \/ Len(Reads(ItemAt(bd, loc))) > 1
                                   \/ Len(Writes(ItemAt(bd, loc))) > 1
  BY DEF Uncollectable
<1> DEFINE item == ItemAt(bd, loc)
<1>3. item.uses \in Operands
  <2>1. PICK b \in 1..Len(bd) : \E i \in 1..Len(bd[b].stmts) + 1 :
            loc = <<b, i>> /\ ItemAt(bd, loc) = ItemsOf(bd[b])[i]
    BY <1>1, LocationsArePlaces
  <2>2. PICK i \in 1..Len(bd[b].stmts) + 1 : ItemAt(bd, loc) = ItemsOf(bd[b])[i]
    BY <2>1
  <2>3. QED
    BY <1>1, <2>2, ItemType
<1>4. Known(item.uses, src)
  BY <1>1, ItemsKnown
<1> HIDE DEF item
<1>5. \E contexts \in {ReadContexts, WriteContexts} : Len(Pointers(item, contexts)) > 1
  BY <1>2 DEF Reads, Writes, item
<1>6. TwiceTheSameWay(item)
  BY <1>3, <1>5, TwoPointers
<1>7. PICK i, j \in DOMAIN item.uses :
          /\ i < j
          /\ \E way \in {ReadContexts, WriteContexts} :
               item.uses[i][1] \in way /\ item.uses[j][1] \in way
  BY <1>6 DEF TwiceTheSameWay
<1>8. item.uses # <<>>
  BY <1>7
<1>9. PICK place \in Locations(src) : ItemAt(src, place).uses = item.uses
  BY <1>4, <1>8 DEF Known
<1>10. TwiceTheSameWay(ItemAt(src, place))
  BY <1>7, <1>9 DEF TwiceTheSameWay
<1>11. QED
  BY <1>10

-----------------------------------------------------------------------------
(* One lemma per pass.                                                      *)

LEMMA InitIInv == Init => IInv
<1> SUFFICES ASSUME Init PROVE IInv
  OBVIOUS
<1>1. Params /\ body = orig /\ orig \in Bodies /\ phase = "entry_before" /\ todo = <<>>
  BY DEF Init, Params, Phases
<1>2. Calm(body, orig)
  BY <1>1, OriginalIsCalm
<1>3. Sound(body, orig)
  BY <1>2 DEF Calm
<1>4. QED
  BY <1>1, <1>2, <1>3 DEF IInv, Before, Work, CrashesOnlyWhenUnsupported

LEMMA EntrySteps ==
    ASSUME IInv, EntryBefore \/ EntryAfter \/ Gates
    PROVE  IInv'
<1>1. Params /\ Sound(body, orig) /\ Before /\ Work /\ CrashesOnlyWhenUnsupported
  BY DEF IInv
<1>2. CASE EntryBefore
  <2>1. /\ phase = "entry_before" /\ body = orig /\ phase' = "entry_after" /\ todo' = <<>>
        /\ UNCHANGED <<orig, lib, owner>> /\ Calm(body, orig) /\ orig \in Bodies
    BY <1>1, <1>2 DEF EntryBefore, Before, Work, Params
  <2>2. Calm(body', orig')
    <3>1. body # <<>>
      BY <2>1, OriginalIsCalm
    <3>2. Calm(EnterThroughHook(body), orig)
      BY <2>1, <3>1, EnterCalm
    <3>3. body' = EnterThroughHook(body) \/ body' = body
      BY <1>2 DEF EntryBefore
    <3>4. QED
      BY <2>1, <3>2, <3>3
  <2>3. Sound(body', orig')
    BY <2>2 DEF Calm
  <2>4. Params' /\ Before' /\ Work' /\ CrashesOnlyWhenUnsupported'
    BY <1>1, <2>1, <2>2 DEF Params, Phases, Before, Work, CrashesOnlyWhenUnsupported
  <2>5. QED
    BY <2>3, <2>4 DEF IInv
<1>3. CASE EntryAfter
  <2>1. /\ phase = "entry_after" /\ phase' = "gates" /\ todo' = <<>>
        /\ UNCHANGED <<orig, lib, owner>> /\ Calm(body, orig)
    BY <1>1, <1>3 DEF EntryAfter, Before, Work
  <2>2. Calm(body', orig')
    <3>1. Calm(ReturnsThroughHook(body), orig)
      BY <2>1, ReturnsCalm
    <3>2. body' = ReturnsThroughHook(body) \/ body' = body
      BY <1>3 DEF EntryAfter
    <3>3. QED
      BY <2>1, <3>1, <3>2
  <2>3. Sound(body', orig')
    BY <2>2 DEF Calm
  <2>4. Params' /\ Before' /\ Work' /\ CrashesOnlyWhenUnsupported'
    BY <1>1, <2>1, <2>2 DEF Params, Phases, Before, Work, CrashesOnlyWhenUnsupported
  <2>5. QED
    BY <2>3, <2>4 DEF IInv
<1>4. CASE Gates
  <2>1. /\ phase = "gates" /\ phase' \in {"collect_mem", "done"} /\ todo' = <<>>
        /\ UNCHANGED <<body, orig, lib, owner>> /\ Calm(body, orig)
        /\ phase' = "collect_mem" => Instrumentable(owner)
    BY <1>1, <1>4 DEF Gates, Before, Work
  <2>2. Sound(body', orig') /\ Calm(body', orig')
    BY <2>1 DEF Calm
  <2>3. Params' /\ Before' /\ Work' /\ CrashesOnlyWhenUnsupported'
    BY <1>1, <2>1, <2>2
    DEF Params, Phases, Before, Work, CrashesOnlyWhenUnsupported, Instrumentable
  <2>4. QED
    BY <2>2, <2>3 DEF IInv
<1>5. QED
  BY <1>2, <1>3, <1>4
LEMMA MemSteps ==
    ASSUME IInv, CollectMem \/ InstrumentMem \/ MemDone
    PROVE  IInv'
<1>1. /\ Params /\ Sound(body, orig) /\ Before /\ Work /\ CrashesOnlyWhenUnsupported
      /\ body \in Body
  BY DEF IInv, Sound
<1>2. CASE CollectMem
  <2>1. /\ phase = "collect_mem" /\ todo = <<>> /\ Calm(body, orig) /\ NoCallHooks(body)
        /\ UNCHANGED <<body, orig, lib, owner>> /\ Instrumentable(owner)
    BY <1>1, <1>2 DEF CollectMem, Before, Work, Calm
  <2>2. CASE phase' = "ice"
    <3>1. {"mem_read", "mem_write"} \subseteq lib.one /\ Uncollectable(body) /\ todo' = <<>>
      BY <1>2, <2>1, <2>2 DEF CollectMem
    <3>2. \E loc \in Locations(orig) : TwiceTheSameWay(ItemAt(orig, loc))
      BY <2>1, <3>1, GivenUp
    <3>3. CrashesOnlyWhenUnsupported'
      BY <2>1, <3>1, <3>2 DEF CrashesOnlyWhenUnsupported, Instrumentable
    <3>4. Params' /\ Sound(body', orig') /\ Before' /\ Work'
      BY <1>1, <2>1, <2>2, <3>1 DEF Params, Phases, Before, Work, Instrumentable
    <3>5. QED
      BY <3>3, <3>4 DEF IInv
  <2>3. CASE phase' = "collect_calls" /\ todo' = todo
    <3>1. Params' /\ Sound(body', orig') /\ Before' /\ Work' /\ CrashesOnlyWhenUnsupported'
      BY <1>1, <2>1, <2>3
      DEF Params, Phases, Before, Work, CrashesOnlyWhenUnsupported, Instrumentable
    <3>2. QED
      BY <3>1 DEF IInv
  <2>4. CASE phase' = "mem"
    <3> DEFINE T == {b \in Blocks(body) : Derefs(body, b) # <<>>}
    <3>1. PICK order \in SetToSeqs(T) :
              todo' = FlattenSeq([k \in DOMAIN order |-> DerefsInOrder(body, order[k])])
      BY <1>2, <2>4 DEF CollectMem
    <3>2. T \in SUBSET Blocks(body)
      OBVIOUS
    <3> HIDE DEF T
    <3>3. Placed(body, FlattenSeq([k \in DOMAIN order |-> DerefsInOrder(body, order[k])]))
      BY <1>1, <3>2, BlocksInAnyOrder
    <3>4. Placed(body, todo')
      BY <3>1, <3>3, Zenon
    <3>5. Placed(body', todo')
      BY <2>1, <3>4
    <3>6. Params' /\ Sound(body', orig') /\ Before' /\ Work' /\ CrashesOnlyWhenUnsupported'
      BY <1>1, <2>1, <2>4, <3>5
      DEF Params, Phases, Before, Work, CrashesOnlyWhenUnsupported, Instrumentable
    <3>7. QED
      BY <3>6 DEF IInv
  <2>5. QED
    BY <1>2, <2>2, <2>3, <2>4 DEF CollectMem
<1>3. CASE InstrumentMem
  <2> DEFINE d == Head(todo)
             new == AccessThroughHooks(body, d)
  <2>1. /\ phase = "mem" /\ phase' = "mem" /\ todo # <<>> /\ Placed(body, todo)
        /\ NoCallHooks(body) /\ UNCHANGED <<orig, lib, owner>> /\ Instrumentable(owner)
        /\ body' = new /\ todo' = Tail(todo)
    BY <1>1, <1>3 DEF InstrumentMem, Before, Work
  <2>2. /\ d.block \in 1..Len(body) /\ d.index \in Nat \ {0}
        /\ d.index - 1 <= Len(body[d.block].stmts)
        /\ d.read \in Seq(Names) /\ d.write \in Seq(Names)
    <3>1. todo \in Seq(DerefPosition)
      BY <2>1 DEF Placed
    <3>2. d = todo[1] /\ d \in DerefPosition /\ 1 \in 1..Len(todo)
      BY <2>1, <3>1, TailFacts
    <3>3. d.block \in 1..Len(body) /\ d.index \in 1..Len(body[d.block].stmts) + 1
      BY <2>1, <3>2 DEF Placed
    <3>4. Len(body[d.block].stmts) \in Nat
      BY <1>1, <3>3, TermFacts, ItemFacts
    <3>5. d.read \in Seq(Names) /\ d.write \in Seq(Names)
      BY <3>2 DEF DerefPosition
    <3> HIDE DEF d
    <3>6. QED
      BY <3>3, <3>4, <3>5
  <2> HIDE DEF d
  <2>3. Sound(new, orig) /\ NoCallHooks(new) /\ Kept(body, new, d.block, d.index)
    BY <1>1, <2>1, <2>2, AccessFacts
  <2>4. Placed(new, Tail(todo))
    <3>1. new \in Body
      BY <2>3 DEF Sound
    <3> HIDE DEF new
    <3>2. QED
      BY <1>1, <2>1, <2>3, <3>1, PlacedKept DEF d
  <2> HIDE DEF new
  <2>5. Sound(body', orig') /\ NoCallHooks(body') /\ Placed(body', todo')
    BY <2>1, <2>3, <2>4
  <2>6. Params' /\ Before' /\ Work' /\ CrashesOnlyWhenUnsupported'
    BY <1>1, <2>1, <2>5
    DEF Params, Phases, Before, Work, CrashesOnlyWhenUnsupported, Instrumentable
  <2>7. QED
    BY <2>5, <2>6 DEF IInv
<1>4. CASE MemDone
  <2>1. /\ phase = "mem" /\ phase' = "collect_calls" /\ todo = <<>> /\ NoCallHooks(body)
        /\ UNCHANGED <<body, orig, lib, owner, todo>> /\ Instrumentable(owner)
    BY <1>1, <1>4 DEF MemDone, Before
  <2>2. Params' /\ Sound(body', orig') /\ Before' /\ Work' /\ CrashesOnlyWhenUnsupported'
    BY <1>1, <2>1
    DEF Params, Phases, Before, Work, CrashesOnlyWhenUnsupported, Instrumentable
  <2>3. QED
    BY <2>2 DEF IInv
<1>5. QED
  BY <1>2, <1>3, <1>4

LEMMA CallSteps ==
    ASSUME IInv, CollectCalls \/ InstrumentCall \/ CallsDone
    PROVE  IInv'
<1>1. /\ Params /\ Sound(body, orig) /\ Before /\ Work /\ CrashesOnlyWhenUnsupported
      /\ body \in Body
  BY DEF IInv, Sound
<1>2. CASE CollectCalls
  <2> DEFINE hits == {b \in Blocks(body) : FunctionPath(body[b].term) \cap CallTargets # {}}
             names == [b \in 1..Len(body) |-> body[b].term.fn]
             s == Picked([b \in Blocks(body) |-> CallPosition(body, b, names[b])], hits)
  <2>1. /\ phase = "collect_calls" /\ phase' = "calls" /\ Instrumentable(owner)
        /\ UNCHANGED <<body, orig, lib, owner>>
    BY <1>1, <1>2 DEF CollectCalls, Before
  <2>2. Blocks(body) = 1..Len(body) /\ names \in [1..Len(body) -> Names]
    BY <1>1, BlocksOf, TermFacts DEF Terminator
  <2>3. todo' = s
    <3>1. [b \in Blocks(body) |-> CallPosition(body, b, body[b].term.fn)]
            = [b \in Blocks(body) |-> CallPosition(body, b, names[b])]
      BY <2>2
    <3>2. QED
      BY <1>2, <3>1, Zenon DEF CollectCalls
  <2> HIDE DEF names, hits
  <2>4. Listed(body, s) /\ \A k \in 1..Len(s) : s[k].block \in hits /\ s[k].name = names[s[k].block]
    BY <1>1, <2>2, CollectedListed, SMTT(30)
  <2> HIDE DEF s
  <2>5. CallsOf(body, s)
    <3>1. SUFFICES ASSUME NEW k \in 1..Len(s)
                   PROVE  CallsTarget(body[s[k].block].term, s[k].name)
      BY DEF CallsOf
    <3> DEFINE b == s[k].block
    <3>2. b \in hits /\ s[k].name = names[b]
      BY <2>4
    <3> HIDE DEF b
    <3>3. FunctionPath(body[b].term) \cap CallTargets # {} /\ names[b] = body[b].term.fn
      BY <2>2, <3>2 DEF hits, names
    <3>4. QED
      BY <3>2, <3>3, Zenon DEF FunctionPath, CallsTarget, b
  <2>6. Listed(body', todo') /\ CallsOf(body', todo')
    BY <2>1, <2>3, <2>4, <2>5
  <2>7. Params' /\ Sound(body', orig') /\ Before' /\ Work' /\ CrashesOnlyWhenUnsupported'
    BY <1>1, <2>1, <2>6
    DEF Params, Phases, Before, Work, CrashesOnlyWhenUnsupported, Instrumentable
  <2>8. QED
    BY <2>7 DEF IInv
<1>3. CASE InstrumentCall
  <2> DEFINE pos == Head(todo)
             moved == CallBefore(body, pos.block, pos.name)
             new == CallAfter(moved.body, moved.block, pos.name)
  <2>1. /\ phase = "calls" /\ phase' = "calls" /\ todo # <<>> /\ Listed(body, todo)
        /\ CallsOf(body, todo) /\ UNCHANGED <<orig, lib, owner>> /\ Instrumentable(owner)
        /\ body' = new /\ todo' = Tail(todo)
    BY <1>1, <1>3 DEF InstrumentCall, Before, Work
  <2>2. /\ pos.block \in 1..Len(body) /\ CallsTarget(body[pos.block].term, pos.name)
    <3>1. todo \in Seq(HookPosition)
      BY <2>1 DEF Listed
    <3>2. pos = todo[1] /\ 1 \in 1..Len(todo)
      BY <2>1, <3>1, TailFacts
    <3>3. QED
      BY <2>1, <3>2 DEF Listed, CallsOf
  <2>3. Sound(new, orig) /\ Elsewhere(body, new, pos.block)
    <3> HIDE DEF pos
    <3>1. QED
      BY <1>1, <2>2, CallInstrumented
  <2> HIDE DEF new
  <2>4. Listed(new, Tail(todo)) /\ CallsOf(new, Tail(todo))
    BY <1>1, <2>1, <2>3, WorkKept
  <2>5. Sound(body', orig') /\ Listed(body', todo') /\ CallsOf(body', todo')
    BY <2>1, <2>3, <2>4
  <2>6. Params' /\ Before' /\ Work' /\ CrashesOnlyWhenUnsupported'
    BY <1>1, <2>1, <2>5
    DEF Params, Phases, Before, Work, CrashesOnlyWhenUnsupported, Instrumentable
  <2>7. QED
    BY <2>5, <2>6 DEF IInv
<1>4. CASE CallsDone
  <2>1. /\ phase = "calls" /\ phase' = "collect_drops" /\ todo = <<>> /\ Instrumentable(owner)
        /\ UNCHANGED <<body, orig, lib, owner, todo>>
    BY <1>1, <1>4 DEF CallsDone, Before
  <2>2. Params' /\ Sound(body', orig') /\ Before' /\ Work' /\ CrashesOnlyWhenUnsupported'
    BY <1>1, <2>1
    DEF Params, Phases, Before, Work, CrashesOnlyWhenUnsupported, Instrumentable
  <2>3. QED
    BY <2>2 DEF IInv
<1>5. QED
  BY <1>2, <1>3, <1>4
LEMMA DropSteps ==
    ASSUME IInv, CollectDrops \/ InstrumentDrop \/ DropsDone
    PROVE  IInv'
<1>1. /\ Params /\ Sound(body, orig) /\ Before /\ Work /\ CrashesOnlyWhenUnsupported
      /\ body \in Body
  BY DEF IInv, Sound
<1>2. CASE CollectDrops
  <2>1. /\ phase = "collect_drops" /\ todo = <<>> /\ Instrumentable(owner)
        /\ UNCHANGED <<body, orig, lib, owner>>
    BY <1>1, <1>2 DEF CollectDrops, Before, Work
  <2>2. CASE phase' = "ice"
    <3>1. PICK b \in Blocks(body) : FunctionPath(body[b].term) \cap DropInPlace # {}
      BY <1>2, <2>2 DEF CollectDrops
    <3>2. body[b].term.fn \in DropInPlace
      BY <3>1, Zenon DEF FunctionPath
    <3>3. GoodTerm(body[b].term, body[b].cleanup, orig)
      BY <1>1 DEF Sound, GoodTerms
    <3>4. \E c \in Blocks(orig) : orig[c].term.fn \in DropInPlace
      BY <3>2, <3>3 DEF GoodTerm
    <3>5. todo' = <<>>
      BY <1>2, <2>1, <2>2 DEF CollectDrops
    <3>6. CrashesOnlyWhenUnsupported'
      BY <2>1, <3>4 DEF CrashesOnlyWhenUnsupported, Instrumentable
    <3>7. Params' /\ Sound(body', orig') /\ Before' /\ Work'
      BY <1>1, <2>1, <2>2, <3>5 DEF Params, Phases, Before, Work, Instrumentable
    <3>8. QED
      BY <3>6, <3>7 DEF IInv
  <2>3. CASE phase' = "drops"
    <3> DEFINE hits == {b \in Blocks(body) : DropsGuard(body[b].term)}
               names == [b \in 1..Len(body) |-> body[b].term.of]
               s == Picked([b \in Blocks(body) |-> CallPosition(body, b, names[b])], hits)
    <3>1. Blocks(body) = 1..Len(body) /\ names \in [1..Len(body) -> Names]
      BY <1>1, BlocksOf, TermFacts DEF Terminator
    <3>2. todo' = s
      <4>1. [b \in Blocks(body) |-> CallPosition(body, b, body[b].term.of)]
              = [b \in Blocks(body) |-> CallPosition(body, b, names[b])]
        BY <3>1
      <4>2. todo' = Picked([b \in Blocks(body) |-> CallPosition(body, b, body[b].term.of)], hits)
        BY <1>2, <2>3 DEF CollectDrops
      <4>3. QED
        BY <4>1, <4>2, Zenon
    <3> HIDE DEF names, hits
    <3>3. Listed(body, s) /\ \A k \in 1..Len(s) : s[k].block \in hits /\ s[k].name = names[s[k].block]
      BY <1>1, <3>1, CollectedListed, SMTT(30)
    <3> HIDE DEF s
    <3>4. DropsOf(body, s)
      <4>1. SUFFICES ASSUME NEW k \in 1..Len(s)
                     PROVE  DropsNamed(body[s[k].block].term, s[k].name)
        BY DEF DropsOf
      <4> DEFINE b == s[k].block
      <4>2. b \in hits /\ s[k].name = names[b]
        BY <3>3
      <4> HIDE DEF b
      <4>3. DropsGuard(body[b].term) /\ names[b] = body[b].term.of
        BY <3>1, <4>2 DEF hits, names
      <4>4. QED
        BY <4>2, <4>3 DEF DropsNamed, b
    <3>5. Listed(body', todo') /\ DropsOf(body', todo')
      BY <2>1, <3>2, <3>3, <3>4
    <3>6. Params' /\ Sound(body', orig') /\ Before' /\ Work' /\ CrashesOnlyWhenUnsupported'
      BY <1>1, <2>1, <2>3, <3>5
      DEF Params, Phases, Before, Work, CrashesOnlyWhenUnsupported, Instrumentable
    <3>7. QED
      BY <3>6 DEF IInv
  <2>4. QED
    BY <1>2, <2>2, <2>3 DEF CollectDrops
<1>3. CASE InstrumentDrop
  <2> DEFINE pos == Head(todo)
             moved == DropBefore(body, pos.block, pos.name)
             new == DropAfter(moved.body, moved.block, pos.name)
  <2>1. /\ phase = "drops" /\ phase' = "drops" /\ todo # <<>> /\ Listed(body, todo)
        /\ DropsOf(body, todo) /\ UNCHANGED <<orig, lib, owner>> /\ Instrumentable(owner)
        /\ body' = new /\ todo' = Tail(todo)
    BY <1>1, <1>3 DEF InstrumentDrop, Before, Work
  <2>2. /\ pos.block \in 1..Len(body) /\ DropsNamed(body[pos.block].term, pos.name)
    <3>1. todo \in Seq(HookPosition)
      BY <2>1 DEF Listed
    <3>2. pos = todo[1] /\ 1 \in 1..Len(todo)
      BY <2>1, <3>1, TailFacts
    <3>3. QED
      BY <2>1, <3>2 DEF Listed, DropsOf
  <2>3. Sound(new, orig) /\ Elsewhere(body, new, pos.block)
    <3> HIDE DEF pos
    <3>1. QED
      BY <1>1, <2>2, DropInstrumented
  <2> HIDE DEF new
  <2>4. Listed(new, Tail(todo)) /\ DropsOf(new, Tail(todo))
    BY <1>1, <2>1, <2>3, WorkKept
  <2>5. Sound(body', orig') /\ Listed(body', todo') /\ DropsOf(body', todo')
    BY <2>1, <2>3, <2>4
  <2>6. Params' /\ Before' /\ Work' /\ CrashesOnlyWhenUnsupported'
    BY <1>1, <2>1, <2>5
    DEF Params, Phases, Before, Work, CrashesOnlyWhenUnsupported, Instrumentable
  <2>7. QED
    BY <2>5, <2>6 DEF IInv
<1>4. CASE DropsDone
  <2>1. /\ phase = "drops" /\ phase' = "done" /\ todo = <<>> /\ Instrumentable(owner)
        /\ UNCHANGED <<body, orig, lib, owner, todo>>
    BY <1>1, <1>4 DEF DropsDone, Before
  <2>2. Params' /\ Sound(body', orig') /\ Before' /\ Work' /\ CrashesOnlyWhenUnsupported'
    BY <1>1, <2>1 DEF Params, Phases, Before, Work, CrashesOnlyWhenUnsupported
  <2>3. QED
    BY <2>2 DEF IInv
<1>5. QED
  BY <1>2, <1>3, <1>4

LEMMA NextIInv == IInv /\ [Next]_vars => IInv'
<1> SUFFICES ASSUME IInv, [Next]_vars PROVE IInv'
  OBVIOUS
<1>1. CASE EntryBefore \/ EntryAfter \/ Gates
  BY <1>1, EntrySteps
<1>2. CASE CollectMem \/ InstrumentMem \/ MemDone
  BY <1>2, MemSteps
<1>3. CASE CollectCalls \/ InstrumentCall \/ CallsDone
  BY <1>3, CallSteps
<1>4. CASE CollectDrops \/ InstrumentDrop \/ DropsDone
  BY <1>4, DropSteps
<1>5. CASE UNCHANGED vars
  BY <1>5 DEF vars, IInv, Params, Before, Work, CrashesOnlyWhenUnsupported, Instrumentable
<1>6. QED
  BY <1>1, <1>2, <1>3, <1>4, <1>5 DEF Next

LEMMA InvariantHolds == Spec => []IInv
<1>1. Init => IInv
  BY InitIInv
<1>2. IInv /\ [Next]_vars => IInv'
  BY NextIInv
<1>3. QED
  BY <1>1, <1>2, PTL DEF Spec
-----------------------------------------------------------------------------

(* Every block a pass adds, and every position it keeps, is one of the body *)
(* it edits, whatever hooks the library has (inject_for_body).              *)
THEOREM BodyStaysTyped == Spec => []TypeOK
<1>1. ASSUME IInv PROVE TypeOK
  <2>1. /\ Params /\ Sound(body, orig) /\ Work /\ body \in Body
        /\ Blocks(body) = 1..Len(body)
    BY <1>1, BlocksOf DEF IInv, Sound
  <2>2. \A b \in Blocks(body) : body[b].cleanup \in BOOLEAN
    BY <2>1, TermFacts, ItemFacts
  <2>3. \A b \in Blocks(body) : body[b].term.to \subseteq Blocks(body)
    BY <2>1 DEF Sound, Closed
  <2>4. ASSUME NEW k \in DOMAIN todo PROVE todo[k].block \in Blocks(body)
    <3>1. CASE todo = <<>>
      BY <2>4, <3>1
    <3>2. CASE Placed(body, todo)
      BY <2>1, <2>4, <3>2 DEF Placed
    <3>3. CASE Listed(body, todo)
      BY <2>1, <2>4, <3>3 DEF Listed
    <3>4. QED
      BY <2>1, <3>1, <3>2, <3>3 DEF Work
  <2>5. QED
    BY <2>1, <2>2, <2>3, <2>4 DEF TypeOK, Params
<1>2. QED
  BY <1>1, InvariantHolds, PTL

(* A collected position denotes, when its turn comes, the item it was       *)
(* collected for, however the map handed out the blocks and whatever the    *)
(* edits before it added (PlaceDerefCollector's sort, loc_bb).              *)
THEOREM PositionsStayFresh == Spec => []PositionsNotStale
<1>1. ASSUME IInv PROVE PositionsNotStale
  <2>1. Work
    BY <1>1 DEF IInv
  <2>2. SUFFICES ASSUME NEW k \in DOMAIN todo
                 PROVE  (IF phase = "mem" THEN ItemsOf(body[todo[k].block])[todo[k].index]
                                          ELSE body[todo[k].block].term).at = todo[k].at
    BY DEF PositionsNotStale
  <2>3. CASE phase = "mem"
    <3>1. Placed(body, todo)
      BY <2>1, <2>3 DEF Work
    <3>2. QED
      BY <2>2, <2>3, <3>1 DEF Placed
  <2>4. CASE phase \in {"calls", "drops"}
    <3>1. Listed(body, todo)
      BY <2>1, <2>4 DEF Work
    <3>2. QED
      BY <2>2, <2>4, <3>1 DEF Listed
  <2>5. CASE phase \notin {"mem", "calls", "drops"}
    BY <2>1, <2>2, <2>5 DEF Work
  <2>6. QED
    BY <2>3, <2>4, <2>5
<1>2. QED
  BY <1>1, InvariantHolds, PTL

(* Cleanup blocks are entered by unwinding and left by nothing but the hook *)
(* after the drop of a guard, after every single edit                       *)
(* (obj_drop_instrumenter.rs:208 and :259).                                 *)
THEOREM CleanupNeverLeft == Spec => []CleanupStaysClosed
<1>1. ASSUME IInv PROVE CleanupStaysClosed
  <2>1. Closed(body)
    BY <1>1 DEF IInv, Sound
  <2>2. \A b \in Blocks(body) : AfterDrop(body[b]) => AfterDropHookBlock(b)
    BY DEF AfterDrop, AfterDropHookBlock
  <2>3. ASSUME NEW leave \in LeavesCleanup(body) PROVE AfterDropHookBlock(leave[2])
    <3>1. /\ leave[1] \in Blocks(body) /\ leave[2] \in Blocks(body)
          /\ leave[2] \in body[leave[1]].term.to
          /\ body[leave[1]].cleanup /\ ~body[leave[2]].cleanup
      BY DEF LeavesCleanup
    <3>2. AfterDrop(body[leave[2]])
      BY <2>1, <3>1 DEF Closed
    <3>3. QED
      BY <2>2, <3>1, <3>2
  <2>4. ASSUME NEW b \in Blocks(body)
        PROVE  /\ body[b].term.to \subseteq Blocks(body) \ {1}
               /\ body[b].term.unwind.act = "cleanup" => body[body[b].term.unwind.block].cleanup
               /\ \A t \in body[b].term.to :
                    body[t].cleanup => body[b].cleanup \/ AfterDropHookBlock(b)
    BY <2>1, <2>2 DEF Closed
  <2>5. QED
    BY <2>3, <2>4 DEF CleanupStaysClosed
<1>2. QED
  BY <1>1, InvariantHolds, PTL

(* The compiler gives up only on two accesses of one kind at one location,  *)
(* with both memory hooks there, or on a call of drop_in_place (the bug! of *)
(* PlaceDerefCollector, the unimplemented! of the drop instrumenter).       *)
THEOREM CrashesAreUnsupported == Spec => []CrashesOnlyWhenUnsupported
<1>1. IInv => CrashesOnlyWhenUnsupported
  BY DEF IInv
<1>2. QED
  BY <1>1, InvariantHolds, PTL

(* A hook is given no value the program owns, and is lent a value that may  *)
(* be gone only after a wait on a condition variable or the drop of a guard *)
(* (build_monitor_args, the comment at function_call_instrumenter.rs:232).  *)
THEOREM HooksOwnNothing == Spec => []HooksSeeLiveValues
<1>1. ASSUME IInv PROVE HooksSeeLiveValues
  <2>1. Live(body)
    BY <1>1 DEF IInv, Sound
  <2>2. \A h : \A modes : Passed(h, modes) = Taken(body[h].term.args, modes)
    BY DEF Passed, Taken
  <2>3. ASSUME NEW h \in HookBlocks, NEW b \in UserBlocks
        PROVE  /\ body[h].term.fn = "before" /\ b \in body[h].term.to =>
                     Passed(h, {"copy", "move"}) \cap Values(body[b].term) = {}
               /\ body[h].term.fn = "after" /\ h \in body[b].term.to =>
                     /\ Passed(h, {"copy", "move"}) \cap Values(body[b].term) = {}
                     /\ Passed(h, {"ref"}) \cap Values(body[b].term) # {} =>
                           body[h].term.of \in WaitsOnCondvar \cup GuardTypes
    <3>1. /\ h \in Blocks(body) /\ b \in Blocks(body)
          /\ body[h].term.at = Nowhere /\ body[b].term.at # Nowhere
      BY DEF HookBlocks, UserBlocks
    <3>2. /\ body[h].term.fn = "before" /\ b \in body[h].term.to =>
                Spared(body[h].term, body[b].term)
          /\ body[h].term.fn = "after" /\ h \in body[b].term.to =>
                Spared(body[h].term, body[b].term) /\ LateOnly(body[h].term, body[b].term)
      BY <2>1, <3>1, Zenon DEF Live
    <3>3. QED
      BY <2>2, <3>2 DEF Spared, LateOnly
  <2>4. QED
    BY <2>3, Zenon DEF HooksSeeLiveValues
<1>2. QED
  BY <1>1, InvariantHolds, PTL

-----------------------------------------------------------------------------
(* FlowPreserved, likewise for every body.  The edited body is              *)
(* projected onto the original one: the user's items onto themselves, and   *)
(* what is inserted onto the item it runs before.  An edit is a projection  *)
(* of the new body onto the old one, and projections compose.               *)

-----------------------------------------------------------------------------
(* What the instrumenters do is made of these edits.                        *)

LEMMA EnterProjects ==
    ASSUME NEW bd \in Body, bd # <<>>, Targeted(bd)
    PROVE  LET new == EnterThroughHook(bd) IN
           new \in Body /\ Projected(new, bd) /\ Targeted(new) /\ Cut(bd, new, 1, 1)
<1> DEFINE new == EnterThroughHook(bd)
           n == Len(bd) + 1
<1>1. Len(bd) \in Nat /\ 1 \in 1..Len(bd)
  BY DEF Body
<1>2. Moved(bd, new, 1) /\ new[1].stmts = <<>> /\ new[n] = bd[1]
  BY EnterMoves, Zenon
<1> HIDE DEF new
<1>3. /\ new \in Body /\ Len(new) = n /\ \A c \in 1..Len(bd) : c # 1 => new[c] = bd[c]
      /\ new[1].term.at = Nowhere /\ new[1].term.to = {n}
  BY <1>2 DEF Moved, GrownAt, IsHook
<1>4. Len(bd[1].stmts) \in Nat /\ 1 \in 1..Len(bd[1].stmts) + 1 /\ Len(new[1].stmts) = 1 - 1
  BY <1>1, <1>2, TermFacts, ItemFacts
<1>5. /\ Len(bd[1].stmts) = Len(bd[1].stmts) - (1 - 1)
      /\ \A j \in 1..Len(bd[1].stmts) : 1 - 1 + j = j
  <2> DEFINE L == Len(bd[1].stmts)
  <2>1. L \in Nat
    BY <1>4
  <2> HIDE DEF L
  <2>2. L = L - (1 - 1) /\ \A j \in 1..L : 1 - 1 + j = j
    BY <2>1
  <2>3. QED
    BY <2>2 DEF L
<1>6. Cut(bd, new, 1, 1)
  <2>1. /\ new[n].term = bd[1].term /\ Len(new[n].stmts) = Len(bd[1].stmts) - (1 - 1)
        /\ \A j \in 1..Len(new[n].stmts) : new[n].stmts[j] = bd[1].stmts[1 - 1 + j]
    BY <1>2, <1>5
  <2>2. \A j \in 1..1 - 1 : new[1].stmts[j] = bd[1].stmts[j]
    OBVIOUS
  <2>3. QED
    BY <1>3, <1>4, <2>1, <2>2 DEF Cut
<1>7. Projected(new, bd) /\ Targeted(new)
  BY <1>1, <1>4, <1>6, CutProjects
<1>8. QED
  BY <1>3, <1>6, <1>7 DEF new

(* A hook that takes the place of the terminator.                           *)
LEMMA HookedProjects ==
    ASSUME NEW bd \in Body, Targeted(bd), NEW b \in 1..Len(bd), NEW new, Moved(bd, new, b),
           new[b].stmts = bd[b].stmts, new[Len(bd) + 1].stmts = <<>>
    PROVE  /\ new \in Body /\ Projected(new, bd) /\ Targeted(new)
           /\ Cut(bd, new, b, Len(bd[b].stmts) + 1)
<1> DEFINE n == Len(bd) + 1
           L == Len(bd[b].stmts)
<1>1. /\ new \in Body /\ Len(new) = n /\ \A c \in 1..Len(bd) : c # b => new[c] = bd[c]
      /\ new[b].term.at = Nowhere /\ new[b].term.to = {n} /\ new[n].term = bd[b].term
  BY DEF Moved, GrownAt, IsHook
<1>2. L \in Nat
  BY TermFacts, ItemFacts
<1>3. L + 1 - 1 = L /\ L - (L + 1 - 1) = 0 /\ L + 1 \in 1..L + 1
  <2> HIDE DEF L
  <2>1. QED
    BY <1>2
<1>4. Cut(bd, new, b, L + 1)
  <2>1. Len(new[b].stmts) = L + 1 - 1 /\ \A j \in 1..L + 1 - 1 : new[b].stmts[j] = bd[b].stmts[j]
    BY <1>3
  <2>2. Len(new[n].stmts) = 0
    OBVIOUS
  <2>3. \A j \in 1..Len(new[n].stmts) : new[n].stmts[j] = bd[b].stmts[L + 1 - 1 + j]
    BY <2>2
  <2>4. QED
    BY <1>1, <1>3, <2>1, <2>2, <2>3 DEF Cut
<1>5. Projected(new, bd) /\ Targeted(new)
  BY <1>3, <1>4, CutProjects
<1>6. QED
  BY <1>1, <1>4, <1>5

LEMMA ReturnsProject ==
    ASSUME NEW bd \in Body, Targeted(bd)
    PROVE  LET new == ReturnsThroughHook(bd) IN new \in Body /\ Projected(new, bd) /\ Targeted(new)
<1>1. Len(bd) \in Nat
  BY BlocksOf
<1>2. PICK f : /\ f[0] = bd
               /\ \A n \in 1..Len(bd) :
                    f[n] = IF bd[n].term.kind = "return" THEN ReturnThroughHook(f[n - 1], n)
                           ELSE f[n - 1]
               /\ ReturnsThroughHook(bd) = f[Len(bd)]
  BY ThroughEquations
<1> DEFINE Good == {n \in 0..Len(bd) : /\ f[n] \in Body /\ Projected(f[n], bd) /\ Targeted(f[n])
                                       /\ Len(f[n]) \in Nat /\ Len(f[n]) >= Len(bd)}
<1>3. 0 \in Good
  BY <1>1, <1>2, ProjectedToItself
<1>4. ASSUME NEW n \in 1..Len(bd), n - 1 \in Good PROVE n \in Good
  <2> DEFINE old == f[n - 1]
             new == ReturnThroughHook(old, n)
  <2>1. /\ old \in Body /\ Projected(old, bd) /\ Targeted(old)
        /\ Len(old) \in Nat /\ Len(old) >= Len(bd)
    BY <1>4
  <2> HIDE DEF old
  <2>2. n \in 1..Len(old)
    BY <1>1, <2>1
  <2>3. Moved(old, new, n) /\ new[n].stmts = old[n].stmts /\ new[Len(old) + 1].stmts = <<>>
    BY <2>1, <2>2, ReturnMoves, Zenon
  <2> HIDE DEF new
  <2>4. new \in Body /\ Projected(new, old) /\ Targeted(new)
    BY <2>1, <2>2, <2>3, HookedProjects
  <2>5. Projected(new, bd)
    BY <2>1, <2>4, ProjectedTwice
  <2>6. Len(new) = Len(old) + 1
    BY <2>3 DEF Moved, GrownAt
  <2>7. n \in 0..Len(bd) /\ (f[n] = new \/ f[n] = old)
    BY <1>1, <1>2 DEF new, old
  <2>8. QED
    BY <1>1, <2>1, <2>4, <2>5, <2>6, <2>7
<1> HIDE DEF Good
<1>5. Len(bd) \in Good
  <2>1. 0..Len(bd) \subseteq Good
    BY <1>1, <1>3, <1>4, SetInduction, Zenon
  <2>2. QED
    BY <1>1, <2>1
<1>6. QED
  BY <1>2, <1>5 DEF Good

LEMMA SplitProjects ==
    ASSUME NEW bd \in Body, Targeted(bd), NEW b \in 1..Len(bd),
           NEW i \in 1..Len(bd[b].stmts) + 1,
           NEW hook \in {"mem_read", "mem_write"}, NEW pointers \in Seq(Names)
    PROVE  LET new == Split(bd, b, i, hook, pointers) IN
           /\ new \in Body /\ Projected(new, bd) /\ Targeted(new)
           /\ b \in 1..Len(new) /\ i \in 1..Len(new[b].stmts) + 1
           /\ pointers # <<>> =>
                /\ Cut(bd, new, b, i)
                /\ HookEffect(new[b].term) = MemHookEffect(hook, pointers[1])
<1>1. CASE pointers = <<>>
  BY <1>1, ProjectedToItself DEF Split
<1>2. CASE pointers # <<>>
  <2>1. PICK pointer \in Names : pointer = pointers[1]
    BY <1>2
  <2> DEFINE new == SplitAtHook(bd, b, i, hook, pointer)
             n == Len(bd) + 1
             L == Len(bd[b].stmts)
  <2>2. /\ Moved(bd, new, b) /\ new[b].term.fn = hook
        /\ new[b].stmts = CutAt(bd[b].stmts, i)
        /\ new[n].stmts = CutFrom(bd[b].stmts, i)
        /\ HookEffect(new[b].term) = MemHookEffect(hook, pointer)
    BY SplitMoves
  <2>3. Split(bd, b, i, hook, pointers) = new
    BY <1>2, <2>1 DEF Split
  <2> HIDE DEF new
  <2>4. /\ new \in Body /\ Len(new) = n /\ \A c \in 1..Len(bd) : c # b => new[c] = bd[c]
        /\ new[b].term.at = Nowhere /\ new[b].term.to = {n} /\ new[n].term = bd[b].term
    BY <2>2 DEF Moved, GrownAt, IsHook
  <2>5. /\ Len(new[b].stmts) = i - 1
        /\ \A j \in 1..i - 1 : new[b].stmts[j] = bd[b].stmts[j]
        /\ Len(new[n].stmts) = L - (i - 1)
        /\ \A j \in 1..L - (i - 1) : new[n].stmts[j] = bd[b].stmts[i - 1 + j]
    <3> DEFINE stmts == bd[b].stmts
    <3>1. stmts \in Seq(Statement) /\ i \in 1..Len(stmts) + 1
      BY TermFacts
    <3> HIDE DEF stmts
    <3>2. /\ Len(CutAt(stmts, i)) = i - 1
          /\ \A j \in 1..i - 1 : CutAt(stmts, i)[j] = stmts[j]
          /\ Len(CutFrom(stmts, i)) = Len(stmts) - (i - 1)
          /\ \A j \in 1..Len(stmts) - (i - 1) : CutFrom(stmts, i)[j] = stmts[i - 1 + j]
      BY <3>1, CutFacts DEF CutAt, CutFrom
    <3>3. new[b].stmts = CutAt(stmts, i) /\ new[n].stmts = CutFrom(stmts, i) /\ L = Len(stmts)
      BY <2>2 DEF stmts
    <3>4. QED
      BY <3>2, <3>3, Zenon DEF stmts
  <2>6. Cut(bd, new, b, i)
    BY <2>4, <2>5 DEF Cut
  <2>7. Projected(new, bd) /\ Targeted(new)
    BY <2>6, CutProjects
  <2>8. b \in 1..Len(new) /\ i \in 1..Len(new[b].stmts) + 1
    <3>1. Len(bd) \in Nat
      BY BlocksOf
    <3>2. b \in 1..Len(new)
      BY <2>4, <3>1
    <3>3. i \in Nat /\ i >= 1
      <4>1. L \in Nat
        BY TermFacts, ItemFacts
      <4>2. QED
        BY <4>1
    <3>4. i \in 1..i - 1 + 1
      BY <3>3
    <3>5. QED
      BY <2>5, <3>2, <3>4
  <2>9. QED
    BY <2>1, <2>2, <2>3, <2>4, <2>6, <2>7, <2>8
<1>3. QED
  BY <1>1, <1>2

LEMMA InsertedAreInserted ==
    /\ \A what, on : InsertedStmt(what, on).at = Nowhere
    /\ \A args : args \in Operands => AllInserted(ArgRefs(args))
    /\ AllInserted(<<>>) /\ AllInserted(<<DestRef>>) /\ AllInserted(<<GuardRef>>)
<1>1. \A what, on : InsertedStmt(what, on).at = Nowhere
  BY DEF InsertedStmt
<1>2. ASSUME NEW args, args \in Operands PROVE AllInserted(ArgRefs(args))
  <2> DEFINE refs == ByRef(args)
  <2>1. ArgRefs(args) = [k \in DOMAIN refs |-> InsertedStmt(<<"ref">>, <<refs[k]>>)]
    BY DEF ArgRefs
  <2>2. DOMAIN ArgRefs(args) = 1..Len(ArgRefs(args))
    BY <1>2, ArgRefsType
  <2> HIDE DEF refs
  <2>3. \A k \in DOMAIN ArgRefs(args) : ArgRefs(args)[k].at = Nowhere
    BY <1>1, <2>1
  <2>4. QED
    BY <2>2, <2>3 DEF AllInserted
<1>3. AllInserted(<<>>)
  BY DEF AllInserted
<1>4. ASSUME NEW x, x.at = Nowhere PROVE AllInserted(<<x>>)
  BY <1>4 DEF AllInserted
<1>5. DestRef.at = Nowhere /\ GuardRef.at = Nowhere
  BY <1>1 DEF DestRef, GuardRef
<1>6. QED
  BY <1>1, <1>2, <1>3, <1>4, <1>5

LEMMA AddrsAreInserted ==
    ASSUME NEW what \in {"mem_read", "mem_write"}, NEW pointers \in Seq(Names)
    PROVE  AllInserted(AddrOf(what, pointers))
<1>1. DOMAIN AddrOf(what, pointers) = 1..Len(AddrOf(what, pointers))
  BY AddrOfType
<1>2. \A k \in DOMAIN AddrOf(what, pointers) : AddrOf(what, pointers)[k].at = Nowhere
  BY InsertedAreInserted DEF AddrOf
<1>3. QED
  BY <1>1, <1>2 DEF AllInserted

LEMMA JoinedInserted ==
    ASSUME NEW x \in Seq(Statement), NEW y \in Seq(Statement), AllInserted(x), AllInserted(y)
    PROVE  x \o y \in Seq(Statement) /\ AllInserted(x \o y)
<1>1. /\ x \o y \in Seq(Statement) /\ Len(x \o y) = Len(x) + Len(y)
      /\ \A k \in 1..Len(x) : (x \o y)[k] = x[k]
      /\ \A k \in 1..Len(y) : (x \o y)[Len(x) + k] = y[k]
      /\ Len(x) \in Nat /\ Len(y) \in Nat
  BY ConcatFacts
<1> DEFINE z == x \o y
<1>2. ASSUME NEW j \in 1..Len(z) PROVE z[j].at = Nowhere
  <2> HIDE DEF z
  <2>1. CASE j \in 1..Len(x)
    <3>1. z[j] = x[j]
      BY <1>1, <2>1 DEF z
    <3>2. QED
      BY <2>1, <3>1 DEF AllInserted
  <2>2. CASE j \notin 1..Len(x)
    <3>1. j - Len(x) \in 1..Len(y) /\ Len(x) + (j - Len(x)) = j
      <4>1. Len(z) = Len(x) + Len(y)
        BY <1>1 DEF z
      <4>2. QED
        BY <1>1, <2>2, <4>1
    <3>2. z[j] = y[j - Len(x)]
      <4>1. \A k \in 1..Len(y) : z[Len(x) + k] = y[k]
        BY <1>1 DEF z
      <4>2. QED
        BY <3>1, <4>1
    <3>3. QED
      BY <3>1, <3>2 DEF AllInserted
  <2>3. QED
    BY <2>1, <2>2
<1>3. QED
  BY <1>1, <1>2 DEF AllInserted

LEMMA AccessProjects ==
    ASSUME NEW bd \in Body, Targeted(bd), NEW d, d.block \in 1..Len(bd),
           d.index \in 1..Len(bd[d.block].stmts) + 1,
           d.read \in Seq(Names), d.write \in Seq(Names)
    PROVE  LET new == AccessThroughHooks(bd, d) IN
           new \in Body /\ Projected(new, bd) /\ Targeted(new)
<1> DEFINE b == d.block
           i == d.index
           r == Split(bd, b, i, "mem_read", d.read)
           w == Split(r, b, i, "mem_write", d.write)
           reads == AddrOf("mem_read", d.read)
           writes == AddrOf("mem_write", d.write)
           stmts == reads \o writes
           new == Apply(w, b, stmts, w[b].term, <<>>)
<1>1. AccessThroughHooks(bd, d) = new
  BY DEF AccessThroughHooks, Split
<1>2. /\ r \in Body /\ Projected(r, bd) /\ Targeted(r)
      /\ b \in 1..Len(r) /\ i \in 1..Len(r[b].stmts) + 1
  BY SplitProjects, Zenon
<1> HIDE DEF r
<1>3. /\ w \in Body /\ Projected(w, r) /\ Targeted(w) /\ b \in 1..Len(w)
  BY <1>2, SplitProjects, Zenon
<1> HIDE DEF w
<1>4. stmts \in Seq(Statement) /\ AllInserted(stmts)
  <2>1. /\ reads \in Seq(Statement) /\ writes \in Seq(Statement)
        /\ AllInserted(reads) /\ AllInserted(writes)
    BY AddrOfType, AddrsAreInserted, Zenon
  <2> HIDE DEF reads, writes
  <2>2. QED
    BY <2>1, JoinedInserted
<1> HIDE DEF stmts
<1>5. new \in Body /\ Projected(new, w) /\ Targeted(new)
  BY <1>3, <1>4, PadProjects, Zenon
<1> HIDE DEF new
<1>6. Projected(w, bd)
  BY <1>2, <1>3, ProjectedTwice
<1>7. Projected(new, bd)
  BY <1>3, <1>5, <1>6, ProjectedTwice
<1>8. QED
  BY <1>1, <1>5, <1>7

(* CallBefore then CallAfter, DropBefore then DropAfter.                    *)
LEMMA CallProjects ==
    ASSUME NEW bd \in Body, Targeted(bd), NEW b \in 1..Len(bd), NEW name \in Names,
           ~bd[b].cleanup, NEW t, bd[b].term.to = {t}
    PROVE  LET moved == CallBefore(bd, b, name)
               new == CallAfter(moved.body, moved.block, name)
           IN  new \in Body /\ Projected(new, bd) /\ Targeted(new)
<1> DEFINE moved == CallBefore(bd, b, name)
           mid == moved.body
           c == moved.block
           new == CallAfter(mid, c, name)
           call == bd[b].term
<1>1. /\ call \in Terminator /\ call.args \in Operands /\ bd[b].cleanup = FALSE
      /\ Len(bd) \in Nat
  BY TermFacts
<1>2. ArgRefs(call.args) \in Seq(Statement) /\ MonitorArgs(call.args) \in Operands
      /\ AllInserted(ArgRefs(call.args))
  BY <1>1, ArgRefsType, MonitorArgsType, InsertedAreInserted
<1>3. /\ mid \in Body /\ Projected(mid, bd) /\ Targeted(mid)
      /\ c \in 1..Len(mid) /\ mid[c].term = call
  <2>1. CASE name \notin lib.before
    <3>1. mid = bd /\ c = b
      BY <2>1, CallBeforeFacts
    <3>2. QED
      BY <3>1, ProjectedToItself
  <2>2. CASE name \in lib.before
    <3> DEFINE n == Len(bd) + 1
               blk == [stmts |-> <<>>, term |-> call, cleanup |-> FALSE]
               front == InFront(bd, b, ArgRefs(call.args), name, MonitorArgs(call.args), blk)
    <3>1. CallBefore(bd, b, name) = [body |-> front, block |-> n]
      BY <2>2 DEF CallBefore, InFront, Patch
    <3>2. /\ blk \in BasicBlock /\ blk.term = call /\ blk.cleanup = bd[b].cleanup
          /\ blk.stmts = <<>>
      BY <1>1, WordFacts, Zenon DEF BasicBlock
    <3> HIDE DEF blk
    <3>3. front \in Body /\ Projected(front, bd) /\ Targeted(front)
      BY <1>2, <3>2, InFrontProjects
    <3>4. Moved(bd, front, b)
      BY <1>2, <3>2, HookInFront
    <3> HIDE DEF front
    <3>5. mid = front /\ c = n
      BY <3>1
    <3>6. front[n].term = call /\ n \in 1..Len(front)
      BY <3>4, MovedElsewhere
    <3>7. QED
      BY <3>3, <3>5, <3>6
  <2>3. QED
    BY <2>1, <2>2
<1> HIDE DEF mid, c
<1>4. CASE name \notin lib.after
  <2>1. new = mid
    BY <1>3, <1>4, CallAfterFacts
  <2>2. QED
    BY <1>3, <2>1 DEF mid, c
<1>5. CASE name \in lib.after
  <2> DEFINE args == Append(MonitorArgs(call.args), <<"ref", "dest">>)
  <2>1. args \in Operands
    BY <1>1, MonitorArgsType
  <2>2. DestRef \in Statement
    <3>1. <<"ref_mut">> \in Seq(Names)
      <4>1. "ref_mut" \in Names
        BY WordFacts, Zenon
      <4>2. QED
        BY <4>1
    <3>2. <<<<"place", "dest">>>> \in Operands
      BY WordFacts, OperandType, Zenon
    <3>3. QED
      BY <3>1, <3>2, InsertedType, Zenon DEF DestRef
  <2>3. PICK refs \in Seq(Statement) : refs = <<DestRef>>
    <3>1. <<DestRef>> \in Seq(Statement)
      BY <2>2
    <3>2. QED
      BY <3>1, Zenon
  <2>4. AllInserted(refs)
    BY <2>3, InsertedAreInserted, Zenon
  <2> HIDE DEF args
  <2> DEFINE behind == Behind(mid, c, ArgRefs(call.args), name, args, refs)
  <2>5. mid[c].term.to = {t}
    BY <1>3
  <2>6. behind \in Body /\ Projected(behind, mid) /\ Targeted(behind)
    BY <1>2, <1>3, <2>1, <2>4, <2>5, BehindProjects, Zenon
  <2>7. new = behind
    BY <1>3, <1>5, <2>3, Zenon DEF CallAfter, Behind, Patch, args
  <2> HIDE DEF behind
  <2>8. Projected(behind, bd)
    BY <1>3, <2>6, ProjectedTwice
  <2>9. QED
    BY <2>6, <2>7, <2>8 DEF new, mid, c
<1>6. QED
  BY <1>4, <1>5

LEMMA DropProjects ==
    ASSUME NEW bd \in Body, Targeted(bd), NEW b \in 1..Len(bd), NEW name,
           NEW t, bd[b].term.to = {t}
    PROVE  LET moved == DropBefore(bd, b, name)
               new == DropAfter(moved.body, moved.block, name)
           IN  new \in Body /\ Projected(new, bd) /\ Targeted(new)
<1> DEFINE moved == DropBefore(bd, b, name)
           mid == moved.body
           c == moved.block
           new == DropAfter(mid, c, name)
           drop == bd[b].term
<1>1. PICK refs \in Seq(Statement) : refs = <<GuardRef>>
  BY GuardTypesAreTyped, Zenon
<1>2. PICK args \in Operands : args = <<<<"ref", "guard">>>>
  BY GuardTypesAreTyped, Zenon
<1>3. PICK none \in Seq(Statement) : none = <<>>
  BY WordFacts, Zenon
<1>4. AllInserted(refs) /\ AllInserted(none)
  BY <1>1, <1>3, InsertedAreInserted, Zenon
<1>5. drop.of \in Names /\ bd[b] \in BasicBlock
  BY TermFacts
<1>6. /\ mid \in Body /\ Projected(mid, bd) /\ Targeted(mid)
      /\ c \in 1..Len(mid) /\ mid[c].term = drop
  <2>1. CASE name \notin lib.before
    <3>1. mid = bd /\ c = b
      BY <2>1, DropBeforeFacts
    <3>2. QED
      BY <3>1, ProjectedToItself
  <2>2. CASE name \in lib.before
    <3> DEFINE n == Len(bd) + 1
               blk == [bd[b] EXCEPT !.stmts = <<>>]
               front == InFront(bd, b, refs, drop.of, args, blk)
    <3>1. DropBefore(bd, b, name) = [body |-> front, block |-> n]
      BY <1>1, <1>2, <2>2, Zenon DEF DropBefore, DropHook, InFront, Patch
    <3>2. /\ blk \in BasicBlock /\ blk.term = drop /\ blk.cleanup = bd[b].cleanup
          /\ blk.stmts = <<>>
      BY <1>5, WordFacts, Zenon DEF BasicBlock
    <3> HIDE DEF blk
    <3>3. front \in Body /\ Projected(front, bd) /\ Targeted(front)
      BY <1>4, <1>5, <3>2, InFrontProjects
    <3>4. Moved(bd, front, b)
      BY <1>5, <3>2, HookInFront
    <3> HIDE DEF front
    <3>5. mid = front /\ c = n
      BY <3>1
    <3>6. front[n].term = drop /\ n \in 1..Len(front)
      BY <3>4, MovedElsewhere
    <3>7. QED
      BY <3>3, <3>5, <3>6
  <2>3. QED
    BY <2>1, <2>2
<1> HIDE DEF mid, c
<1>7. CASE name \notin lib.after
  <2>1. new = mid
    BY <1>6, <1>7, DropAfterFacts
  <2>2. QED
    BY <1>6, <2>1 DEF mid, c
<1>8. CASE name \in lib.after
  <2> DEFINE behind == Behind(mid, c, refs, drop.of, args, none)
  <2>1. mid[c].term.to = {t}
    BY <1>6
  <2>2. behind \in Body /\ Projected(behind, mid) /\ Targeted(behind)
    BY <1>4, <1>5, <1>6, <2>1, BehindProjects, Zenon
  <2>3. new = behind
    BY <1>1, <1>2, <1>3, <1>6, <1>8, Zenon DEF DropAfter, DropHook, Behind, Patch
  <2> HIDE DEF behind
  <2>4. Projected(behind, bd)
    BY <1>6, <2>2, ProjectedTwice
  <2>5. QED
    BY <2>2, <2>3, <2>4 DEF new, mid, c
<1>9. QED
  BY <1>7, <1>8

(* What is instrumented goes on to one place: the user's call or drop it    *)
(* was has one target.                                                      *)
LEMMA OneTarget ==
    ASSUME NEW bd, NEW src \in Bodies, Sound(bd, src), Projected(bd, src),
           NEW b \in 1..Len(bd), NEW name,
           CallsTarget(bd[b].term, name) \/ DropsNamed(bd[b].term, name)
    PROVE  \E t : bd[b].term.to = {t}
<1> DEFINE l == <<b, Len(bd[b].stmts) + 1>>
           term == bd[b].term
<1>1. /\ bd \in Body /\ src \in Body /\ Tagged(src) /\ CallsLocksAsUsual(src)
      /\ term \in Terminator
  BY BodiesAssumption, TermFacts DEF Sound
<1>2. l \in Locations(bd) /\ IsTerm(bd, l) /\ ItemAt(bd, l) = term
  <2>1. Len(bd[b].stmts) \in Nat
    BY <1>1, TermFacts, ItemFacts
  <2>2. Len(bd[b].stmts) + 1 \in 1..Len(bd[b].stmts) + 1
    BY <2>1
  <2>3. QED
    BY <1>1, <2>2, PlaceFacts
<1>3. Own(bd, l)
  BY <1>2, UserTerm DEF Own
<1>4. PICK h, s : Projects(bd, src, h, s)
  BY DEF Projected
<1> DEFINE m == h[l]
<1> HIDE DEF l
<1>5. m \in Locations(src) /\ Copied(bd, l, src, m, h)
  BY <1>1, <1>2, <1>3, <1>4, OwnIsCopied
<1> HIDE DEF m
<1>6. IsTerm(src, m) /\ Bared(bd, l) = Bared(src, m) /\ (OneNext(src, m) => OneNext(bd, l))
  BY <1>2, <1>5 DEF Copied
<1>7. m[1] \in 1..Len(src) /\ ItemAt(src, m) = src[m[1]].term
  BY <1>1, <1>5, <1>6, PlaceOf, BlocksOf
<1> DEFINE was == src[m[1]].term
<1>8. was.fn = term.fn /\ was.kind = term.kind
  BY <1>1, <1>2, <1>5, <1>6, <1>7, BaredFacts
<1>9. was.kind = "drop" \/ was.fn \in CallTargets \cup MemDrop
  <2>1. CASE CallsTarget(term, name)
    BY <1>8, <2>1 DEF CallsTarget
  <2>2. CASE DropsNamed(term, name)
    BY <1>8, <2>2, Zenon DEF DropsNamed, DropsGuard, FunctionPath
  <2>3. QED
    BY <2>1, <2>2
<1>10. PICK t : was.to = {t}
  BY <1>1, <1>7, <1>9, BlocksOf, Zenon DEF CallsLocksAsUsual
<1>11. OneNext(src, m)
  <2>1. Successors(src, m) = {<<t, 1>>}
    BY <1>6, <1>7, <1>10 DEF Successors
  <2>2. QED
    BY <2>1, Zenon DEF OneNext
<1>12. PICK x : {<<u, 1>> : u \in term.to} = {x}
  BY <1>2, <1>6, <1>11, Zenon DEF OneNext, Successors
<1>13. PICK u \in term.to : TRUE
  BY <1>12
<1>14. \A v \in term.to : <<v, 1>> = <<u, 1>>
  BY <1>12, Zenon
<1>15. \A v \in term.to : v = u
  BY <1>14
<1>16. term.to = {u}
  BY <1>15
<1>17. QED
  BY <1>16

-----------------------------------------------------------------------------
(* Every body the passes make is a projection of edits onto rustc's.        *)

FlowIInv == IInv /\ Projected(body, orig)

LEMMA IInvFacts ==
    ASSUME IInv
    PROVE  /\ body \in Body /\ orig \in Body /\ Tagged(orig) /\ WellFormed(orig)
           /\ orig \in Bodies /\ Sound(body, orig) /\ Targeted(body) /\ Targeted(orig)
<1>1. orig \in Bodies /\ Sound(body, orig) /\ body \in Body /\ Closed(body)
  BY DEF IInv, Params, Sound
<1>2. orig \in Body /\ Tagged(orig) /\ WellFormed(orig)
  BY <1>1, BodiesAssumption
<1>3. Targeted(body)
  BY <1>1 DEF Closed, Targeted
<1>4. Targeted(orig)
  BY <1>2 DEF WellFormed, Targeted
<1>5. QED
  BY <1>1, <1>2, <1>3, <1>4

LEMMA InitFlow == Init => FlowIInv
<1> SUFFICES ASSUME Init PROVE FlowIInv
  OBVIOUS
<1>1. IInv /\ body = orig
  BY InitIInv DEF Init
<1>2. Projected(orig, orig)
  BY <1>1, IInvFacts, ProjectedToItself
<1>3. QED
  BY <1>1, <1>2 DEF FlowIInv

LEMMA NextFlow == FlowIInv /\ [Next]_vars => FlowIInv'
<1> SUFFICES ASSUME FlowIInv, [Next]_vars PROVE FlowIInv'
  OBVIOUS
<1>1. IInv /\ Projected(body, orig)
  BY DEF FlowIInv
<1>2. /\ body \in Body /\ orig \in Body /\ Tagged(orig) /\ WellFormed(orig)
      /\ orig \in Bodies /\ Sound(body, orig) /\ Targeted(body)
  BY <1>1, IInvFacts
<1>3. IInv'
  BY <1>1, NextIInv
<1> SUFFICES Projected(body', orig')
  BY <1>3 DEF FlowIInv
<1>4. ASSUME UNCHANGED <<body, orig>> PROVE Projected(body', orig')
  BY <1>1, <1>4
<1>5. ASSUME orig' = orig, NEW new \in Body, body' = new, Projected(new, body)
      PROVE  Projected(body', orig')
  <2>1. Projected(new, orig)
    BY <1>1, <1>2, <1>5, ProjectedTwice
  <2>2. QED
    BY <1>5, <2>1
<1>6. CASE EntryBefore
  <2>1. body = orig /\ orig' = orig
    BY <1>1, <1>6 DEF EntryBefore, IInv, Before
  <2>2. body # <<>>
    BY <1>2, <2>1, OriginalIsCalm
  <2>3. body' = body \/ body' = EnterThroughHook(body)
    BY <1>6 DEF EntryBefore
  <2> DEFINE new == EnterThroughHook(body)
  <2>4. new \in Body /\ Projected(new, body)
    BY <1>2, <2>2, EnterProjects
  <2> HIDE DEF new
  <2>5. QED
    BY <1>4, <1>5, <2>1, <2>3, <2>4 DEF new
<1>7. CASE EntryAfter
  <2>1. orig' = orig /\ (body' = body \/ body' = ReturnsThroughHook(body))
    BY <1>7 DEF EntryAfter
  <2> DEFINE new == ReturnsThroughHook(body)
  <2>2. new \in Body /\ Projected(new, body)
    BY <1>2, ReturnsProject
  <2> HIDE DEF new
  <2>3. QED
    BY <1>4, <1>5, <2>1, <2>2 DEF new
<1>8. CASE InstrumentMem
  <2> DEFINE d == Head(todo)
             new == AccessThroughHooks(body, d)
  <2>1. /\ todo # <<>> /\ Placed(body, todo) /\ orig' = orig /\ body' = new
    BY <1>1, <1>8 DEF InstrumentMem, IInv, Work
  <2>2. /\ d.block \in 1..Len(body) /\ d.index \in 1..Len(body[d.block].stmts) + 1
        /\ d.read \in Seq(Names) /\ d.write \in Seq(Names)
    <3>1. todo \in Seq(DerefPosition)
      BY <2>1 DEF Placed
    <3>2. d = todo[1] /\ d \in DerefPosition /\ 1 \in 1..Len(todo)
      BY <2>1, <3>1, TailFacts
    <3>3. d.block \in 1..Len(body) /\ d.index \in 1..Len(body[d.block].stmts) + 1
      BY <2>1, <3>2 DEF Placed
    <3>4. QED
      BY <3>2, <3>3 DEF DerefPosition
  <2> HIDE DEF d
  <2>3. new \in Body /\ Projected(new, body)
    BY <1>2, <2>2, AccessProjects
  <2> HIDE DEF new
  <2>4. QED
    BY <1>5, <2>1, <2>3
<1>9. CASE InstrumentCall
  <2> DEFINE pos == Head(todo)
             b == pos.block
             name == pos.name
             moved == CallBefore(body, b, name)
             new == CallAfter(moved.body, moved.block, name)
  <2>1. /\ todo # <<>> /\ Listed(body, todo) /\ CallsOf(body, todo)
        /\ orig' = orig /\ body' = new
    BY <1>1, <1>9 DEF InstrumentCall, IInv, Work
  <2>2. b \in 1..Len(body) /\ CallsTarget(body[b].term, name) /\ name \in Names
    <3>1. todo \in Seq(HookPosition)
      BY <2>1 DEF Listed
    <3>2. pos = todo[1] /\ 1 \in 1..Len(todo) /\ pos \in HookPosition
      BY <2>1, <3>1, TailFacts
    <3>3. QED
      BY <2>1, <3>2 DEF Listed, CallsOf, HookPosition
  <2> HIDE DEF pos, b, name
  <2>3. ~body[b].cleanup
    <3>1. GoodTerm(body[b].term, body[b].cleanup, orig)
      BY <1>2, <2>2, BlocksOf DEF Sound, GoodTerms
    <3>2. QED
      BY <2>2, <3>1 DEF CallsTarget, GoodTerm
  <2>4. PICK t : body[b].term.to = {t}
    BY <1>1, <1>2, <2>2, OneTarget, Zenon
  <2>5. new \in Body /\ Projected(new, body)
    BY <1>2, <2>2, <2>3, <2>4, CallProjects, Zenon
  <2> HIDE DEF new
  <2>6. QED
    BY <1>5, <2>1, <2>5
<1>10. CASE InstrumentDrop
  <2> DEFINE pos == Head(todo)
             b == pos.block
             name == pos.name
             moved == DropBefore(body, b, name)
             new == DropAfter(moved.body, moved.block, name)
  <2>1. /\ todo # <<>> /\ Listed(body, todo) /\ DropsOf(body, todo)
        /\ orig' = orig /\ body' = new
    BY <1>1, <1>10 DEF InstrumentDrop, IInv, Work
  <2>2. b \in 1..Len(body) /\ DropsNamed(body[b].term, name)
    <3>1. todo \in Seq(HookPosition)
      BY <2>1 DEF Listed
    <3>2. pos = todo[1] /\ 1 \in 1..Len(todo)
      BY <2>1, <3>1, TailFacts
    <3>3. QED
      BY <2>1, <3>2 DEF Listed, DropsOf
  <2> HIDE DEF pos, b, name
  <2>3. PICK t : body[b].term.to = {t}
    BY <1>1, <1>2, <2>2, OneTarget, Zenon
  <2>4. new \in Body /\ Projected(new, body)
    BY <1>2, <2>2, <2>3, DropProjects, Zenon
  <2> HIDE DEF new
  <2>5. QED
    BY <1>5, <2>1, <2>4
<1>11. CASE \/ Gates \/ CollectMem \/ MemDone \/ CollectCalls \/ CallsDone
            \/ CollectDrops \/ DropsDone
  BY <1>4, <1>11
  DEF Gates, CollectMem, MemDone, CollectCalls, CallsDone, CollectDrops, DropsDone
<1>12. CASE UNCHANGED vars
  BY <1>4, <1>12 DEF vars
<1>13. QED
  BY <1>6, <1>7, <1>8, <1>9, <1>10, <1>11, <1>12 DEF Next

(* After every edit, in the middle of a pass too, the user's program is     *)
(* there and unchanged: each of its items exactly once, with its operands   *)
(* and unwind action, and the same normal and unwind edges between them,    *)
(* whatever the body and the library (inject_for_body and all it calls).    *)
THEOREM FlowKept == Spec => []FlowPreserved
<1>1. ASSUME FlowIInv PROVE FlowPreserved
  <2>1. Preserves(body, orig)
    BY <1>1, IInvFacts, ProjectedPreserves DEF FlowIInv
  <2>2. QED
    BY <2>1 DEF FlowPreserved, Preserves, Own, Bared
<1>2. Init => FlowIInv
  BY InitFlow
<1>3. FlowIInv /\ [Next]_vars => FlowIInv'
  BY NextFlow
<1>4. FlowIInv => FlowPreserved
  BY <1>1
<1>5. QED
  BY <1>2, <1>3, <1>4, PTL DEF Spec

-----------------------------------------------------------------------------
(* HooksAsPromised.  An iteration of a pass adds the effects of its hooks   *)
(* to the items it is done with, and to no other; what the passes give to   *)
(* an item in the end is what the library's hooks and the item's kind call  *)
(* for.                                                                     *)

-----------------------------------------------------------------------------
(* What instrumenting a call or a drop adds, as the library has the hooks.  *)

(* What before_func_call puts in front of a call, and after_func_call       *)
(* behind it.                                                               *)
CallLead(call, name) ==
    Joined(When(name \in lib.before,
                Append(RefEffects(call.args),
                       Effect(<<"before", name>>, MonitorArgs(call.args), call.unwind))),
           When(name \in lib.after, RefEffects(call.args)))
CallTrail(call, name) ==
    When(name \in lib.after,
         <<DestRef.effect, Effect(<<"after", name>>,
                                  Append(MonitorArgs(call.args), <<"ref", "dest">>), call.unwind)>>)
(* The same of the hooks around a drop.                                     *)
DropLead(drop, name) ==
    Joined(When(name \in lib.before,
                Append(<<GuardRef.effect>>,
                       Effect(<<"before", name>>, <<<<"ref", "guard">>>>, drop.unwind))),
           When(name \in lib.after, <<GuardRef.effect>>))
DropTrail(drop, name) ==
    When(name \in lib.after, <<Effect(<<"after", name>>, <<<<"ref", "guard">>>>, drop.unwind)>>)

(* An effect with operands of the right kind is an effect.                  *)
LEMMA EffectTyped ==
    ASSUME NEW what \in Seq(Names), NEW on \in Operands, NEW unwind \in UnwindAction
    PROVE  Effect(what, on, unwind) \in EffectType
BY DEF Effect, EffectType

(* What a hook call does is an effect.                                      *)
LEMMA CallEffectTyped ==
    ASSUME NEW fn \in HookNames, NEW of \in Names, NEW on \in Operands,
           NEW unwind \in UnwindAction
    PROVE  Effect(<<fn, of>>, on, unwind) \in EffectType
<1>1. fn \in Names
  BY NamesAssumption, Zenon DEF HookNames, Words
<1>2. <<fn, of>> \in Seq(Names)
  BY <1>1
<1>3. QED
  BY <1>2, EffectTyped, Zenon

(* The references built for the hook do what RefEffects lists.              *)
LEMMA RefEffectsOf ==
    ASSUME NEW args \in Operands
    PROVE  /\ EffectsOf(ArgRefs(args)) = RefEffects(args)
           /\ RefEffects(args) \in Seq(EffectType)
<1> DEFINE refs == ByRef(args)
           stmts == ArgRefs(args)
<1>1. stmts = [k \in DOMAIN refs |-> InsertedStmt(<<"ref">>, <<refs[k]>>)]
  BY DEF ArgRefs
<1>2. stmts \in Seq(Statement)
  BY ArgRefsType
<1>3. RefEffects(args) = [k \in DOMAIN refs |-> Effect(<<"ref">>, <<refs[k]>>, Continue)]
  BY DEF RefEffects
<1> HIDE DEF stmts, refs
<1>4. DOMAIN stmts = 1..Len(stmts) /\ DOMAIN stmts = DOMAIN refs
  BY <1>1, <1>2
<1>5. \A k \in DOMAIN refs : stmts[k].effect = Effect(<<"ref">>, <<refs[k]>>, Continue)
  BY <1>1 DEF InsertedStmt
<1>6. EffectsOf(stmts) = RefEffects(args)
  BY <1>3, <1>4, <1>5 DEF EffectsOf
<1>7. QED
  BY <1>2, <1>6, EffectsOfType DEF stmts

(* They are statements the pass may insert.                                 *)
LEMMA RefStatements ==
    /\ DestRef \in Statement /\ GuardRef \in Statement
    /\ DestRef.effect \in EffectType /\ GuardRef.effect \in EffectType
<1>1. DestRef \in Statement
  <2>1. "ref_mut" \in Names
    BY WordFacts, Zenon
  <2>2. <<"ref_mut">> \in Seq(Names)
    BY <2>1
  <2>3. <<<<"place", "dest">>>> \in Operands
    BY WordFacts, OperandType, Zenon
  <2>4. QED
    BY <2>2, <2>3, InsertedType, Zenon DEF DestRef
<1>2. GuardRef \in Statement
  <2>1. "ref" \in Names
    BY WordFacts, Zenon
  <2>2. <<"ref">> \in Seq(Names)
    BY <2>1
  <2>3. <<<<"place", "guard">>>> \in Operands
    BY WordFacts, OperandType, Zenon
  <2>4. QED
    BY <2>2, <2>3, InsertedType, Zenon DEF GuardRef
<1>3. ASSUME NEW x \in Statement PROVE x.effect \in EffectType
  BY DEF Statement, EffectType
<1>4. QED
  BY <1>1, <1>2, <1>3

(* One inserted statement has one effect.                                   *)
LEMMA OneStatement ==
    ASSUME NEW x \in Statement, NEW e \in EffectType, NEW v \in Seq(EffectType)
    PROVE  /\ <<x>> \in Seq(Statement)
           /\ EffectsOf(<<x>>) = <<x.effect>>
           /\ EffectsOf(<<>>) = <<>>
           /\ Joined(v, <<e>>) = Append(v, e) /\ Append(v, e) \in Seq(EffectType)
<1>1. <<x>> \in Seq(Statement) /\ Len(<<x>>) = 1 /\ <<x>>[1] = x
  OBVIOUS
<1>2. EffectsOf(<<x>>) = <<x.effect>>
  <2>1. 1..1 = {1}
    OBVIOUS
  <2>2. EffectsOf(<<x>>) = [k \in {1} |-> x.effect]
    BY <1>1, <2>1 DEF EffectsOf
  <2>3. <<x.effect>> = [k \in 1..1 |-> x.effect]
    OBVIOUS
  <2>4. QED
    BY <2>1, <2>2, <2>3
<1>3. EffectsOf(<<>>) = <<>>
  BY DEF EffectsOf
<1>4. Joined(v, <<e>>) = Append(v, e) /\ Append(v, e) \in Seq(EffectType)
  BY ConcatSingle DEF Joined
<1>5. QED
  BY <1>1, <1>2, <1>3, <1>4

(* A list of one effect.                                                    *)
LEMMA OneEffect ==
    ASSUME NEW x \in Statement
    PROVE  EffectsOf(<<x>>) = <<x.effect>>
<1>1. PICK e \in EffectType : e = x.effect
  BY DEF Statement, EffectType
<1>2. QED
  BY <1>1, NoEffects, OneStatement, Zenon

(* A list of two.                                                           *)
LEMMA TwoEffects ==
    ASSUME NEW d \in EffectType, NEW e \in EffectType
    PROVE  <<d, e>> \in Seq(EffectType) /\ Append(<<d>>, e) = <<d, e>>
BY ShortAppends

(* What the call and drop passes give an item are lists of effects.         *)
LEMMA LeadTyped ==
    ASSUME NEW term \in Terminator, NEW name \in Names
    PROVE  /\ CallLead(term, name) \in Seq(EffectType)
           /\ CallTrail(term, name) \in Seq(EffectType)
           /\ DropLead(term, name) \in Seq(EffectType)
           /\ DropTrail(term, name) \in Seq(EffectType)
<1>1. term.args \in Operands /\ term.unwind \in UnwindAction
  BY DEF Terminator
<1>2. /\ MonitorArgs(term.args) \in Operands
      /\ Append(MonitorArgs(term.args), <<"ref", "dest">>) \in Operands
      /\ <<<<"ref", "guard">>>> \in Operands
  BY <1>1, MonitorArgsType, GuardTypesAreTyped
<1>3. RefEffects(term.args) \in Seq(EffectType)
  BY <1>1, RefEffectsOf
<1> DEFINE a == Effect(<<"before", name>>, MonitorArgs(term.args), term.unwind)
           z == Effect(<<"after", name>>, Append(MonitorArgs(term.args), <<"ref", "dest">>), term.unwind)
           p == Effect(<<"before", name>>, <<<<"ref", "guard">>>>, term.unwind)
           q == Effect(<<"after", name>>, <<<<"ref", "guard">>>>, term.unwind)
<1>4. "before" \in HookNames /\ "after" \in HookNames
  BY DEF HookNames
<1>5. a \in EffectType /\ z \in EffectType /\ p \in EffectType /\ q \in EffectType
  BY <1>1, <1>2, <1>4, CallEffectTyped
<1> HIDE DEF a, z, p, q
<1>6. DestRef.effect \in EffectType /\ GuardRef.effect \in EffectType
  BY RefStatements
<1>7. <<DestRef.effect, z>> \in Seq(EffectType) /\ <<q>> \in Seq(EffectType)
      /\ <<GuardRef.effect>> \in Seq(EffectType)
  BY <1>5, <1>6
<1>8. ASSUME NEW x \in Seq(EffectType), NEW e \in EffectType PROVE Append(x, e) \in Seq(EffectType)
  OBVIOUS
<1>9. ASSUME NEW c, NEW x \in Seq(EffectType) PROVE When(c, x) \in Seq(EffectType)
  BY NoEffects DEF When
<1>10. CallTrail(term, name) \in Seq(EffectType)
  BY <1>7, <1>9, Zenon DEF CallTrail, z
<1>11. DropTrail(term, name) \in Seq(EffectType)
  BY <1>7, <1>9, Zenon DEF DropTrail, q
<1>12. CallLead(term, name) \in Seq(EffectType)
  <2> DEFINE c == name \in lib.before
             d == name \in lib.after
  <2> HIDE DEF c, d
  <2>2. When(c, Append(RefEffects(term.args), a)) \in Seq(EffectType)
    BY <1>3, <1>5, <1>8, <1>9, Zenon
  <2>3. When(d, RefEffects(term.args)) \in Seq(EffectType)
    BY <1>3, <1>9
  <2>4. QED
    BY <2>2, <2>3, JoinedFacts DEF CallLead, a, c, d
<1>13. DropLead(term, name) \in Seq(EffectType)
  <2> DEFINE c == name \in lib.before
             d == name \in lib.after
  <2> HIDE DEF c, d
  <2>2. PICK g \in Seq(EffectType) : g = <<GuardRef.effect>>
    BY <1>7, Zenon
  <2>3. When(c, Append(g, p)) \in Seq(EffectType)
    BY <1>5, <1>8, <1>9, Zenon
  <2>4. When(d, g) \in Seq(EffectType)
    BY <1>9
  <2>5. DropLead(term, name) = Joined(When(c, Append(g, p)), When(d, g))
    BY <2>2, Zenon DEF DropLead, p, c, d
  <2>6. QED
    BY <2>3, <2>4, <2>5, JoinedFacts
<1>14. QED
  BY <1>10, <1>11, <1>12, <1>13

(* The home of an own terminator is a location of the source body.          *)
LEMMA TermHome ==
    ASSUME NEW bd \in Body, NEW src \in Body, Tagged(src), Projected(bd, src),
           NEW b \in 1..Len(bd), bd[b].term.at # Nowhere
    PROVE  bd[b].term.at \in Locations(src)
<1> DEFINE l == <<b, Len(bd[b].stmts) + 1>>
<1>1. l \in Locations(bd) /\ IsTerm(bd, l) /\ ItemAt(bd, l) = bd[b].term
  BY TermPlace
<1> HIDE DEF l
<1>2. QED
  BY <1>1, OwnHome DEF Own

(* An iteration of the call pass adds its hooks to the call it is for.      *)
LEMMA CallHooked ==
    ASSUME NEW src \in Body, Tagged(src), NEW bd, NEW front, NEW rear, NEW start,
           Carries(bd, src, front, rear, start), NEW b \in 1..Len(bd),
           bd[b].term.at # Nowhere, ~bd[b].cleanup, NEW name \in Names,
           NEW t, bd[b].term.to = {t}
    PROVE  LET moved == CallBefore(bd, b, name)
               new == CallAfter(moved.body, moved.block, name)
               call == bd[b].term
               m == call.at
           IN  /\ m \in Locations(src)
               /\ Hooked(new, src, [front EXCEPT ![m] = Joined(@, CallLead(call, name))],
                         [rear EXCEPT ![m] = Joined(CallTrail(call, name), @)], start)
<1> DEFINE moved == CallBefore(bd, b, name)
           mid == moved.body
           c == moved.block
           new == CallAfter(mid, c, name)
           call == bd[b].term
           m == call.at
           u == RefEffects(call.args)
           before == When(name \in lib.before,
                          Append(u, Effect(<<"before", name>>, MonitorArgs(call.args), call.unwind)))
           f == [front EXCEPT ![m] = Joined(@, before)]
<1>1. /\ bd \in Body /\ Targeted(bd) /\ Projected(bd, src)
      /\ HooksType(src, front, rear, start) /\ Hooked(bd, src, front, rear, start)
      /\ front \in [Locations(src) -> Seq(EffectType)]
      /\ rear \in [Locations(src) -> Seq(EffectType)]
  BY DEF Carries, HooksType
<1>2. /\ call \in Terminator /\ call.args \in Operands /\ call.unwind \in UnwindAction
      /\ bd[b].cleanup = FALSE /\ Len(bd) \in Nat
  BY <1>1, TermFacts
<1>3. /\ ArgRefs(call.args) \in Seq(Statement) /\ MonitorArgs(call.args) \in Operands
      /\ AllInserted(ArgRefs(call.args)) /\ EffectsOf(ArgRefs(call.args)) = u
      /\ u \in Seq(EffectType)
  BY <1>2, ArgRefsType, MonitorArgsType, InsertedAreInserted, RefEffectsOf
<1>4. m \in Locations(src)
  BY <1>1, TermHome
<1>5. "before" \in HookNames /\ "after" \in HookNames
  BY DEF HookNames
<1> HIDE DEF u, m
<1>6. front[m] \in Seq(EffectType) /\ rear[m] \in Seq(EffectType)
  BY <1>1, <1>4
<1>7. /\ mid \in Body /\ Projected(mid, src) /\ Targeted(mid)
      /\ c \in 1..Len(mid) /\ mid[c].term = call
      /\ Hooked(mid, src, f, rear, start) /\ before \in Seq(EffectType)
  <2>1. CASE name \notin lib.before
    <3>1. mid = bd /\ c = b
      BY <1>1, <1>2, <2>1, CallBeforeFacts
    <3>2. before = <<>>
      BY <2>1 DEF When
    <3>3. Joined(front[m], before) = front[m]
      BY <1>6, <3>2, JoinedFacts, Zenon
    <3>4. f = front
      BY <1>1, <3>3
    <3>5. QED
      BY <1>1, <3>1, <3>2, <3>4, NoEffects, Zenon
  <2>2. CASE name \in lib.before
    <3> DEFINE n == Len(bd) + 1
               blk == [stmts |-> <<>>, term |-> call, cleanup |-> FALSE]
               new1 == InFront(bd, b, ArgRefs(call.args), name, MonitorArgs(call.args), blk)
               e == Effect(<<"before", name>>, MonitorArgs(call.args), call.unwind)
    <3>1. CallBefore(bd, b, name) = [body |-> new1, block |-> n]
      BY <2>2 DEF CallBefore, InFront, Patch
    <3>2. /\ blk \in BasicBlock /\ blk.term = call /\ blk.cleanup = bd[b].cleanup
          /\ blk.stmts = <<>>
      BY <1>2, WordFacts, Zenon DEF BasicBlock
    <3> HIDE DEF blk
    <3>3. new1 \in Body /\ Projected(new1, bd) /\ Targeted(new1)
      BY <1>1, <1>3, <3>2, InFrontProjects
    <3>4. Moved(bd, new1, b)
      BY <1>1, <1>3, <3>2, HookInFront
    <3>5. e \in EffectType
      BY <1>2, <1>3, <1>5, CallEffectTyped
    <3>6. PICK w \in Seq(EffectType) : w = <<e>>
      <4>1. <<e>> \in Seq(EffectType)
        BY <3>5, JoinedMore
      <4>2. QED
        BY <4>1, Zenon
    <3>7. w = <<Effect(<<"before", name>>, MonitorArgs(call.args), bd[b].term.unwind)>>
      BY <3>6
    <3>8. Hooked(new1, src,
                 [front EXCEPT ![m] = Joined(@, Joined(EffectsOf(ArgRefs(call.args)), w))],
                 rear, start)
      BY <1>1, <1>3, <3>2, <3>7, InFrontHooked, Zenon DEF m
    <3>9. Joined(u, w) = Append(u, e) /\ Append(u, e) \in Seq(EffectType)
      <4> HIDE DEF e
      <4>1. u \o <<e>> = Append(u, e) /\ Append(u, e) \in Seq(EffectType)
        BY <1>3, <3>5, ConcatSingle
      <4>2. QED
        BY <3>6, <4>1 DEF Joined
    <3>10. before = Append(u, e)
      BY <2>2 DEF When
    <3> HIDE DEF new1, e
    <3>11. Hooked(new1, src, f, rear, start)
      BY <1>3, <3>8, <3>9, <3>10, Zenon
    <3>12. mid = new1 /\ c = n
      BY <3>1
    <3>13. new1[n].term = call /\ n \in 1..Len(new1)
      BY <1>1, <3>4, MovedElsewhere
    <3>14. Projected(new1, src)
      BY <1>1, <3>3, ProjectedTwice
    <3>15. QED
      BY <3>3, <3>9, <3>10, <3>11, <3>12, <3>13, <3>14, Zenon
  <2>3. QED
    BY <2>1, <2>2
<1> HIDE DEF mid, c, before
<1>8. CallLead(call, name) = Joined(before, When(name \in lib.after, u))
  BY DEF CallLead, before, u
<1>9. Joined(front[m], before) \in Seq(EffectType)
  BY <1>6, <1>7, JoinedFacts
<1>10. f \in [Locations(src) -> Seq(EffectType)] /\ f[m] = Joined(front[m], before)
  BY <1>1, <1>4, <1>9
<1>11. ASSUME NEW v \in Seq(EffectType)
       PROVE  [f EXCEPT ![m] = Joined(@, v)] = [front EXCEPT ![m] = Joined(@, Joined(before, v))]
  <2>1. Joined(Joined(front[m], before), v) = Joined(front[m], Joined(before, v))
    BY <1>6, <1>7, JoinedApart
  <2>2. QED
    BY <1>1, <1>4, <1>10, <2>1, Zenon
<1> HIDE DEF f
<1>12. CASE name \notin lib.after
  <2>1. new = mid
    BY <1>7, <1>12, CallAfterFacts
  <2>2. CallLead(call, name) = before /\ CallTrail(call, name) = <<>>
    BY <1>7, <1>8, <1>12, JoinedFacts, Zenon DEF When, CallTrail
  <2>3. rear = [rear EXCEPT ![m] = Joined(CallTrail(call, name), @)]
    <3>1. Joined(<<>>, rear[m]) = rear[m]
      BY <1>6, JoinedFacts
    <3>2. QED
      BY <1>1, <2>2, <3>1
  <2>4. QED
    BY <1>4, <1>7, <2>1, <2>2, <2>3 DEF f, mid, c, m
<1>13. CASE name \in lib.after
  <2> DEFINE args == Append(MonitorArgs(call.args), <<"ref", "dest">>)
             e == Effect(<<"after", name>>, args, call.unwind)
  <2>1. args \in Operands
    BY <1>2, MonitorArgsType
  <2>2. DestRef \in Statement /\ DestRef.effect \in EffectType
    BY RefStatements
  <2>3. PICK refs \in Seq(Statement) : refs = <<DestRef>>
    <3>1. <<DestRef>> \in Seq(Statement)
      BY <2>2
    <3>2. QED
      BY <3>1, Zenon
  <2>4. AllInserted(refs)
    BY <2>3, InsertedAreInserted, Zenon
  <2>5. e \in EffectType
    BY <1>2, <1>5, <2>1, CallEffectTyped
  <2> DEFINE behind == Behind(mid, c, ArgRefs(call.args), name, args, refs)
  <2>6. PICK w \in Seq(EffectType) : w = Append(EffectsOf(refs), e) /\ w = CallTrail(call, name)
    <3>1. PICK d \in EffectType : d = DestRef.effect
      BY <2>2
    <3>2. EffectsOf(refs) = <<d>>
      <4>1. EffectsOf(<<DestRef>>) = <<DestRef.effect>>
        BY <2>2, OneEffect
      <4>2. QED
        BY <2>3, <3>1, <4>1, Zenon
    <3>3. CallTrail(call, name) = <<d, e>>
      BY <1>13, <3>1 DEF CallTrail, When
    <3> HIDE DEF e
    <3>4. <<d, e>> \in Seq(EffectType) /\ Append(<<d>>, e) = <<d, e>>
      BY <2>5, TwoEffects
    <3>5. QED
      BY <3>2, <3>3, <3>4, Zenon
  <2>7. mid[c].term.to = {t} /\ mid[c].term.at # Nowhere /\ mid[c].term.at = m
    BY <1>7 DEF m
  <2>8. HooksType(src, f, rear, start)
    BY <1>1, <1>10 DEF HooksType
  <2>9. w = Append(EffectsOf(refs), Effect(<<"after", name>>, args, mid[c].term.unwind))
    BY <1>7, <2>6
  <2> HIDE DEF args, e
  <2>10. Hooked(behind, src, [f EXCEPT ![m] = Joined(@, EffectsOf(ArgRefs(call.args)))],
                [rear EXCEPT ![m] = Joined(w, @)], start)
    BY <1>3, <1>7, <2>1, <2>4, <2>7, <2>8, <2>9, BehindHooked, Zenon
  <2>11. new = behind
    BY <1>7, <1>13, <2>3, Zenon DEF CallAfter, Behind, Patch, args
  <2> HIDE DEF behind
  <2>12. [f EXCEPT ![m] = Joined(@, EffectsOf(ArgRefs(call.args)))]
           = [front EXCEPT ![m] = Joined(@, CallLead(call, name))]
    BY <1>3, <1>8, <1>11, <1>13, Zenon DEF When
  <2>13. QED
    BY <1>4, <2>6, <2>10, <2>11, <2>12 DEF mid, c, m
<1>14. QED
  BY <1>12, <1>13

(* An iteration of the drop pass adds its hooks to the drop it is for.      *)
LEMMA DropHooked ==
    ASSUME NEW src \in Body, Tagged(src), NEW bd, NEW front, NEW rear, NEW start,
           Carries(bd, src, front, rear, start), NEW b \in 1..Len(bd),
           bd[b].term.at # Nowhere, NEW name, bd[b].term.of = name,
           NEW t, bd[b].term.to = {t}
    PROVE  LET moved == DropBefore(bd, b, name)
               new == DropAfter(moved.body, moved.block, name)
               drop == bd[b].term
               m == drop.at
           IN  /\ m \in Locations(src)
               /\ Hooked(new, src, [front EXCEPT ![m] = Joined(@, DropLead(drop, name))],
                         [rear EXCEPT ![m] = Joined(DropTrail(drop, name), @)], start)
<1> DEFINE moved == DropBefore(bd, b, name)
           mid == moved.body
           c == moved.block
           new == DropAfter(mid, c, name)
           drop == bd[b].term
           m == drop.at
           before == When(name \in lib.before,
                          Append(<<GuardRef.effect>>,
                                 Effect(<<"before", name>>, <<<<"ref", "guard">>>>, drop.unwind)))
           f == [front EXCEPT ![m] = Joined(@, before)]
<1>1. /\ bd \in Body /\ Targeted(bd) /\ Projected(bd, src)
      /\ HooksType(src, front, rear, start) /\ Hooked(bd, src, front, rear, start)
      /\ front \in [Locations(src) -> Seq(EffectType)]
      /\ rear \in [Locations(src) -> Seq(EffectType)]
  BY DEF Carries, HooksType
<1>2. /\ drop \in Terminator /\ drop.unwind \in UnwindAction /\ drop.of \in Names
      /\ bd[b] \in BasicBlock /\ Len(bd) \in Nat /\ name \in Names
  BY <1>1, TermFacts
<1>3. PICK stmts \in Seq(Statement) : /\ stmts = <<GuardRef>> /\ AllInserted(stmts)
                                     /\ EffectsOf(stmts) = <<GuardRef.effect>>
  <2>1. PICK stmts \in Seq(Statement) : stmts = <<GuardRef>>
    BY GuardTypesAreTyped
  <2>2. AllInserted(stmts)
    BY <2>1, InsertedAreInserted, Zenon
  <2>3. EffectsOf(<<GuardRef>>) = <<GuardRef.effect>>
    BY RefStatements, OneEffect
  <2>4. QED
    BY <2>1, <2>2, <2>3, Zenon
<1>4. PICK u \in Seq(EffectType) : u = <<GuardRef.effect>> /\ EffectsOf(stmts) = u
  BY <1>3, EffectsOfType, Zenon
<1>5. PICK args \in Operands : args = <<<<"ref", "guard">>>>
  BY GuardTypesAreTyped, Zenon
<1>6. "before" \in HookNames /\ "after" \in HookNames
  BY DEF HookNames
<1>7. m \in Locations(src)
  BY <1>1, TermHome
<1> HIDE DEF m
<1>8. front[m] \in Seq(EffectType) /\ rear[m] \in Seq(EffectType)
  BY <1>1, <1>7
<1>9. /\ mid \in Body /\ Projected(mid, src) /\ Targeted(mid)
      /\ c \in 1..Len(mid) /\ mid[c].term = drop
      /\ Hooked(mid, src, f, rear, start) /\ before \in Seq(EffectType)
  <2>1. CASE name \notin lib.before
    <3>1. mid = bd /\ c = b
      BY <1>1, <2>1, DropBeforeFacts
    <3>2. before = <<>>
      BY <2>1 DEF When
    <3>3. Joined(front[m], before) = front[m]
      BY <1>8, <3>2, JoinedFacts, Zenon
    <3>4. f = front
      BY <1>1, <3>3
    <3>5. QED
      BY <1>1, <3>1, <3>2, <3>4, NoEffects, Zenon
  <2>2. CASE name \in lib.before
    <3> DEFINE n == Len(bd) + 1
               blk == [bd[b] EXCEPT !.stmts = <<>>]
               new1 == InFront(bd, b, stmts, drop.of, args, blk)
               e == Effect(<<"before", name>>, args, drop.unwind)
    <3>1. DropBefore(bd, b, name) = [body |-> new1, block |-> n]
      BY <1>3, <1>5, <2>2, Zenon DEF DropBefore, DropHook, InFront, Patch
    <3>2. /\ blk \in BasicBlock /\ blk.term = drop /\ blk.cleanup = bd[b].cleanup
          /\ blk.stmts = <<>>
      BY <1>2, WordFacts, Zenon DEF BasicBlock
    <3> HIDE DEF blk
    <3>3. new1 \in Body /\ Projected(new1, bd) /\ Targeted(new1)
      BY <1>1, <1>2, <1>3, <3>2, InFrontProjects, Zenon
    <3>4. Moved(bd, new1, b)
      BY <1>1, <1>2, <3>2, HookInFront
    <3>5. e \in EffectType
      BY <1>2, <1>6, CallEffectTyped
    <3>6. PICK w \in Seq(EffectType) : w = <<e>>
      <4>1. <<e>> \in Seq(EffectType)
        BY <3>5, JoinedMore
      <4>2. QED
        BY <4>1, Zenon
    <3>7. w = <<Effect(<<"before", drop.of>>, args, bd[b].term.unwind)>>
      BY <3>6
    <3>8. Hooked(new1, src, [front EXCEPT ![m] = Joined(@, Joined(EffectsOf(stmts), w))],
                 rear, start)
      BY <1>1, <1>2, <1>3, <3>2, <3>7, InFrontHooked, Zenon DEF m
    <3>9. Joined(u, w) = Append(u, e) /\ Append(u, e) \in Seq(EffectType)
      <4> HIDE DEF e
      <4>1. u \o <<e>> = Append(u, e) /\ Append(u, e) \in Seq(EffectType)
        BY <3>5, ConcatSingle
      <4>2. QED
        BY <3>6, <4>1 DEF Joined
    <3>10. before = Append(u, e)
      BY <1>4, <1>5, <2>2, Zenon DEF When
    <3> HIDE DEF new1, e
    <3>11. Hooked(new1, src, f, rear, start)
      BY <1>4, <3>8, <3>9, <3>10, Zenon
    <3>12. mid = new1 /\ c = n
      BY <3>1
    <3>13. new1[n].term = drop /\ n \in 1..Len(new1)
      BY <1>1, <3>4, MovedElsewhere
    <3>14. Projected(new1, src)
      BY <1>1, <3>3, ProjectedTwice
    <3>15. QED
      BY <3>3, <3>9, <3>10, <3>11, <3>12, <3>13, <3>14, Zenon
  <2>3. QED
    BY <2>1, <2>2
<1> HIDE DEF mid, c
<1>10. DropLead(drop, name) = Joined(before, When(name \in lib.after, u))
  BY <1>4, Zenon DEF DropLead
<1> HIDE DEF before
<1>11. Joined(front[m], before) \in Seq(EffectType)
  BY <1>8, <1>9, JoinedFacts
<1>12. f \in [Locations(src) -> Seq(EffectType)] /\ f[m] = Joined(front[m], before)
  BY <1>1, <1>7, <1>11
<1>13. ASSUME NEW v \in Seq(EffectType)
       PROVE  [f EXCEPT ![m] = Joined(@, v)] = [front EXCEPT ![m] = Joined(@, Joined(before, v))]
  <2>1. Joined(Joined(front[m], before), v) = Joined(front[m], Joined(before, v))
    BY <1>8, <1>9, JoinedApart
  <2>2. QED
    BY <1>1, <1>7, <1>12, <2>1, Zenon
<1> HIDE DEF f
<1>14. CASE name \notin lib.after
  <2>1. new = mid
    BY <1>9, <1>14, DropAfterFacts
  <2>2. DropLead(drop, name) = before /\ DropTrail(drop, name) = <<>>
    BY <1>9, <1>10, <1>14, JoinedFacts, Zenon DEF When, DropTrail
  <2>3. rear = [rear EXCEPT ![m] = Joined(DropTrail(drop, name), @)]
    <3>1. Joined(<<>>, rear[m]) = rear[m]
      BY <1>8, JoinedFacts
    <3>2. QED
      BY <1>1, <2>2, <3>1
  <2>4. QED
    BY <1>7, <1>9, <2>1, <2>2, <2>3 DEF f, mid, c, m
<1>15. CASE name \in lib.after
  <2> DEFINE e == Effect(<<"after", name>>, args, drop.unwind)
  <2>1. PICK none \in Seq(Statement) : none = <<>> /\ AllInserted(none) /\ EffectsOf(none) = <<>>
    <3>1. PICK none \in Seq(Statement) : none = <<>>
      BY WordFacts, Zenon
    <3>2. AllInserted(<<>>) /\ EffectsOf(<<>>) = <<>>
      BY InsertedAreInserted DEF EffectsOf
    <3>3. QED
      BY <3>1, <3>2, Zenon
  <2>2. e \in EffectType
    BY <1>2, <1>6, CallEffectTyped
  <2> DEFINE behind == Behind(mid, c, stmts, drop.of, args, none)
  <2>3. PICK w \in Seq(EffectType) : w = Append(EffectsOf(none), e) /\ w = DropTrail(drop, name)
    <3>1. DropTrail(drop, name) = <<e>>
      BY <1>5, <1>15, Zenon DEF DropTrail, When
    <3> HIDE DEF e
    <3>2. <<e>> \in Seq(EffectType)
      BY <2>2, JoinedMore
    <3>3. Append(<<>>, e) = <<e>>
      OBVIOUS
    <3>4. QED
      BY <2>1, <3>1, <3>2, <3>3, Zenon
  <2>4. mid[c].term.to = {t} /\ mid[c].term.at # Nowhere /\ mid[c].term.at = m
    BY <1>9, Zenon DEF m
  <2>5. HooksType(src, f, rear, start)
    BY <1>1, <1>12 DEF HooksType
  <2>6. w = Append(EffectsOf(none), Effect(<<"after", drop.of>>, args, mid[c].term.unwind))
    BY <1>9, <2>3
  <2> HIDE DEF e
  <2>7. Hooked(behind, src, [f EXCEPT ![m] = Joined(@, EffectsOf(stmts))],
               [rear EXCEPT ![m] = Joined(w, @)], start)
    BY <1>2, <1>3, <1>9, <2>1, <2>4, <2>5, <2>6, BehindHooked, Zenon
  <2>8. new = behind
    BY <1>3, <1>5, <1>9, <1>15, <2>1, Zenon DEF DropAfter, DropHook, Behind, Patch
  <2> HIDE DEF behind
  <2>9. [f EXCEPT ![m] = Joined(@, EffectsOf(stmts))]
           = [front EXCEPT ![m] = Joined(@, DropLead(drop, name))]
    BY <1>4, <1>10, <1>13, <1>15, Zenon DEF When
  <2>10. QED
    BY <1>7, <2>3, <2>7, <2>8, <2>9 DEF mid, c, m
<1>16. QED
  BY <1>14, <1>15

-----------------------------------------------------------------------------
(* Memory hooks: both addresses are taken first, the write hook runs next.  *)

(* What a memory hook does for each of some pointers.                       *)
AddrEffects(what, pointers) ==
    [k \in DOMAIN pointers |->
        Effect(<<"addr_of", what>>, <<<<"deref", pointers[k]>>>>, Continue)]
(* The effects of the hooks in front of a dereference: reads first.         *)
MemHookEffects(what, pointers) ==
    [k \in DOMAIN pointers |-> MemHookEffect(what, pointers[k])]
AccessLead(reads, writes) ==
    Joined(Joined(AddrEffects("mem_read", reads), AddrEffects("mem_write", writes)),
           Joined(MemHookEffects("mem_write", writes), MemHookEffects("mem_read", reads)))

(* They are lists of effects.                                               *)
LEMMA MemEffectsTyped ==
    ASSUME NEW what \in {"mem_read", "mem_write"}, NEW pointers \in Seq(Names)
    PROVE  /\ AddrEffects(what, pointers) \in Seq(EffectType)
           /\ MemHookEffects(what, pointers) \in Seq(EffectType)
           /\ EffectsOf(AddrOf(what, pointers)) = AddrEffects(what, pointers)
<1> DEFINE stmts == AddrOf(what, pointers)
<1>1. stmts = [k \in DOMAIN pointers |->
                 InsertedStmt(<<"addr_of", what>>, <<<<"deref", pointers[k]>>>>)]
  BY DEF AddrOf
<1>2. stmts \in Seq(Statement)
  BY AddrOfType
<1> HIDE DEF stmts
<1>3. DOMAIN stmts = 1..Len(stmts) /\ DOMAIN stmts = DOMAIN pointers
  BY <1>1, <1>2
<1>4. \A k \in DOMAIN pointers :
        stmts[k].effect = Effect(<<"addr_of", what>>, <<<<"deref", pointers[k]>>>>, Continue)
  BY <1>1 DEF InsertedStmt
<1>5. EffectsOf(stmts) = AddrEffects(what, pointers)
  BY <1>3, <1>4, Zenon DEF EffectsOf, AddrEffects
<1>6. AddrEffects(what, pointers) \in Seq(EffectType)
  BY <1>2, <1>5, EffectsOfType
<1>7. ASSUME NEW pointer \in Names PROVE MemHookEffect(what, pointer) \in EffectType
  <2>1. <<<<"addr", pointer>>>> \in Operands /\ what \in HookNames /\ "" \in Names
        /\ Terminate \in UnwindAction
    BY OperandType, WordFacts, Zenon DEF HookNames
  <2>2. QED
    BY <2>1, CallEffectTyped, Zenon DEF MemHookEffect
<1>8. \A k \in DOMAIN pointers : MemHookEffect(what, pointers[k]) \in EffectType
  <2>1. \A k \in DOMAIN pointers : pointers[k] \in Names
    OBVIOUS
  <2>2. QED
    BY <1>7, <2>1
<1>9. Len(pointers) \in Nat /\ DOMAIN pointers = 1..Len(pointers)
  OBVIOUS
<1>10. MemHookEffects(what, pointers) \in [1..Len(pointers) -> EffectType]
  BY <1>8, <1>9 DEF MemHookEffects
<1>11. MemHookEffects(what, pointers) \in Seq(EffectType)
  BY <1>9, <1>10, TabledSequence
<1>12. QED
  BY <1>5, <1>6, <1>11 DEF stmts

(* For one pointer there is one memory hook.                                *)
LEMMA OneHook ==
    ASSUME NEW what \in {"mem_read", "mem_write"}, NEW pointers \in Seq(Names),
           Len(pointers) <= 1, pointers # <<>>
    PROVE  MemHookEffects(what, pointers) = <<MemHookEffect(what, pointers[1])>>
<1> DEFINE e == MemHookEffect(what, pointers[1])
<1>1. DOMAIN pointers = {1}
  <2>1. Len(pointers) \in Nat /\ DOMAIN pointers = 1..Len(pointers)
    OBVIOUS
  <2>2. Len(pointers) # 0
    BY <2>1
  <2>3. Len(pointers) = 1 /\ 1..1 = {1}
    BY <2>1, <2>2
  <2>4. QED
    BY <2>1, <2>3
<1>2. MemHookEffects(what, pointers) = [k \in {1} |-> e]
  BY <1>1 DEF MemHookEffects
<1> HIDE DEF e
<1>3. <<e>> = [k \in {1} |-> e]
  <2>1. 1..1 = {1} /\ <<e>> = [k \in 1..1 |-> e]
    OBVIOUS
  <2>2. QED
    BY <2>1
<1>4. QED
  BY <1>2, <1>3 DEF e

(* Nothing inserted, anywhere.                                              *)
LEMMA SelfFronted ==
    ASSUME NEW bd \in Body, Targeted(bd), NEW x \in Locations(bd)
    PROVE  Fronted(bd, bd, x, <<>>)
<1> DEFINE h == [l \in Locations(bd) |-> l]
           s == [l \in Locations(bd) |-> 0]
           more == [l \in Locations(bd) |-> <<>>]
<1>1. /\ h \in [Locations(bd) -> Locations(bd)] /\ s \in [Locations(bd) -> Nat]
      /\ \A l \in Locations(bd) : h[l] = l /\ s[l] = 0
  OBVIOUS
<1>2. /\ more \in [Locations(bd) -> Seq(EffectType)]
      /\ \A l \in Locations(bd) : more[l] = <<>>
  BY NoEffects
<1> HIDE DEF h, s, more
<1>3. \A l \in Locations(bd) : Successors(bd, l) \subseteq Locations(bd)
  BY NextIsThere
<1>4. ASSUME NEW l \in Locations(bd) PROVE Copied(bd, l, bd, l, h)
  <2>1. {h[y] : y \in Successors(bd, l)} = Successors(bd, l)
    BY <1>1, <1>3
  <2>2. QED
    BY <2>1 DEF Copied
<1>5. Projects(bd, bd, h, s)
  BY <1>1, <1>3, <1>4, FirstItem DEF Projects
<1>6. Bounded(bd, s)
  <2>1. \A l \in Locations(bd) : s[l] < 1
    BY <1>1
  <2>2. QED
    BY <2>1 DEF Bounded
<1>7. Inserts(bd, bd, h, more, x, <<>>)
  BY <1>1, <1>2, <1>3, <1>4, FirstItem, NoEffects DEF Inserts
<1>8. QED
  BY <1>5, <1>6, <1>7 DEF Fronted

(* Splitting a block at an item puts the memory hook in front of it.        *)
LEMMA SplitFronted ==
    ASSUME NEW bd \in Body, Targeted(bd), NEW b \in 1..Len(bd),
           NEW i \in 1..Len(bd[b].stmts) + 1,
           NEW hook \in {"mem_read", "mem_write"}, NEW pointers \in Seq(Names),
           Len(pointers) <= 1
    PROVE  LET new == Split(bd, b, i, hook, pointers) IN
           /\ new \in Body /\ Projected(new, bd) /\ Targeted(new)
           /\ b \in 1..Len(new) /\ i \in 1..Len(new[b].stmts) + 1
           /\ pointers # <<>> => Len(new[b].stmts) = i - 1
           /\ pointers = <<>> => new = bd
           /\ Fronted(new, bd, <<b, i>>, MemHookEffects(hook, pointers))
<1> DEFINE new == Split(bd, b, i, hook, pointers)
           w == MemHookEffects(hook, pointers)
<1>1. /\ new \in Body /\ Projected(new, bd) /\ Targeted(new)
      /\ b \in 1..Len(new) /\ i \in 1..Len(new[b].stmts) + 1
      /\ pointers # <<>> =>
            /\ Cut(bd, new, b, i)
            /\ HookEffect(new[b].term) = MemHookEffect(hook, pointers[1])
  BY SplitProjects, Zenon
<1>2. w \in Seq(EffectType)
  BY MemEffectsTyped
<1>3. CASE pointers = <<>>
  <2>1. new = bd
    BY <1>3 DEF Split
  <2>2. w = <<>>
    BY <1>3 DEF MemHookEffects
  <2>3. <<b, i>> \in Locations(bd)
    BY PlaceFacts
  <2>4. Fronted(bd, bd, <<b, i>>, <<>>)
    BY <2>3, SelfFronted
  <2> HIDE DEF new, w
  <2>5. QED
    BY <1>1, <1>3, <2>1, <2>2, <2>4 DEF new, w
<1>4. CASE pointers # <<>>
  <2>1. w = <<MemHookEffect(hook, pointers[1])>>
    BY <1>4, OneHook
  <2> HIDE DEF new, w
  <2>2. w = <<HookEffect(new[b].term)>> /\ Cut(bd, new, b, i)
    BY <1>1, <1>4, <2>1
  <2>3. Fronted(new, bd, <<b, i>>, w)
    BY <1>1, <1>2, <2>2, CutFronted, Zenon
  <2>4. Len(new[b].stmts) = i - 1
    BY <2>2 DEF Cut
  <2>5. QED
    BY <1>1, <1>4, <2>3, <2>4 DEF new, w
<1>5. QED
  BY <1>3, <1>4

(* The effects of two lists of statements, one behind the other.            *)
LEMMA EffectsJoined ==
    ASSUME NEW a \in Seq(Statement), NEW b \in Seq(Statement)
    PROVE  EffectsOf(a \o b) = Joined(EffectsOf(a), EffectsOf(b))
<1> DEFINE x == EffectsOf(a)
           y == EffectsOf(b)
           c == a \o b
           z == EffectsOf(c)
<1>1. /\ c \in Seq(Statement) /\ Len(c) = Len(a) + Len(b)
      /\ \A k \in 1..Len(a) : c[k] = a[k]
      /\ \A k \in 1..Len(b) : c[Len(a) + k] = b[k]
      /\ Len(a) \in Nat /\ Len(b) \in Nat
  BY ConcatFacts
<1>2. /\ x \in Seq(EffectType) /\ Len(x) = Len(a) /\ \A k \in 1..Len(a) : x[k] = a[k].effect
      /\ y \in Seq(EffectType) /\ Len(y) = Len(b) /\ \A k \in 1..Len(b) : y[k] = b[k].effect
  BY EffectsOfType
<1> HIDE DEF x, y, c
<1>3. z \in Seq(EffectType) /\ Len(z) = Len(c) /\ \A k \in 1..Len(c) : z[k] = c[k].effect
  BY <1>1, EffectsOfType, Zenon
<1> HIDE DEF z
<1> DEFINE v == Joined(x, y)
<1>4. /\ v \in Seq(EffectType) /\ Len(v) = Len(x) + Len(y)
      /\ \A k \in 1..Len(x) : v[k] = x[k]
      /\ \A k \in 1..Len(y) : v[Len(x) + k] = y[k]
  <2>1. x \in Seq(EffectType) /\ y \in Seq(EffectType)
    BY <1>2
  <2>2. v = x \o y
    BY DEF Joined
  <2> HIDE DEF v
  <2>3. QED
    BY <2>1, <2>2, ConcatFacts
<1> HIDE DEF v
<1>5. Len(v) = Len(z)
  BY <1>1, <1>2, <1>3, <1>4
<1>6. ASSUME NEW k \in 1..Len(v) PROVE v[k] = z[k]
  <2>1. CASE k \in 1..Len(a)
    <3>1. k \in 1..Len(x) /\ k \in 1..Len(c)
      BY <1>2, <1>3, <1>5, <2>1
    <3>2. v[k] = x[k] /\ x[k] = a[k].effect /\ z[k] = c[k].effect /\ c[k] = a[k]
      BY <1>1, <1>2, <1>3, <1>4, <2>1, <3>1
    <3>3. QED
      BY <3>2
  <2>2. CASE k \notin 1..Len(a)
    <3>1. k - Len(a) \in 1..Len(b) /\ Len(a) + (k - Len(a)) = k
      BY <1>1, <1>2, <1>4, <2>2
    <3> DEFINE j == k - Len(a)
    <3> HIDE DEF j
    <3>2. j \in 1..Len(b) /\ k = Len(a) + j
      BY <3>1 DEF j
    <3>3. v[k] = y[j] /\ c[k] = b[j]
      BY <1>1, <1>2, <1>4, <3>2, Zenon
    <3>4. QED
      BY <1>2, <1>3, <1>5, <3>2, <3>3
  <2>3. QED
    BY <2>1, <2>2
<1>7. v = z
  BY <1>3, <1>4, <1>5, <1>6, SameSequence
<1>8. QED
  BY <1>7 DEF v, x, y, z, c

(* A dereference is split off once for the write and once for the read.     *)
LEMMA AccessFronted ==
    ASSUME NEW bd \in Body, Targeted(bd), NEW d, d.block \in 1..Len(bd),
           d.index \in 1..Len(bd[d.block].stmts) + 1,
           d.read \in Seq(Names), d.write \in Seq(Names), Len(d.read) <= 1, Len(d.write) <= 1,
           d.read # <<>> \/ d.write # <<>>
    PROVE  LET new == AccessThroughHooks(bd, d) IN
           /\ new \in Body
           /\ Fronted(new, bd, <<d.block, d.index>>, AccessLead(d.read, d.write))
<1> DEFINE b == d.block
           i == d.index
           x == <<b, i>>
           r == Split(bd, b, i, "mem_read", d.read)
           w == Split(r, b, i, "mem_write", d.write)
           reads == AddrOf("mem_read", d.read)
           writes == AddrOf("mem_write", d.write)
           stmts == reads \o writes
           new == Apply(w, b, stmts, w[b].term, <<>>)
           onRead == MemHookEffects("mem_read", d.read)
           onWrite == MemHookEffects("mem_write", d.write)
           takeRead == AddrEffects("mem_read", d.read)
           takeWrite == AddrEffects("mem_write", d.write)
<1>1. AccessThroughHooks(bd, d) = new
  BY DEF AccessThroughHooks, Split
<1>2. /\ r \in Body /\ Targeted(r) /\ b \in 1..Len(r) /\ i \in 1..Len(r[b].stmts) + 1
      /\ d.read # <<>> => Len(r[b].stmts) = i - 1
      /\ Fronted(r, bd, x, onRead)
  BY SplitFronted, Zenon
<1> HIDE DEF r, onRead
<1>3. /\ w \in Body /\ Targeted(w) /\ b \in 1..Len(w)
      /\ d.write # <<>> => Len(w[b].stmts) = i - 1
      /\ d.write = <<>> => w = r
      /\ Fronted(w, r, x, onWrite)
  BY <1>2, SplitFronted, ZenonT(60)
<1> HIDE DEF w, onWrite
<1>4. Len(w[b].stmts) = i - 1
  BY <1>2, <1>3
<1>5. Fronted(w, bd, x, Joined(onWrite, onRead))
  BY <1>2, <1>3, FrontedTwice
<1>6. stmts \in Seq(Statement) /\ AllInserted(stmts)
      /\ EffectsOf(stmts) = Joined(takeRead, takeWrite)
  <2>1. /\ reads \in Seq(Statement) /\ writes \in Seq(Statement)
        /\ AllInserted(reads) /\ AllInserted(writes)
    BY AddrOfType, AddrsAreInserted
  <2>2. EffectsOf(reads) = takeRead /\ EffectsOf(writes) = takeWrite
    BY MemEffectsTyped, Zenon
  <2> HIDE DEF reads, writes, takeRead, takeWrite
  <2>3. QED
    BY <2>1, <2>2, JoinedInserted, EffectsJoined
<1> HIDE DEF stmts, takeRead, takeWrite
<1>7. new \in Body /\ Fronted(new, w, <<b, Len(w[b].stmts) + 1>>, EffectsOf(stmts))
  BY <1>3, <1>6, PadFronted, Zenon
<1> HIDE DEF new
<1>8. <<b, Len(w[b].stmts) + 1>> = x
  <2>1. Len(bd[b].stmts) \in Nat
    BY TermFacts, ItemFacts
  <2> HIDE DEF b
  <2>2. i - 1 + 1 = i
    BY <2>1 DEF b
  <2>3. QED
    BY <1>4, <2>2
<1>9. Fronted(new, w, x, Joined(takeRead, takeWrite))
  BY <1>6, <1>7, <1>8, Zenon
<1> HIDE DEF x
<1>10. Fronted(new, bd, x, Joined(Joined(takeRead, takeWrite), Joined(onWrite, onRead)))
  BY <1>3, <1>5, <1>7, <1>9, FrontedTwice
<1>11. QED
  BY <1>1, <1>7, <1>10 DEF AccessLead, onRead, onWrite, takeRead, takeWrite, x

(* An iteration of the memory pass adds its hooks to the access it is for.  *)
LEMMA AccessHooked ==
    ASSUME NEW src \in Body, Tagged(src), NEW bd, NEW front, NEW rear, NEW start,
           Carries(bd, src, front, rear, start), NEW d, d.block \in 1..Len(bd),
           d.index \in 1..Len(bd[d.block].stmts) + 1,
           d.read \in Seq(Names), d.write \in Seq(Names), Len(d.read) <= 1, Len(d.write) <= 1,
           d.read # <<>> \/ d.write # <<>>, ItemAt(bd, <<d.block, d.index>>).at # Nowhere
    PROVE  LET m == ItemAt(bd, <<d.block, d.index>>).at IN
           /\ m \in Locations(src)
           /\ Hooked(AccessThroughHooks(bd, d), src,
                     [front EXCEPT ![m] = Joined(@, AccessLead(d.read, d.write))], rear, start)
<1> DEFINE x == <<d.block, d.index>>
           new == AccessThroughHooks(bd, d)
           w == AccessLead(d.read, d.write)
<1>1. /\ bd \in Body /\ Targeted(bd) /\ Projected(bd, src)
      /\ Hooked(bd, src, front, rear, start) /\ start \in Seq(EffectType)
      /\ front \in [Locations(src) -> Seq(EffectType)]
      /\ rear \in [Locations(src) -> Seq(EffectType)]
  BY DEF Carries, HooksType
<1>2. new \in Body /\ Fronted(new, bd, x, w)
  BY <1>1, AccessFronted
<1>3. Own(bd, x)
  BY DEF Own
<1> HIDE DEF new, w, x
<1>4. ItemAt(bd, x).at \in Locations(src)
      /\ Hooked(new, src, [front EXCEPT ![ItemAt(bd, x).at] = Joined(@, w)], rear, start)
  BY <1>1, <1>2, <1>3, FrontHooked, Zenon
<1>5. QED
  BY <1>4 DEF new, w, x

-----------------------------------------------------------------------------
(* The hooks at the entry and the returns.                                  *)

(* What the hook at the start or the end of the entry function does.        *)
EntryHook(which) == <<Effect(<<which, "">>, <<>>, Continue)>>

(* The first and the last place of a block with n statements.               *)
LEMMA Ends ==
    ASSUME NEW n \in Nat
    PROVE  1 \in 1..n + 1 /\ n + 1 \in 1..n + 1
OBVIOUS

(* A location is not Nowhere.                                               *)
LEMMA NotNowhere ==
    ASSUME NEW bd \in Body, NEW l \in Locations(bd)
    PROVE  l # Nowhere
BY PlaceOf DEF Nowhere

(* Items of the program are not doubled.                                    *)
LEMMA OneHome ==
    ASSUME NEW bd \in Body, NEW src \in Body, Tagged(src), Projected(bd, src),
           NEW k \in Locations(bd), NEW l \in Locations(bd), Own(bd, k), Own(bd, l),
           ItemAt(bd, k).at = ItemAt(bd, l).at
    PROVE  k = l
<1>1. PICK h, s : Projects(bd, src, h, s)
  BY DEF Projected
<1>2. ItemAt(bd, k).at = h[k] /\ ItemAt(bd, l).at = h[l]
  BY <1>1, OwnIsCopied
<1>3. QED
  BY <1>1, <1>2, Zenon DEF Projects

(* The same of two terminators.                                             *)
LEMMA OneTermHome ==
    ASSUME NEW bd \in Body, NEW src \in Body, Tagged(src), Projected(bd, src),
           NEW b \in 1..Len(bd), NEW c \in 1..Len(bd), bd[b].term.at # Nowhere,
           bd[b].term.at = bd[c].term.at
    PROVE  b = c
<1> DEFINE k == <<b, Len(bd[b].stmts) + 1>>
           l == <<c, Len(bd[c].stmts) + 1>>
<1>1. /\ k \in Locations(bd) /\ ItemAt(bd, k) = bd[b].term
      /\ l \in Locations(bd) /\ ItemAt(bd, l) = bd[c].term
  BY TermPlace
<1>2. k[1] = b /\ l[1] = c
  OBVIOUS
<1> HIDE DEF k, l
<1>3. k = l
  BY <1>1, OneHome DEF Own
<1>4. QED
  BY <1>2, <1>3

(* Every item of the program is somewhere.                                  *)
LEMMA AllAtHome ==
    ASSUME NEW bd \in Body, NEW src \in Body, Tagged(src), Projected(bd, src),
           NEW m \in Locations(src)
    PROVE  \E l \in Locations(bd) : Own(bd, l) /\ ItemAt(bd, l).at = m
<1>1. PICK h, s : Projects(bd, src, h, s)
  BY DEF Projected
<1>2. PICK l \in Locations(bd) : h[l] = m /\ Copied(bd, l, src, m, h)
  BY <1>1 DEF Projects
<1>3. QED
  BY <1>1, <1>2, OwnIsCopied

(* No effects for any item.                                                 *)
Nothing(src) == [m \in Locations(src) |-> <<>>]

(* They are lists of effects.                                               *)
LEMMA NothingTyped ==
    ASSUME NEW src
    PROVE  HooksType(src, Nothing(src), Nothing(src), <<>>)
BY NoEffects DEF HooksType, Nothing

(* The body rustc handed over runs no hook.                                 *)
LEMMA PlainHooked ==
    ASSUME NEW src \in Body, Tagged(src), WellFormed(src)
    PROVE  Carries(src, src, Nothing(src), Nothing(src), <<>>)
<1>1. Targeted(src)
  BY DEF WellFormed, Targeted
<1>2. Projected(src, src)
  BY <1>1, ProjectedToItself
<1>3. PICK h, s : Projects(src, src, h, s) /\ \E K \in Nat : \A k \in Locations(src) : s[k] < K
  BY <1>2 DEF Projected
<1>4. ASSUME NEW l \in Locations(src) PROVE Own(src, l) /\ Effects(src, l) = <<>>
  <2>1. ItemAt(src, l).at = l
    BY DEF Tagged
  <2>2. l # Nowhere
    BY PlaceOf DEF Nowhere
  <2>3. Own(src, l)
    BY <2>1, <2>2 DEF Own
  <2>4. Reach(src)[l] = ReachStep(src, Reach(src), l)
    BY <1>3, ReachEquations
  <2>5. QED
    BY <2>3, <2>4, ReachOfOwn
<1>5. Joined(<<>>, <<>>) = <<>>
  BY NoEffects, JoinedFacts, Zenon
<1>6. ASSUME NEW l \in Locations(src), NEW x \in Successors(src, l)
      PROVE  /\ Effects(src, x) = <<>>
             /\ Nothing(src)[ItemAt(src, l).at] = <<>> /\ Nothing(src)[Reach(src)[x].to] = <<>>
  <2>1. Own(src, l)
    BY <1>4
  <2>2. x \in Locations(src) /\ Reach(src)[x].to \in Locations(src)
    BY <1>2, <2>1, NextItem
  <2>3. ItemAt(src, l).at = l
    BY DEF Tagged
  <2>4. QED
    BY <1>4, <2>2, <2>3 DEF Nothing
<1>7. ASSUME NEW t \in Blocks(src)
      PROVE  Effects(src, <<t, 1>>) = <<>> /\ Nothing(src)[<<t, 1>>] = <<>>
  <2>1. <<t, 1>> \in Locations(src)
    BY FirstItem
  <2>2. QED
    BY <1>4, <2>1 DEF Nothing
<1>8. Hooked(src, src, Nothing(src), Nothing(src), <<>>)
  BY <1>5, <1>6, <1>7 DEF Hooked
<1>9. QED
  BY <1>1, <1>2, <1>8, NothingTyped DEF Carries

(* A hook in front of the first item runs at the start and never again.     *)
LEMMA EnterHooked ==
    ASSUME NEW src \in Body, Tagged(src), WellFormed(src), NEW w \in Seq(EffectType),
           w = EntryHook("entry_before")
    PROVE  Carries(EnterThroughHook(src), src, Nothing(src), Nothing(src), w)
<1> DEFINE new == EnterThroughHook(src)
           none == Nothing(src)
           x == <<1, 1>>
           f == [none EXCEPT ![x] = Joined(@, w)]
<1>1. Carries(src, src, none, none, <<>>) /\ Targeted(src) /\ Projected(src, src) /\ src # <<>>
  BY PlainHooked DEF Carries, WellFormed
<1>2. /\ new \in Body /\ Projected(new, src) /\ Targeted(new) /\ Cut(src, new, 1, 1)
  BY <1>1, EnterProjects
<1>3. HookEffect(new[1].term) = Effect(<<"entry_before", "">>, <<>>, Continue)
  BY <1>1, EnterMoves, Zenon
<1> HIDE DEF new
<1>4. 1 \in 1..Len(src) /\ 1 \in 1..Len(src[1].stmts) + 1 /\ x \in Locations(src)
  <2>1. src # <<>>
    BY <1>1
  <2>2. Len(src) \in Nat /\ 1 \in 1..Len(src)
    BY <2>1, FirstBlock
  <2>3. 1 \in Blocks(src)
    BY <2>2, BlocksOf
  <2>4. Len(src[1].stmts) \in Nat
    BY <2>2, TermFacts, ItemFacts
  <2>5. 1 \in 1..Len(src[1].stmts) + 1
    BY <2>4, Ends
  <2>6. x \in Locations(src)
    BY <2>3, FirstItem
  <2>7. QED
    BY <2>2, <2>5, <2>6
<1>5. w = <<HookEffect(new[1].term)>>
  BY <1>3, Zenon DEF EntryHook
<1>6. Fronted(new, src, x, w)
  BY <1>1, <1>2, <1>4, <1>5, CutFronted
<1>7. Own(src, x) /\ ItemAt(src, x).at = x
  <2>1. ItemAt(src, x).at = x
    BY <1>4 DEF Tagged
  <2>3. x # Nowhere
    BY <1>4, NotNowhere
  <2> HIDE DEF x
  <2>4. QED
    BY <2>1, <2>3 DEF Own
<1> HIDE DEF x, none
<1>8. Hooked(new, src, f, none, <<>>)
  BY <1>1, <1>2, <1>6, <1>7, FrontHooked, Zenon DEF Carries, HooksType
<1>9. /\ none \in [Locations(src) -> Seq(EffectType)]
      /\ \A m \in Locations(src) : none[m] = <<>>
      /\ Joined(<<>>, w) = w /\ Joined(w, <<>>) = w /\ Joined(<<>>, <<>>) = <<>>
  BY NothingTyped, NoEffects, JoinedFacts, Zenon DEF Nothing, HooksType, none
<1>10. /\ f[x] = w /\ \A m \in Locations(src) : m # x => f[m] = none[m]
  BY <1>4, <1>9
<1> HIDE DEF f
<1>11. ASSUME NEW l \in Locations(new), Own(new, l), NEW y \in Successors(new, l)
       PROVE  Effects(new, y) = Joined(none[ItemAt(new, l).at], none[Reach(new)[y].to])
  <2>1. Reach(new)[y].to \in Locations(src) /\ Reach(new)[y].to # x
    BY <1>2, <1>11, NextItem DEF x
  <2>2. f[Reach(new)[y].to] = none[Reach(new)[y].to]
    BY <1>10, <2>1
  <2>3. QED
    BY <1>8, <1>11, <2>2 DEF Hooked
<1>12. ASSUME NEW t \in Blocks(src)
       PROVE  Effects(new, <<t, 1>>) = Joined(IF t = 1 THEN w ELSE <<>>, none[<<t, 1>>])
  <2>1. Effects(new, <<t, 1>>) = Joined(<<>>, f[<<t, 1>>])
    BY <1>8 DEF Hooked
  <2>2. <<t, 1>> \in Locations(src)
    BY FirstItem
  <2>3. CASE t = 1
    BY <1>9, <1>10, <2>1, <2>2, <2>3 DEF x
  <2>4. CASE t # 1
    <3>1. <<t, 1>> # x
      BY <2>4 DEF x
    <3>2. QED
      BY <1>9, <1>10, <2>1, <2>2, <2>4, <3>1
  <2>5. QED
    BY <2>3, <2>4
<1>13. Hooked(new, src, none, none, w)
  BY <1>11, <1>12 DEF Hooked
<1>14. QED
  BY <1>2, <1>9, <1>13, NothingTyped DEF Carries, HooksType, new, none

(* An iteration of the return pass adds its hook to the return it is for.   *)
LEMMA ReturnHooked ==
    ASSUME NEW src \in Body, Tagged(src), NEW bd, NEW front, NEW rear, NEW start,
           Carries(bd, src, front, rear, start), NEW b \in 1..Len(bd),
           bd[b].term.at # Nowhere, NEW w \in Seq(EffectType),
           w = EntryHook("entry_after")
    PROVE  LET new == ReturnThroughHook(bd, b)
               m == bd[b].term.at
           IN  /\ m \in Locations(src)
               /\ Carries(new, src, [front EXCEPT ![m] = Joined(@, w)], rear, start)
               /\ Len(new) = Len(bd) + 1
               /\ \A c \in 1..Len(bd) : c # b => new[c] = bd[c]
<1> DEFINE new == ReturnThroughHook(bd, b)
           m == bd[b].term.at
           L == Len(bd[b].stmts)
           x == <<b, L + 1>>
<1>1. /\ bd \in Body /\ Targeted(bd) /\ Projected(bd, src)
      /\ HooksType(src, front, rear, start) /\ Hooked(bd, src, front, rear, start)
  BY DEF Carries
<1>2. /\ Moved(bd, new, b) /\ new[b].stmts = bd[b].stmts /\ new[Len(bd) + 1].stmts = <<>>
      /\ HookEffect(new[b].term) = Effect(<<"entry_after", "">>, <<>>, Continue)
  BY <1>1, ReturnMoves, Zenon
<1> HIDE DEF new
<1>3. /\ new \in Body /\ Projected(new, bd) /\ Targeted(new) /\ Cut(bd, new, b, L + 1)
  BY <1>1, <1>2, HookedProjects, Zenon
<1>4. x \in Locations(bd) /\ Own(bd, x) /\ ItemAt(bd, x).at = m
  BY <1>1, TermPlace DEF Own
<1>5. L + 1 \in 1..L + 1
  <2>1. L \in Nat
    BY <1>1, TermFacts, ItemFacts
  <2>2. QED
    BY <2>1, Ends
<1>6. w = <<HookEffect(new[b].term)>>
  BY <1>2, Zenon DEF EntryHook
<1>7. Fronted(new, bd, x, w)
  BY <1>1, <1>3, <1>5, <1>6, CutFronted, Zenon
<1> HIDE DEF x, m
<1>8. m \in Locations(src) /\ Hooked(new, src, [front EXCEPT ![m] = Joined(@, w)], rear, start)
  BY <1>1, <1>3, <1>4, <1>7, FrontHooked, Zenon DEF HooksType
<1>9. HooksType(src, [front EXCEPT ![m] = Joined(@, w)], rear, start)
  BY <1>1, <1>8, FrontTyped, Zenon
<1>10. Projected(new, src)
  BY <1>1, <1>3, ProjectedTwice
<1>11. Len(new) = Len(bd) + 1 /\ \A c \in 1..Len(bd) : c # b => new[c] = bd[c]
  BY <1>2, Zenon DEF Moved, GrownAt
<1>12. QED
  BY <1>3, <1>8, <1>9, <1>10, <1>11 DEF Carries, new, m

(* What the returns among the first n blocks give to the items.             *)
Returned(bd, src, n, w) ==
    [m \in Locations(src) |->
        IF \E c \in 1..n : bd[c].term.kind = "return" /\ bd[c].term.at = m THEN w ELSE <<>>]

(* Before the first return nothing is added.                                *)
LEMMA ReturnedNone ==
    ASSUME NEW bd, NEW src, NEW w
    PROVE  Returned(bd, src, 0, w) = Nothing(src)
<1>1. 1..0 = {}
  OBVIOUS
<1>2. QED
  BY <1>1 DEF Returned, Nothing

(* One more return.                                                         *)
LEMMA ReturnedMore ==
    ASSUME NEW bd \in Body, NEW src \in Body, Tagged(src), Projected(bd, src),
           NEW n \in 1..Len(bd), Len(bd) \in Nat, NEW w \in Seq(EffectType),
           bd[n].term.kind = "return" => /\ bd[n].term.at # Nowhere
                                         /\ bd[n].term.at \in Locations(src)
    PROVE  LET m == bd[n].term.at IN
           Returned(bd, src, n, w) = IF bd[n].term.kind = "return"
                                       THEN [Returned(bd, src, n - 1, w) EXCEPT ![m] = Joined(@, w)]
                                       ELSE Returned(bd, src, n - 1, w)
<1> DEFINE m == bd[n].term.at
           At(c, l) == bd[c].term.kind = "return" /\ bd[c].term.at = l
           old == Returned(bd, src, n - 1, w)
           new == Returned(bd, src, n, w)
<1>1. \A c : c \in 1..n <=> c \in 1..n - 1 \/ c = n
  OBVIOUS
<1>2. \A c \in 1..n - 1 : c \in 1..Len(bd) /\ c # n
  OBVIOUS
<1>3. \A l : (\E c \in 1..n : At(c, l)) <=> (\E c \in 1..n - 1 : At(c, l)) \/ At(n, l)
  <2> HIDE DEF At
  <2>1. QED
    BY <1>1
<1>4. Joined(<<>>, w) = w
  BY JoinedFacts, Zenon
<1>5. CASE bd[n].term.kind = "return"
  <2>1. ~\E c \in 1..n - 1 : At(c, m)
    BY <1>2, <1>5, OneTermHome
  <2>2. \A l : At(n, l) <=> l = m
    BY <1>5
  <2> HIDE DEF At, m
  <2>3. old = [l \in Locations(src) |-> IF \E c \in 1..n - 1 : At(c, l) THEN w ELSE <<>>]
    BY DEF Returned, At
  <2>4. new = [l \in Locations(src) |-> IF \E c \in 1..n : At(c, l) THEN w ELSE <<>>]
    BY DEF Returned, At
  <2> HIDE DEF old, new
  <2>5. m \in Locations(src)
    BY <1>5 DEF m
  <2>6. old[m] = <<>>
    BY <2>1, <2>3, <2>5
  <2>7. new = [old EXCEPT ![m] = w]
    BY <1>3, <2>1, <2>2, <2>3, <2>4, <2>5, Zenon
  <2>8. new = [old EXCEPT ![m] = Joined(@, w)]
    BY <1>4, <2>6, <2>7, Zenon
  <2>9. QED
    BY <1>5, <2>8 DEF new, old, m
<1>6. CASE bd[n].term.kind # "return"
  <2>1. \A l : ~At(n, l)
    BY <1>6
  <2> HIDE DEF At
  <2>2. \A l : (\E c \in 1..n : At(c, l)) <=> (\E c \in 1..n - 1 : At(c, l))
    BY <1>3, <2>1
  <2>3. new = old
    BY <2>2, Zenon DEF Returned, At
  <2>4. QED
    BY <1>6, <2>3
<1>7. QED
  BY <1>5, <1>6

(* Arithmetic of the loop over the blocks.                                  *)
LEMMA Ranges ==
    ASSUME NEW L \in Nat, NEW N \in Nat, N >= L, NEW n \in 1..L
    PROVE  /\ n \in 1..N /\ n \in 0..L /\ n \in (n - 1) + 1..L
           /\ \A c \in n + 1..L : c \in 1..N /\ c # n /\ c \in (n - 1) + 1..L
           /\ N + 1 \in Nat /\ N + 1 >= L
OBVIOUS

(* A hook in front of every return.                                         *)
LEMMA ReturnsHooked ==
    ASSUME NEW src \in Body, Tagged(src), NEW bd, NEW start,
           Carries(bd, src, Nothing(src), Nothing(src), start),
           \A b \in 1..Len(bd) : bd[b].term.kind = "return" => bd[b].term.at # Nowhere,
           NEW w \in Seq(EffectType),
           w = EntryHook("entry_after")
    PROVE  Carries(ReturnsThroughHook(bd), src, Returned(bd, src, Len(bd), w), Nothing(src), start)
<1> DEFINE none == Nothing(src)
           F(n) == Returned(bd, src, n, w)
<1>1. bd \in Body /\ Projected(bd, src) /\ Len(bd) \in Nat
  BY BlocksOf DEF Carries
<1>2. PICK f : /\ f[0] = bd
               /\ \A n \in 1..Len(bd) :
                    f[n] = IF bd[n].term.kind = "return" THEN ReturnThroughHook(f[n - 1], n)
                           ELSE f[n - 1]
               /\ ReturnsThroughHook(bd) = f[Len(bd)]
  BY <1>1, ThroughEquations
<1> DEFINE Good == {n \in 0..Len(bd) : /\ Carries(f[n], src, F(n), none, start)
                                       /\ Len(f[n]) \in Nat /\ Len(f[n]) >= Len(bd)
                                       /\ \A c \in n + 1..Len(bd) : f[n][c] = bd[c]}
<1> HIDE DEF F, none
<1>3. 0 \in Good
  <2>1. F(0) = none
    BY ReturnedNone DEF F, none
  <2>2. 0 \in 0..Len(bd) /\ Len(bd) >= Len(bd)
    BY <1>1
  <2>3. QED
    BY <1>1, <1>2, <2>1, <2>2 DEF none
<1>4. ASSUME NEW n \in 1..Len(bd), n - 1 \in Good PROVE n \in Good
  <2> DEFINE old == f[n - 1]
             new == ReturnThroughHook(old, n)
             G == F(n - 1)
             m == bd[n].term.at
  <2>1. /\ Carries(old, src, G, none, start) /\ Len(old) \in Nat /\ Len(old) >= Len(bd)
        /\ \A c \in (n - 1) + 1..Len(bd) : old[c] = bd[c]
    BY <1>4
  <2> HIDE DEF old, G
  <2>2. /\ n \in 1..Len(old) /\ n \in 0..Len(bd) /\ n \in (n - 1) + 1..Len(bd)
        /\ \A c \in n + 1..Len(bd) : c \in 1..Len(old) /\ c # n /\ c \in (n - 1) + 1..Len(bd)
        /\ Len(old) + 1 \in Nat /\ Len(old) + 1 >= Len(bd)
    BY <1>1, <2>1, Ranges
  <2>3. /\ old[n] = bd[n]
        /\ \A c \in n + 1..Len(bd) : c \in 1..Len(old) /\ c # n /\ old[c] = bd[c]
    BY <2>1, <2>2
  <2>4. CASE bd[n].term.kind = "return"
    <3>1. m # Nowhere /\ m = old[n].term.at
      BY <2>3, <2>4
    <3> HIDE DEF m
    <3>2. /\ m \in Locations(src)
          /\ Carries(new, src, [G EXCEPT ![m] = Joined(@, w)], none, start)
          /\ Len(new) = Len(old) + 1
          /\ \A c \in 1..Len(old) : c # n => new[c] = old[c]
      <4> DEFINE o == old[n].term.at
      <4>1. o # Nowhere /\ o = m
        BY <3>1
      <4>2. n \in 1..Len(old)
        BY <2>2
      <4>3. Carries(old, src, G, none, start)
        BY <2>1
      <4>4. /\ o \in Locations(src)
            /\ Carries(new, src, [G EXCEPT ![o] = Joined(@, w)], none, start)
            /\ Len(new) = Len(old) + 1
            /\ \A c \in 1..Len(old) : c # n => new[c] = old[c]
        BY <4>1, <4>2, <4>3, ReturnHooked
      <4> HIDE DEF o, new
      <4>5. QED
        BY <4>1, <4>4
    <3> HIDE DEF new
    <3>3. F(n) = [G EXCEPT ![m] = Joined(@, w)]
      BY <1>1, <2>4, <3>1, <3>2, ReturnedMore DEF F, G, m
    <3>4. f[n] = new
      BY <1>2, <2>4 DEF new, old
    <3>5. \A c \in n + 1..Len(bd) : new[c] = bd[c]
      BY <2>3, <3>2
    <3>6. Len(new) \in Nat /\ Len(new) >= Len(bd)
      BY <2>2, <3>2
    <3>7. QED
      BY <2>2, <3>2, <3>3, <3>4, <3>5, <3>6, Zenon
  <2>5. CASE bd[n].term.kind # "return"
    <3>1. F(n) = G
      BY <1>1, <2>5, ReturnedMore DEF F, G
    <3>2. f[n] = old
      BY <1>2, <2>5 DEF old
    <3>3. QED
      BY <2>1, <2>2, <2>3, <3>1, <3>2
  <2>6. QED
    BY <2>4, <2>5
<1> HIDE DEF Good
<1>5. Len(bd) \in Good
  <2>1. 0..Len(bd) \subseteq Good
    BY <1>1, <1>3, <1>4, SetInduction, Zenon
  <2>2. QED
    BY <1>1, <2>1
<1>6. QED
  BY <1>2, <1>5 DEF Good, F, none

-----------------------------------------------------------------------------
(* What a body runs, pass by pass: each pass gives effects to the items it  *)
(* is done with.                                                            *)

(* What a pass gives to the items it is done with, and how the passes add   *)
(* up.                                                                      *)
Given(locs, done, effects) == [m \in locs |-> IF m \in done THEN effects[m] ELSE <<>>]
Layered(locs, a, b, c, d) == [m \in locs |-> Joined(Joined(Joined(a[m], b[m]), c[m]), d[m])]
Backed(locs, a, b) == [m \in locs |-> Joined(a[m], b[m])]
EffectsOn(locs) == [locs -> Seq(EffectType)]
Put(f, m, w) == [f EXCEPT ![m] = w]
Later(f, m, w) == [f EXCEPT ![m] = Joined(@, w)]
Sooner(f, m, w) == [f EXCEPT ![m] = Joined(w, @)]

(* It is a list of effects for each item.                                   *)
LEMMA GivenTyped ==
    ASSUME NEW locs, NEW done, NEW effects, \A m \in done : effects[m] \in Seq(EffectType)
    PROVE  Given(locs, done, effects) \in EffectsOn(locs)
BY NoEffects DEF Given, EffectsOn

(* One more item done.                                                      *)
LEMMA GivenMore ==
    ASSUME NEW locs, NEW done, NEW effects, NEW m \in locs, NEW more,
           \A l : l \in more <=> l \in done \/ l = m
    PROVE  Given(locs, more, effects) = Put(Given(locs, done, effects), m, effects[m])
BY Zenon DEF Given, Put

(* The sums are lists of effects for each item.                             *)
LEMMA LayeredTyped ==
    ASSUME NEW locs, NEW a \in EffectsOn(locs), NEW b \in EffectsOn(locs),
           NEW c \in EffectsOn(locs), NEW d \in EffectsOn(locs)
    PROVE  Layered(locs, a, b, c, d) \in EffectsOn(locs) /\ Backed(locs, a, b) \in EffectsOn(locs)
<1>1. ASSUME NEW m \in locs
      PROVE  /\ Joined(Joined(Joined(a[m], b[m]), c[m]), d[m]) \in Seq(EffectType)
             /\ Joined(a[m], b[m]) \in Seq(EffectType)
  <2>1. /\ a[m] \in Seq(EffectType) /\ b[m] \in Seq(EffectType)
        /\ c[m] \in Seq(EffectType) /\ d[m] \in Seq(EffectType)
    BY DEF EffectsOn
  <2>2. Joined(a[m], b[m]) \in Seq(EffectType)
    BY <2>1, JoinedFacts
  <2>3. Joined(Joined(a[m], b[m]), c[m]) \in Seq(EffectType)
    BY <2>1, <2>2, JoinedFacts
  <2>4. QED
    BY <2>1, <2>2, <2>3, JoinedFacts
<1>2. QED
  BY <1>1 DEF Layered, Backed, EffectsOn

(* A function that differs from another at one place.                       *)
LEMMA Repatched ==
    ASSUME NEW locs, NEW f \in EffectsOn(locs), NEW g \in EffectsOn(locs), NEW m \in locs,
           NEW v, g[m] = v, \A l \in locs : l # m => g[l] = f[l]
    PROVE  g = [f EXCEPT ![m] = v]
BY DEF EffectsOn

(* An item the memory pass gets done with, when no other pass gave it       *)
(* anything.                                                                *)
LEMMA FirstLayer ==
    ASSUME NEW locs, NEW a \in EffectsOn(locs), NEW b \in EffectsOn(locs),
           NEW c \in EffectsOn(locs), NEW d \in EffectsOn(locs), NEW m \in locs,
           NEW w \in Seq(EffectType), a[m] = <<>>, b[m] = <<>>, c[m] = <<>>, d[m] = <<>>
    PROVE  Layered(locs, Put(a, m, w), b, c, d) = Later(Layered(locs, a, b, c, d), m, w)
<1> DEFINE e == [a EXCEPT ![m] = w]
<1>1. /\ Joined(<<>>, <<>>) = <<>> /\ Joined(<<>>, w) = w /\ Joined(w, <<>>) = w
  BY NoEffects, JoinedFacts, Zenon
<1>2. e[m] = w /\ \A l \in locs : l # m => e[l] = a[l]
  BY DEF EffectsOn
<1>3. e \in EffectsOn(locs)
  BY DEF EffectsOn
<1> HIDE DEF e
<1> DEFINE f == Layered(locs, a, b, c, d)
           g == Layered(locs, e, b, c, d)
<1>4. f \in EffectsOn(locs) /\ g \in EffectsOn(locs)
  BY <1>3, LayeredTyped, Zenon
<1>5. g[m] = Joined(f[m], w) /\ \A l \in locs : l # m => g[l] = f[l]
  BY <1>1, <1>2 DEF Layered
<1> HIDE DEF f, g
<1>6. g = [f EXCEPT ![m] = Joined(@, w)]
  BY <1>4, <1>5, Repatched
<1>7. QED
  BY <1>6 DEF f, g, e, Put, Later

(* The same of the call pass: its effects come behind those of the memory   *)
(* pass.                                                                    *)
LEMMA SecondLayer ==
    ASSUME NEW locs, NEW a \in EffectsOn(locs), NEW b \in EffectsOn(locs),
           NEW c \in EffectsOn(locs), NEW d \in EffectsOn(locs), NEW m \in locs,
           NEW w \in Seq(EffectType), b[m] = <<>>, c[m] = <<>>, d[m] = <<>>
    PROVE  Layered(locs, a, Put(b, m, w), c, d) = Later(Layered(locs, a, b, c, d), m, w)
<1> DEFINE e == [b EXCEPT ![m] = w]
<1>1. a[m] \in Seq(EffectType) /\ Joined(a[m], w) \in Seq(EffectType)
  BY JoinedFacts DEF EffectsOn
<1>2. /\ Joined(a[m], <<>>) = a[m]
      /\ Joined(Joined(a[m], w), <<>>) = Joined(a[m], w)
  BY <1>1, JoinedFacts, Zenon
<1>3. e[m] = w /\ \A l \in locs : l # m => e[l] = b[l]
  BY DEF EffectsOn
<1>4. e \in EffectsOn(locs)
  BY DEF EffectsOn
<1> HIDE DEF e
<1> DEFINE f == Layered(locs, a, b, c, d)
           g == Layered(locs, a, e, c, d)
<1>5. f \in EffectsOn(locs) /\ g \in EffectsOn(locs)
  BY <1>4, LayeredTyped, Zenon
<1>6. g[m] = Joined(f[m], w) /\ \A l \in locs : l # m => g[l] = f[l]
  <2>1. f[m] = a[m]
    <3>1. f[m] = Joined(Joined(Joined(a[m], <<>>), <<>>), <<>>)
      BY DEF Layered
    <3>2. QED
      BY <1>2, <3>1
  <2>2. g[m] = Joined(Joined(Joined(a[m], w), <<>>), <<>>)
    BY <1>3 DEF Layered
  <2>3. \A l \in locs : l # m => g[l] = f[l]
    BY <1>3 DEF Layered
  <2>4. QED
    BY <1>2, <2>1, <2>2, <2>3
<1> HIDE DEF f, g
<1>7. g = [f EXCEPT ![m] = Joined(@, w)]
  BY <1>5, <1>6, Repatched
<1>8. QED
  BY <1>7 DEF f, g, e, Put, Later

(* The same of the drop pass: behind those of the call pass.                *)
LEMMA ThirdLayer ==
    ASSUME NEW locs, NEW a \in EffectsOn(locs), NEW b \in EffectsOn(locs),
           NEW c \in EffectsOn(locs), NEW d \in EffectsOn(locs), NEW m \in locs,
           NEW w \in Seq(EffectType), c[m] = <<>>, d[m] = <<>>
    PROVE  Layered(locs, a, b, Put(c, m, w), d) = Later(Layered(locs, a, b, c, d), m, w)
<1> DEFINE e == [c EXCEPT ![m] = w]
           x == Joined(a[m], b[m])
<1>1. x \in Seq(EffectType)
  BY JoinedFacts DEF EffectsOn
<1> HIDE DEF x
<1>2. Joined(x, w) \in Seq(EffectType)
  BY <1>1, JoinedFacts
<1>3. Joined(x, <<>>) = x /\ Joined(Joined(x, w), <<>>) = Joined(x, w)
  BY <1>1, <1>2, JoinedFacts
<1>4. e[m] = w /\ \A l \in locs : l # m => e[l] = c[l]
  BY DEF EffectsOn
<1>5. e \in EffectsOn(locs)
  BY DEF EffectsOn
<1> HIDE DEF e
<1> DEFINE f == Layered(locs, a, b, c, d)
           g == Layered(locs, a, b, e, d)
<1>6. f \in EffectsOn(locs) /\ g \in EffectsOn(locs)
  BY <1>5, LayeredTyped, Zenon
<1>7. g[m] = Joined(f[m], w) /\ \A l \in locs : l # m => g[l] = f[l]
  <2>1. f[m] = Joined(Joined(x, <<>>), <<>>)
    BY DEF Layered, x
  <2>2. g[m] = Joined(Joined(x, w), <<>>)
    BY <1>4 DEF Layered, x
  <2>3. \A l \in locs : l # m => g[l] = f[l]
    BY <1>4 DEF Layered
  <2>4. QED
    BY <1>3, <2>1, <2>2, <2>3
<1> HIDE DEF f, g
<1>8. g = [f EXCEPT ![m] = Joined(@, w)]
  BY <1>6, <1>7, Repatched
<1>9. QED
  BY <1>8 DEF f, g, e, Put, Later

(* Behind an item the effects added later come first.                       *)
LEMMA BackLayers ==
    ASSUME NEW locs, NEW a \in EffectsOn(locs), NEW b \in EffectsOn(locs), NEW m \in locs,
           NEW w \in Seq(EffectType), a[m] = <<>>, b[m] = <<>>
    PROVE  /\ Backed(locs, Put(a, m, w), b) = Sooner(Backed(locs, a, b), m, w)
           /\ Backed(locs, a, Put(b, m, w)) = Sooner(Backed(locs, a, b), m, w)
<1> DEFINE e == [a EXCEPT ![m] = w]
           f == [b EXCEPT ![m] = w]
<1>1. /\ Joined(<<>>, <<>>) = <<>> /\ Joined(<<>>, w) = w /\ Joined(w, <<>>) = w
  BY NoEffects, JoinedFacts, Zenon
<1>2. e[m] = w /\ f[m] = w /\ \A l \in locs : l # m => e[l] = a[l] /\ f[l] = b[l]
  BY DEF EffectsOn
<1>3. e \in EffectsOn(locs) /\ f \in EffectsOn(locs)
  BY DEF EffectsOn
<1> HIDE DEF e, f
<1> DEFINE x == Backed(locs, a, b)
           y == Backed(locs, e, b)
           z == Backed(locs, a, f)
<1>4. x \in EffectsOn(locs) /\ y \in EffectsOn(locs) /\ z \in EffectsOn(locs)
  BY <1>3, LayeredTyped, Zenon
<1>5. y[m] = Joined(w, x[m]) /\ \A l \in locs : l # m => y[l] = x[l]
  BY <1>1, <1>2 DEF Backed
<1>6. z[m] = Joined(w, x[m]) /\ \A l \in locs : l # m => z[l] = x[l]
  BY <1>1, <1>2 DEF Backed
<1> HIDE DEF x, y, z
<1>7. y = [x EXCEPT ![m] = Joined(w, @)] /\ z = [x EXCEPT ![m] = Joined(w, @)]
  BY <1>4, <1>5, <1>6, Repatched
<1>8. QED
  BY <1>7 DEF x, y, z, e, f, Put, Sooner

-----------------------------------------------------------------------------
(* What CollectMem collects: a position for every item that dereferences    *)
(* something, and for no other.                                             *)

(* The item at a location goes through some pointer.                        *)
Dereferences(bd, l) == Reads(ItemAt(bd, l)) # <<>> \/ Writes(ItemAt(bd, l)) # <<>>

(* Reversing a list keeps its members.                                      *)
LEMMA AmongReversed ==
    ASSUME NEW R, NEW s \in Seq(R), NEW x
    PROVE  Among(x, Reverse(s)) <=> Among(x, s)
<1> DEFINE N == Len(s)
           t == Reverse(s)
<1>1. t = [k \in 1..N |-> s[N - k + 1]] /\ N \in Nat
  BY DEF Reverse
<1>2. t \in [1..N -> R]
  BY <1>1
<1> HIDE DEF t, N
<1>3. Len(t) = N
  BY <1>1, <1>2, TabledSequence
<1>4. \A k \in 1..N : N - k + 1 \in 1..N /\ N - (N - k + 1) + 1 = k
  BY <1>1
<1>5. ASSUME NEW k \in 1..N PROVE t[k] = s[N - k + 1] /\ t[N - k + 1] = s[k]
  BY <1>1, <1>4
<1>6. (\E k \in 1..N : t[k] = x) <=> (\E k \in 1..N : s[k] = x)
  BY <1>4, <1>5
<1>7. QED
  BY <1>3, <1>6 DEF Among, t, N

(* Derefs finds every dereference of a block, and no other item.            *)
LEMMA DerefsCollected ==
    ASSUME NEW bd \in Body, NEW b \in 1..Len(bd), NEW x
    PROVE  /\ Derefs(bd, b) \in Seq(DerefPosition) /\ DerefsInOrder(bd, b) \in Seq(DerefPosition)
           /\ Among(x, DerefsInOrder(bd, b)) <=>
                \E i \in 1..Len(bd[b].stmts) + 1 :
                    Dereferences(bd, <<b, i>>) /\ x = Deref(bd, <<b, i>>)
<1> DEFINE items == ItemsOf(bd[b])
           N == Len(bd[b].stmts) + 1
           used == {i \in DOMAIN items : Reads(items[i]) \o Writes(items[i]) # <<>>}
           seq == [i \in DOMAIN items |-> Deref(bd, <<b, i>>)]
           picked == Picked(seq, used)
<1>1. DOMAIN items = 1..N /\ N \in Nat
  BY TermFacts, ItemFacts
<1>2. Derefs(bd, b) = picked
  BY DEF Derefs
<1>3. ASSUME NEW i \in 1..N
      PROVE  /\ Deref(bd, <<b, i>>) \in DerefPosition
             /\ Dereferences(bd, <<b, i>>) <=> i \in used
  <2> DEFINE item == items[i]
  <2>1. ItemAt(bd, <<b, i>>) = item
    BY DEF ItemAt
  <2>2. Deref(bd, <<b, i>>) = [block |-> b, index |-> i, at |-> item.at,
                               read |-> Reads(item), write |-> Writes(item)]
    BY <2>1 DEF Deref
  <2>3. item.at \in Seq(Nat) /\ item.uses \in Operands
    BY ItemType
  <2>4. i \in used <=> Reads(item) \o Writes(item) # <<>>
    BY <1>1
  <2> HIDE DEF item
  <2>5. Reads(item) \in Seq(Names) /\ Writes(item) \in Seq(Names)
    BY <2>3, PointersType, Zenon DEF Reads, Writes
  <2>6. b \in Nat /\ i \in Nat
    BY <1>1, TermFacts
  <2>7. Reads(item) \o Writes(item) # <<>> <=> Reads(item) # <<>> \/ Writes(item) # <<>>
    BY <2>5, ConcatEqualIffEmpty
  <2>8. Deref(bd, <<b, i>>) \in DerefPosition
    BY <2>2, <2>3, <2>5, <2>6 DEF DerefPosition
  <2>9. QED
    BY <2>1, <2>4, <2>7, <2>8 DEF Dereferences
<1> HIDE DEF items, N
<1>4. seq \in Seq(DerefPosition) /\ Len(seq) = N
  <2>1. seq \in [1..N -> DerefPosition]
    BY <1>1, <1>3
  <2> HIDE DEF seq
  <2>2. QED
    BY <1>1, <2>1, TabledSequence
<1>5. \A i \in 1..N : seq[i] = Deref(bd, <<b, i>>)
  BY <1>1
<1> HIDE DEF seq, used
<1>6. picked \in Seq(DerefPosition)
  BY <1>4, PickedType
<1>7. ASSUME NEW i \in 1..N, i \in used, x = Deref(bd, <<b, i>>) PROVE Among(x, picked)
  <2>1. \E k \in 1..Len(picked) : picked[k] = seq[i]
    BY <1>4, <1>7, PickedComplete
  <2> HIDE DEF picked
  <2>2. QED
    BY <1>5, <1>7, <2>1 DEF Among
<1>8. ASSUME Among(x, picked) PROVE \E i \in 1..N : i \in used /\ x = Deref(bd, <<b, i>>)
  <2>1. PICK from : Sources(seq, used, picked, Len(seq), from)
    BY <1>4, PickedSources
  <2> HIDE DEF picked
  <2>2. PICK k \in 1..Len(picked) : picked[k] = x
    BY <1>8 DEF Among
  <2>3. from[k] \in 1..N /\ x = seq[from[k]] /\ from[k] \in used
    BY <1>4, <2>1, <2>2 DEF Sources
  <2>4. QED
    BY <1>5, <2>3
<1> HIDE DEF picked
<1>9. Among(x, Reverse(picked)) <=> Among(x, picked)
  BY <1>6, AmongReversed
<1>10. DerefsInOrder(bd, b) = Reverse(picked)
  BY <1>2 DEF DerefsInOrder
<1>11. DerefsInOrder(bd, b) \in Seq(DerefPosition)
  BY DerefsPlaced, Zenon DEF Placed
<1>12. QED
  BY <1>2, <1>3, <1>6, <1>7, <1>8, <1>9, <1>10, <1>11, Zenon DEF N

(* And of every block.                                                      *)
LEMMA AllCollected ==
    ASSUME NEW bd \in Body, NEW order \in SetToSeqs({b \in Blocks(bd) : Derefs(bd, b) # <<>>}),
           NEW x
    PROVE  LET s == FlattenSeq([k \in DOMAIN order |-> DerefsInOrder(bd, order[k])]) IN
           /\ s \in Seq(DerefPosition)
           /\ Among(x, s) <=> \E l \in Locations(bd) : Dereferences(bd, l) /\ x = Deref(bd, l)
<1> DEFINE T == {b \in Blocks(bd) : Derefs(bd, b) # <<>>}
           N == Cardinality(T)
           seqs == [k \in DOMAIN order |-> DerefsInOrder(bd, order[k])]
<1>1. T \subseteq 1..Len(bd) /\ Len(bd) \in Nat
  BY BlocksOf
<1>2. N \in Nat /\ IsFiniteSet(T)
  <2>1. IsFiniteSet(1..Len(bd))
    BY <1>1, FS_Interval
  <2>2. QED
    BY <1>1, <2>1, FS_Subset, FS_CardinalityType
<1>3. order \in [1..N -> T] /\ \A i, j \in 1..N : i # j => order[i] # order[j]
  BY DEF SetToSeqs
<1>4. \A b \in T : \E k \in 1..N : order[k] = b
  <2>1. IsFiniteSet(1..N) /\ Cardinality(1..N) = Cardinality(T)
    <3>1. Cardinality(T) = N
      OBVIOUS
    <3> HIDE DEF N, T
    <3>2. QED
      BY <1>2, <3>1, FS_Interval
  <2> HIDE DEF N, T
  <2>2. order \in Injection(1..N, T)
    BY <1>3 DEF Injection, IsInjective
  <2>3. order \in Surjection(1..N, T)
    BY <1>2, <2>1, <2>2, FS_Injection
  <2>4. QED
    BY <2>3 DEF Surjection
<1> HIDE DEF N
<1>5. DOMAIN order = 1..N /\ \A k \in 1..N : order[k] \in 1..Len(bd)
  BY <1>1, <1>3
<1>6. seqs \in Seq(Seq(DerefPosition)) /\ Len(seqs) = N
  <2>1. seqs \in [1..N -> Seq(DerefPosition)]
    BY <1>5, DerefsCollected
  <2> HIDE DEF seqs
  <2>2. QED
    BY <1>2, <2>1, TabledSequence
<1>7. \A k \in 1..N : seqs[k] = DerefsInOrder(bd, order[k])
  BY <1>5
<1> HIDE DEF seqs
<1>8. FlattenSeq(seqs) \in Seq(DerefPosition)
  BY <1>6, FlattenType
<1>9. Among(x, FlattenSeq(seqs)) <=> \E k \in 1..N : Among(x, seqs[k])
  BY <1>6, FlattenMembers, Zenon
<1> HIDE DEF T
<1>10. ASSUME NEW k \in 1..N, Among(x, seqs[k])
       PROVE  \E l \in Locations(bd) : Dereferences(bd, l) /\ x = Deref(bd, l)
  <2>1. Among(x, DerefsInOrder(bd, order[k])) /\ order[k] \in 1..Len(bd)
    BY <1>5, <1>7, <1>10
  <2>2. PICK b \in 1..Len(bd) : b = order[k]
    BY <2>1
  <2>3. PICK i \in 1..Len(bd[b].stmts) + 1 :
            Dereferences(bd, <<b, i>>) /\ x = Deref(bd, <<b, i>>)
    BY <2>1, <2>2, DerefsCollected, ZenonT(60)
  <2>4. <<b, i>> \in Locations(bd)
    BY PlacesAreLocations
  <2>5. QED
    BY <2>3, <2>4
<1>11. ASSUME NEW l \in Locations(bd), Dereferences(bd, l), x = Deref(bd, l)
       PROVE  \E k \in 1..N : Among(x, seqs[k])
  <2>1. PICK b \in 1..Len(bd) : \E i \in 1..Len(bd[b].stmts) + 1 : l = <<b, i>>
    BY LocationsArePlaces
  <2>2. PICK i \in 1..Len(bd[b].stmts) + 1 : l = <<b, i>>
    BY <2>1
  <2>3. Among(x, DerefsInOrder(bd, b))
    BY <1>11, <2>2, DerefsCollected, Zenon
  <2>4. Derefs(bd, b) # <<>>
    <3>1. Derefs(bd, b) \in Seq(DerefPosition) /\ DerefsInOrder(bd, b) = Reverse(Derefs(bd, b))
      BY DerefsCollected DEF DerefsInOrder
    <3>2. Among(x, Derefs(bd, b))
      BY <2>3, <3>1, AmongReversed
    <3>3. QED
      BY <3>2 DEF Among
  <2>5. b \in T
    BY <2>4, BlocksOf DEF T
  <2>6. PICK k \in 1..N : order[k] = b
    BY <1>4, <2>5
  <2>7. QED
    BY <1>7, <2>3, <2>6
<1>12. QED
  BY <1>8, <1>9, <1>10, <1>11 DEF seqs

(* Until the memory pass, what the instrumenter inserted dereferences       *)
(* nothing.                                                                 *)
OwnUses(bd) ==
    \A b \in 1..Len(bd) :
        /\ bd[b].term.at = Nowhere => bd[b].term.uses = <<>>
        /\ \A i \in 1..Len(bd[b].stmts) :
              bd[b].stmts[i].at = Nowhere => bd[b].stmts[i].uses = <<>>

(* A body has the dereferences of its own items.                            *)
LEMMA OwnUsesAt ==
    ASSUME NEW bd \in Body, OwnUses(bd), NEW l \in Locations(bd), ItemAt(bd, l).uses # <<>>
    PROVE  Own(bd, l)
<1>1. PICK b \in 1..Len(bd) : \E i \in 1..Len(bd[b].stmts) + 1 :
          l = <<b, i>> /\ ItemAt(bd, l) = ItemsOf(bd[b])[i]
  BY LocationsArePlaces
<1>2. PICK i \in 1..Len(bd[b].stmts) + 1 : l = <<b, i>> /\ ItemAt(bd, l) = ItemsOf(bd[b])[i]
  BY <1>1
<1>3. bd[b] \in BasicBlock /\ Len(bd[b].stmts) \in Nat
  BY TermFacts, ItemFacts
<1>4. CASE i = Len(bd[b].stmts) + 1
  <2>1. ItemAt(bd, l) = bd[b].term
    BY <1>2, <1>3, <1>4, ItemFacts
  <2>2. QED
    BY <2>1 DEF OwnUses, Own
<1>5. CASE i # Len(bd[b].stmts) + 1
  <2>1. i \in 1..Len(bd[b].stmts)
    BY <1>3, <1>5
  <2>2. ItemAt(bd, l) = bd[b].stmts[i]
    BY <1>2, <1>3, <2>1, ItemFacts
  <2>3. QED
    BY <2>1, <2>2 DEF OwnUses, Own
<1>6. QED
  BY <1>4, <1>5

(* The original body dereferences in its own items only.                    *)
LEMMA OriginalUses ==
    ASSUME NEW src \in Body, Tagged(src)
    PROVE  OwnUses(src)
<1>1. \A l \in Locations(src) : ItemAt(src, l).at # Nowhere
  BY NotNowhere DEF Tagged
<1>2. ASSUME NEW b \in 1..Len(src)
      PROVE  /\ src[b].term.at # Nowhere
             /\ \A i \in 1..Len(src[b].stmts) : src[b].stmts[i].at # Nowhere
  <2>1. src[b] \in BasicBlock /\ Len(src[b].stmts) \in Nat
    BY TermFacts, ItemFacts
  <2>2. src[b].term.at # Nowhere
    <3>1. Len(src[b].stmts) + 1 \in 1..Len(src[b].stmts) + 1
      BY <2>1, Ends
    <3>2. ItemsOf(src[b])[Len(src[b].stmts) + 1] = src[b].term
      BY <2>1, ItemFacts
    <3>3. QED
      BY <1>1, <3>1, <3>2, PlacesAreLocations, Zenon
  <2>3. ASSUME NEW i \in 1..Len(src[b].stmts) PROVE src[b].stmts[i].at # Nowhere
    <3>1. i \in 1..Len(src[b].stmts) + 1
      BY <2>1
    <3>2. ItemsOf(src[b])[i] = src[b].stmts[i]
      BY <2>1, ItemFacts
    <3>3. QED
      BY <1>1, <3>1, <3>2, PlacesAreLocations, Zenon
  <2>4. QED
    BY <2>2, <2>3
<1>3. QED
  BY <1>2 DEF OwnUses

(* An edit inserts no dereference.                                          *)
LEMMA MovedOwnUses ==
    ASSUME NEW bd \in Body, OwnUses(bd), NEW b \in 1..Len(bd), NEW new, Moved(bd, new, b),
           MovedUses(bd, new, b)
    PROVE  OwnUses(new)
<1> DEFINE N == Len(bd)
<1>1. /\ N \in Nat /\ Len(new) = N + 1 /\ \A c \in 1..N : c # b => new[c] = bd[c]
      /\ new[b].term.uses = <<>> /\ new[N + 1].term = bd[b].term
      /\ new[b].stmts \in {<<>>, bd[b].stmts} /\ new[N + 1].stmts \in {<<>>, bd[b].stmts}
  BY BlocksOf DEF Moved, GrownAt, IsHook, MovedUses
<1>2. 1..Len(<<>>) = {}
  OBVIOUS
<1>3. \A c : c \in 1..N + 1 <=> c \in 1..N \/ c = N + 1
  BY <1>1
<1>4. \A c \in 1..N : /\ bd[c].term.at = Nowhere => bd[c].term.uses = <<>>
                      /\ \A i \in 1..Len(bd[c].stmts) :
                           bd[c].stmts[i].at = Nowhere => bd[c].stmts[i].uses = <<>>
  BY DEF OwnUses
<1> DEFINE Fine(stmts) == \A i \in 1..Len(stmts) : stmts[i].at = Nowhere => stmts[i].uses = <<>>
<1>5. Fine(<<>>) /\ Fine(bd[b].stmts)
  BY <1>2, <1>4
<1> HIDE DEF N, Fine
<1>6. ASSUME NEW c \in 1..N + 1
      PROVE  (new[c].term.at = Nowhere => new[c].term.uses = <<>>) /\ Fine(new[c].stmts)
  <2>1. CASE c = N + 1
    <3>1. new[c].term = bd[b].term
      BY <1>1, <2>1
    <3>2. Fine(new[c].stmts)
      BY <1>1, <1>5, <2>1
    <3>3. QED
      BY <1>4, <3>1, <3>2 DEF N
  <2>2. CASE c = b
    BY <1>1, <1>5, <2>2
  <2>3. CASE c # b /\ c # N + 1
    <3>1. new[c] = bd[c] /\ c \in 1..N
      BY <1>1, <1>3, <2>3
    <3>2. QED
      BY <1>4, <3>1 DEF Fine
  <2>4. QED
    BY <2>1, <2>2, <2>3
<1>7. QED
  BY <1>1, <1>6 DEF OwnUses, Fine

(* The hooks before the returns dereference nothing.                        *)
LEMMA ReturnsOwnUses ==
    ASSUME NEW bd \in Body, OwnUses(bd)
    PROVE  OwnUses(ReturnsThroughHook(bd))
<1>1. Len(bd) \in Nat
  BY BlocksOf
<1>2. PICK f : /\ f[0] = bd
               /\ \A n \in 1..Len(bd) :
                    f[n] = IF bd[n].term.kind = "return" THEN ReturnThroughHook(f[n - 1], n)
                           ELSE f[n - 1]
               /\ ReturnsThroughHook(bd) = f[Len(bd)]
  BY ThroughEquations
<1> DEFINE Good == {n \in 0..Len(bd) : /\ f[n] \in Body /\ OwnUses(f[n])
                                       /\ Len(f[n]) \in Nat /\ Len(f[n]) >= Len(bd)}
<1>3. 0 \in Good
  BY <1>1, <1>2
<1>4. ASSUME NEW n \in 1..Len(bd), n - 1 \in Good PROVE n \in Good
  <2> DEFINE old == f[n - 1]
             new == ReturnThroughHook(old, n)
  <2>1. /\ old \in Body /\ OwnUses(old)
        /\ Len(old) \in Nat /\ Len(old) >= Len(bd)
    BY <1>4
  <2> HIDE DEF old
  <2>2. n \in 1..Len(old) /\ Len(old) + 1 \in Nat /\ Len(old) + 1 >= Len(bd) /\ n \in 0..Len(bd)
    BY <1>1, <2>1, Ranges
  <2>3. Moved(old, new, n) /\ new[n].stmts = old[n].stmts /\ new[Len(old) + 1].stmts = <<>>
    BY <2>1, <2>2, ReturnMoves, Zenon
  <2> HIDE DEF new
  <2>4. OwnUses(new)
    BY <2>1, <2>2, <2>3, MovedOwnUses DEF MovedUses
  <2>5. new \in Body /\ Len(new) = Len(old) + 1
    BY <2>3 DEF Moved, GrownAt
  <2>6. f[n] = new \/ f[n] = old
    BY <1>2 DEF new, old
  <2>7. QED
    BY <2>1, <2>2, <2>4, <2>5, <2>6
<1> HIDE DEF Good
<1>5. Len(bd) \in Good
  <2>1. 0..Len(bd) \subseteq Good
    BY <1>1, <1>3, <1>4, SetInduction, Zenon
  <2>2. QED
    BY <1>1, <2>1
<1>6. QED
  BY <1>2, <1>5 DEF Good

(* The hook at the start dereferences nothing.                              *)
LEMMA EnterOwnUses ==
    ASSUME NEW bd \in Body, bd # <<>>, OwnUses(bd)
    PROVE  OwnUses(EnterThroughHook(bd))
<1> DEFINE new == EnterThroughHook(bd)
<1>1. /\ Moved(bd, new, 1) /\ new[1].stmts = <<>> /\ new[Len(bd) + 1] = bd[1]
      /\ 1 \in 1..Len(bd)
  BY EnterMoves, FirstBlock, Zenon
<1> HIDE DEF new
<1>2. QED
  BY <1>1, MovedOwnUses DEF MovedUses, new

(* CollectCalls and CollectDrops miss no block they look for.               *)
LEMMA CollectedComplete ==
    ASSUME NEW bd \in Body, NEW hits, NEW names \in [1..Len(bd) -> Names],
           NEW b \in 1..Len(bd), b \in hits
    PROVE  LET s == Picked([c \in Blocks(bd) |-> CallPosition(bd, c, names[c])], hits) IN
           \E k \in 1..Len(s) : s[k].at = bd[b].term.at
<1> DEFINE seq == [c \in Blocks(bd) |-> CallPosition(bd, c, names[c])]
           s == Picked(seq, hits)
           N == Len(bd)
<1>1. Blocks(bd) = 1..N /\ N \in Nat
  BY BlocksOf
<1>2. ASSUME NEW c \in 1..N
      PROVE  /\ CallPosition(bd, c, names[c]) \in HookPosition
             /\ seq[c].at = bd[c].term.at
  <2>1. bd[c].term.at \in Seq(Nat) /\ c \in Nat /\ names[c] \in Names
    BY <1>1, TermFacts DEF Terminator
  <2>2. QED
    BY <1>1, <2>1 DEF CallPosition, HookPosition
<1> HIDE DEF N
<1>3. seq \in Seq(HookPosition) /\ Len(seq) = N
  <2>1. seq \in [1..N -> HookPosition]
    BY <1>1, <1>2
  <2> HIDE DEF seq
  <2>2. QED
    BY <1>1, <2>1, TabledSequence
<1>4. seq[b].at = bd[b].term.at
  BY <1>2, Zenon DEF N
<1> HIDE DEF seq
<1>5. \E k \in 1..Len(s) : s[k] = seq[b]
  BY <1>3, PickedComplete DEF N
<1>6. QED
  BY <1>4, <1>5 DEF seq

-----------------------------------------------------------------------------
(* The items each pass is for, and what it gives to them.                   *)

(* The items done so far, by pass: a pass is done with what todo lacks.     *)
MemItems ==
    {m \in Locations(orig) : Hooks({"mem_read", "mem_write"}) /\ Dereferences(orig, m)}
CallItems ==
    {m \in Locations(orig) : /\ IsTerm(orig, m) /\ Instrumentable(owner)
                             /\ CallsTarget(ItemAt(orig, m), ItemAt(orig, m).fn)}
DropItems ==
    {m \in Locations(orig) : /\ IsTerm(orig, m) /\ Instrumentable(owner)
                             /\ DropsGuard(ItemAt(orig, m))}
ReturnItems ==
    {m \in Locations(orig) : /\ IsTerm(orig, m) /\ ItemAt(orig, m).kind = "return"
                             /\ owner.entry /\ "entry_after" \in lib.one}

(* What each pass gives to an item it is for.                               *)
MemLayer ==
    [m \in Locations(orig) |-> AccessLead(Reads(ItemAt(orig, m)), Writes(ItemAt(orig, m)))]
CallLayer == [m \in Locations(orig) |-> CallLead(ItemAt(orig, m), ItemAt(orig, m).fn)]
CallTail  == [m \in Locations(orig) |-> CallTrail(ItemAt(orig, m), ItemAt(orig, m).fn)]
DropLayer == [m \in Locations(orig) |-> DropLead(ItemAt(orig, m), ItemAt(orig, m).of)]
DropTail  == [m \in Locations(orig) |-> DropTrail(ItemAt(orig, m), ItemAt(orig, m).of)]
ReturnLayer == [m \in Locations(orig) |-> EntryHook("entry_after")]

(* What runs before and after each item once the passes are done with the   *)
(* items M, C, D and R.                                                     *)
FrontOf(M, C, D, R) ==
    Layered(Locations(orig), Given(Locations(orig), M, MemLayer),
            Given(Locations(orig), C, CallLayer), Given(Locations(orig), D, DropLayer),
            Given(Locations(orig), R, ReturnLayer))
RearOf(C, D) ==
    Backed(Locations(orig), Given(Locations(orig), C, CallTail), Given(Locations(orig), D, DropTail))

(* What the memory pass puts in front of an item is a list of effects.      *)
LEMMA AccessTyped ==
    ASSUME NEW reads \in Seq(Names), NEW writes \in Seq(Names)
    PROVE  AccessLead(reads, writes) \in Seq(EffectType)
<1> DEFINE a == AddrEffects("mem_read", reads)
           b == AddrEffects("mem_write", writes)
           c == MemHookEffects("mem_write", writes)
           d == MemHookEffects("mem_read", reads)
<1>1. /\ a \in Seq(EffectType) /\ b \in Seq(EffectType)
      /\ c \in Seq(EffectType) /\ d \in Seq(EffectType)
  BY MemEffectsTyped
<1> HIDE DEF a, b, c, d
<1>2. Joined(a, b) \in Seq(EffectType) /\ Joined(c, d) \in Seq(EffectType)
  BY <1>1, JoinedFacts
<1>3. Joined(Joined(a, b), Joined(c, d)) \in Seq(EffectType)
  BY <1>2, JoinedFacts
<1>4. QED
  BY <1>3 DEF AccessLead, a, b, c, d

(* The uses of an item are operands, its pointers words.                    *)
LEMMA UsesTyped ==
    ASSUME NEW bd \in Body, NEW l \in Locations(bd)
    PROVE  /\ ItemAt(bd, l).uses \in Operands
           /\ Reads(ItemAt(bd, l)) \in Seq(Names) /\ Writes(ItemAt(bd, l)) \in Seq(Names)
<1>1. PICK b \in 1..Len(bd) : \E i \in 1..Len(bd[b].stmts) + 1 :
          l = <<b, i>> /\ ItemAt(bd, l) = ItemsOf(bd[b])[i]
  BY LocationsArePlaces
<1>2. ItemAt(bd, l).uses \in Operands
  BY <1>1, ItemType
<1>3. QED
  BY <1>2, PointersType, Zenon DEF Reads, Writes

(* The entry hook is a list of effects.                                     *)
LEMMA EntryTyped ==
    /\ EntryHook("entry_before") \in Seq(EffectType) /\ EntryHook("entry_after") \in Seq(EffectType)
    /\ EntryEffects \in Seq(EffectType)
    /\ EntryEffects = IF owner.entry /\ "entry_before" \in lib.one
                        THEN EntryHook("entry_before") ELSE <<>>
<1>1. <<>> \in Operands /\ Continue \in UnwindAction /\ "" \in Names
  BY NamesAssumption, WordFacts, Zenon DEF Operands, UnwindAction, Continue, Words
<1>2. ASSUME NEW fn \in {"entry_before", "entry_after"} PROVE EntryHook(fn) \in Seq(EffectType)
  <2>1. fn \in HookNames
    BY DEF HookNames
  <2>2. Effect(<<fn, "">>, <<>>, Continue) \in EffectType
    BY <1>1, <2>1, CallEffectTyped, Zenon
  <2>3. QED
    BY <2>2, JoinedMore, NoEffects, Zenon DEF EntryHook
<1>3. EntryEffects = IF owner.entry /\ "entry_before" \in lib.one
                       THEN EntryHook("entry_before") ELSE <<>>
  BY DEF EntryEffects, When, EntryHook
<1>4. QED
  BY <1>2, <1>3, NoEffects

(* Each layer is a list of effects for each item.                           *)
LEMMA LayersTyped ==
    ASSUME orig \in Body
    PROVE  /\ \A m \in MemItems : MemLayer[m] \in Seq(EffectType)
           /\ \A m \in CallItems : CallLayer[m] \in Seq(EffectType) /\ CallTail[m] \in Seq(EffectType)
           /\ \A m \in DropItems : DropLayer[m] \in Seq(EffectType) /\ DropTail[m] \in Seq(EffectType)
           /\ \A m \in ReturnItems : ReturnLayer[m] \in Seq(EffectType)
<1>1. ASSUME NEW m \in Locations(orig)
      PROVE  MemLayer[m] \in Seq(EffectType) /\ ReturnLayer[m] \in Seq(EffectType)
  <2>1. AccessLead(Reads(ItemAt(orig, m)), Writes(ItemAt(orig, m))) \in Seq(EffectType)
    BY UsesTyped, AccessTyped
  <2>2. QED
    BY <2>1, EntryTyped DEF MemLayer, ReturnLayer
<1>2. ASSUME NEW m \in Locations(orig), IsTerm(orig, m)
      PROVE  /\ CallLayer[m] \in Seq(EffectType) /\ CallTail[m] \in Seq(EffectType)
             /\ DropLayer[m] \in Seq(EffectType) /\ DropTail[m] \in Seq(EffectType)
  <2>1. PICK item \in Terminator : item = ItemAt(orig, m)
    BY <1>2, BaredFacts
  <2>2. item.fn \in Names /\ item.of \in Names
    BY DEF Terminator
  <2>3. /\ CallLead(item, item.fn) \in Seq(EffectType) /\ CallTrail(item, item.fn) \in Seq(EffectType)
        /\ DropLead(item, item.of) \in Seq(EffectType) /\ DropTrail(item, item.of) \in Seq(EffectType)
    BY <2>2, LeadTyped, Zenon
  <2>4. QED
    BY <2>1, <2>3 DEF CallLayer, CallTail, DropLayer, DropTail
<1>3. QED
  BY <1>1, <1>2 DEF MemItems, CallItems, DropItems, ReturnItems

(* So are their sums.                                                       *)
LEMMA FrontTypes ==
    ASSUME orig \in Body, NEW M, NEW C, NEW D, NEW R,
           M \subseteq MemItems, C \subseteq CallItems, D \subseteq DropItems, R \subseteq ReturnItems
    PROVE  /\ Given(Locations(orig), M, MemLayer) \in EffectsOn(Locations(orig))
           /\ Given(Locations(orig), C, CallLayer) \in EffectsOn(Locations(orig))
           /\ Given(Locations(orig), D, DropLayer) \in EffectsOn(Locations(orig))
           /\ Given(Locations(orig), R, ReturnLayer) \in EffectsOn(Locations(orig))
           /\ Given(Locations(orig), C, CallTail) \in EffectsOn(Locations(orig))
           /\ Given(Locations(orig), D, DropTail) \in EffectsOn(Locations(orig))
           /\ FrontOf(M, C, D, R) \in EffectsOn(Locations(orig))
           /\ RearOf(C, D) \in EffectsOn(Locations(orig))
<1>1. /\ \A m \in M : MemLayer[m] \in Seq(EffectType)
      /\ \A m \in C : CallLayer[m] \in Seq(EffectType) /\ CallTail[m] \in Seq(EffectType)
      /\ \A m \in D : DropLayer[m] \in Seq(EffectType) /\ DropTail[m] \in Seq(EffectType)
      /\ \A m \in R : ReturnLayer[m] \in Seq(EffectType)
  BY LayersTyped
<1>2. /\ Given(Locations(orig), M, MemLayer) \in EffectsOn(Locations(orig))
      /\ Given(Locations(orig), C, CallLayer) \in EffectsOn(Locations(orig))
      /\ Given(Locations(orig), D, DropLayer) \in EffectsOn(Locations(orig))
      /\ Given(Locations(orig), R, ReturnLayer) \in EffectsOn(Locations(orig))
      /\ Given(Locations(orig), C, CallTail) \in EffectsOn(Locations(orig))
      /\ Given(Locations(orig), D, DropTail) \in EffectsOn(Locations(orig))
  BY <1>1, GivenTyped
<1>3. QED
  BY <1>2, LayeredTyped, Zenon DEF FrontOf, RearOf

(* An item without uses has no pointers.                                    *)
LEMMA NoUsesNoPointers ==
    ASSUME NEW item, item.uses \in Operands, item.uses = <<>>
    PROVE  Reads(item) = <<>> /\ Writes(item) = <<>>
<1>1. ASSUME NEW contexts PROVE Pointers(item, contexts) = <<>>
  <2>1. /\ Pointers(item, contexts) \in Seq(Names)
        /\ Len(Pointers(item, contexts)) =
             Len(Picked(item.uses, {k \in DOMAIN item.uses : item.uses[k][1] \in contexts}))
    BY PointersType, Zenon
  <2>2. Picked(<<>>, {k \in DOMAIN <<>> : <<>>[k][1] \in contexts}) = <<>>
    BY PickedEmpty
  <2>3. Len(Pointers(item, contexts)) = 0
    BY <2>1, <2>2
  <2>4. QED
    BY <2>1, <2>3
<1>2. QED
  BY <1>1 DEF Reads, Writes

(* No item is for two passes whose hooks would stand in the other order.    *)
LEMMA PassesApart ==
    ASSUME orig \in Body, WellFormed(orig)
    PROVE  /\ MemItems \cap ReturnItems = {} /\ CallItems \cap ReturnItems = {}
           /\ DropItems \cap ReturnItems = {} /\ CallItems \cap DropItems = {}
<1>1. ASSUME NEW m \in ReturnItems PROVE ~Dereferences(orig, m)
  <2>1. /\ m \in Locations(orig) /\ IsTerm(orig, m) /\ ItemAt(orig, m).kind = "return"
    BY DEF ReturnItems
  <2>2. m[1] \in 1..Len(orig) /\ ItemAt(orig, m) = orig[m[1]].term
    BY <2>1, PlaceOf
  <2> DEFINE item == ItemAt(orig, m)
  <2>3. item.uses = <<>>
    BY <2>1, <2>2, BlocksOf DEF WellFormed
  <2> HIDE DEF item
  <2>4. Reads(item) = <<>> /\ Writes(item) = <<>>
    <3>1. item.uses \in Operands
      BY <2>1, UsesTyped DEF item
    <3>2. QED
      BY <2>3, <3>1, NoUsesNoPointers
  <2>5. QED
    BY <2>4 DEF Dereferences, item
<1>2. ASSUME NEW m \in CallItems
      PROVE  ItemAt(orig, m).kind = "call" /\ ItemAt(orig, m).fn \in CallTargets
  BY DEF CallItems, CallsTarget
<1>3. ASSUME NEW m \in DropItems
      PROVE  \/ ItemAt(orig, m).kind = "drop"
             \/ ItemAt(orig, m).kind = "call" /\ ItemAt(orig, m).fn \in MemDrop
  BY Zenon DEF DropItems, DropsGuard, FunctionPath
<1>4. CallTargets \cap MemDrop = {}
  BY DEF CallTargets, MemDrop
<1>5. \A m \in ReturnItems : ItemAt(orig, m).kind = "return"
  BY DEF ReturnItems
<1>6. QED
  BY <1>1, <1>2, <1>3, <1>4, <1>5 DEF MemItems

(* One more item of the memory pass.                                        *)
LEMMA MoreMem ==
    ASSUME orig \in Body, WellFormed(orig), NEW M, M \subseteq MemItems,
           NEW m \in MemItems, m \notin M, NEW N, \A l : l \in N <=> l \in M \/ l = m
    PROVE  FrontOf(N, {}, {}, ReturnItems)
             = Later(FrontOf(M, {}, {}, ReturnItems), m, MemLayer[m])
<1> DEFINE locs == Locations(orig)
           a == Given(locs, M, MemLayer)
           b == Given(locs, {}, CallLayer)
           c == Given(locs, {}, DropLayer)
           d == Given(locs, ReturnItems, ReturnLayer)
           w == MemLayer[m]
<1>1. /\ a \in EffectsOn(locs) /\ b \in EffectsOn(locs) /\ c \in EffectsOn(locs)
      /\ d \in EffectsOn(locs) /\ w \in Seq(EffectType)
  BY FrontTypes, LayersTyped, Zenon
<1>2. m \in locs /\ m \notin ReturnItems
  BY PassesApart DEF MemItems
<1>3. a[m] = <<>> /\ b[m] = <<>> /\ c[m] = <<>> /\ d[m] = <<>>
  BY <1>2 DEF Given
<1>4. Given(locs, N, MemLayer) = Put(a, m, w)
  <2>1. \A l : l \in N <=> l \in M \/ l = m
    OBVIOUS
  <2> HIDE DEF locs
  <2>2. QED
    BY <1>2, <2>1, GivenMore
<1> HIDE DEF a, b, c, d, locs, w
<1>5. Layered(locs, Put(a, m, w), b, c, d)
        = Later(Layered(locs, a, b, c, d), m, w)
  BY <1>1, <1>2, <1>3, FirstLayer
<1>6. FrontOf(M, {}, {}, ReturnItems) = Layered(locs, a, b, c, d)
  BY DEF FrontOf, a, b, c, d, locs
<1>7. FrontOf(N, {}, {}, ReturnItems) = Layered(locs, Put(a, m, w), b, c, d)
  <2>1. FrontOf(N, {}, {}, ReturnItems) = Layered(locs, Given(locs, N, MemLayer), b, c, d)
    BY DEF FrontOf, b, c, d, locs
  <2>2. QED
    BY <1>4, <2>1
<1>8. QED
  BY <1>5, <1>6, <1>7 DEF w

(* One more item of the call pass.                                          *)
LEMMA MoreCalls ==
    ASSUME orig \in Body, WellFormed(orig), NEW C, C \subseteq CallItems,
           NEW m \in CallItems, m \notin C, NEW N, \A l : l \in N <=> l \in C \/ l = m
    PROVE  /\ FrontOf(MemItems, N, {}, ReturnItems)
                = Later(FrontOf(MemItems, C, {}, ReturnItems), m, CallLayer[m])
           /\ RearOf(N, {}) = Sooner(RearOf(C, {}), m, CallTail[m])
<1> DEFINE locs == Locations(orig)
           a == Given(locs, MemItems, MemLayer)
           b == Given(locs, C, CallLayer)
           c == Given(locs, {}, DropLayer)
           d == Given(locs, ReturnItems, ReturnLayer)
           e == Given(locs, C, CallTail)
           f == Given(locs, {}, DropTail)
           w == CallLayer[m]
           v == CallTail[m]
<1>1. /\ a \in EffectsOn(locs) /\ b \in EffectsOn(locs) /\ c \in EffectsOn(locs)
      /\ d \in EffectsOn(locs) /\ e \in EffectsOn(locs) /\ f \in EffectsOn(locs)
      /\ w \in Seq(EffectType) /\ v \in Seq(EffectType)
  BY FrontTypes, LayersTyped, Zenon
<1>2. m \in locs /\ m \notin ReturnItems
  BY PassesApart DEF CallItems
<1>3. b[m] = <<>> /\ c[m] = <<>> /\ d[m] = <<>> /\ e[m] = <<>> /\ f[m] = <<>>
  BY <1>2 DEF Given
<1>4. /\ Given(locs, N, CallLayer) = Put(b, m, w)
      /\ Given(locs, N, CallTail) = Put(e, m, v)
  <2>1. \A l : l \in N <=> l \in C \/ l = m
    OBVIOUS
  <2> HIDE DEF locs
  <2>2. Given(locs, N, CallLayer) = Put(b, m, w)
    BY <1>2, <2>1, GivenMore
  <2>3. Given(locs, N, CallTail) = Put(e, m, v)
    BY <1>2, <2>1, GivenMore
  <2>4. QED
    BY <2>2, <2>3
<1> HIDE DEF a, b, c, d, e, f, locs, w, v
<1>5. /\ Layered(locs, a, Put(b, m, w), c, d)
           = Later(Layered(locs, a, b, c, d), m, w)
      /\ Backed(locs, Put(e, m, v), f) = Sooner(Backed(locs, e, f), m, v)
  <2>1. Layered(locs, a, Put(b, m, w), c, d)
          = Later(Layered(locs, a, b, c, d), m, w)
    BY <1>1, <1>2, <1>3, SecondLayer
  <2>2. Backed(locs, Put(e, m, v), f) = Sooner(Backed(locs, e, f), m, v)
    BY <1>1, <1>2, <1>3, BackLayers
  <2>3. QED
    BY <2>1, <2>2
<1>6. /\ FrontOf(MemItems, C, {}, ReturnItems) = Layered(locs, a, b, c, d)
      /\ RearOf(C, {}) = Backed(locs, e, f)
  BY DEF FrontOf, RearOf, a, b, c, d, e, f, locs
<1>7. /\ FrontOf(MemItems, N, {}, ReturnItems) = Layered(locs, a, Put(b, m, w), c, d)
      /\ RearOf(N, {}) = Backed(locs, Put(e, m, v), f)
  <2>1. /\ FrontOf(MemItems, N, {}, ReturnItems) = Layered(locs, a, Given(locs, N, CallLayer), c, d)
        /\ RearOf(N, {}) = Backed(locs, Given(locs, N, CallTail), f)
    BY DEF FrontOf, RearOf, a, c, d, f, locs
  <2>2. QED
    BY <1>4, <2>1
<1>8. QED
  BY <1>5, <1>6, <1>7 DEF w, v

(* One more item of the drop pass.                                          *)
LEMMA MoreDrops ==
    ASSUME orig \in Body, WellFormed(orig), NEW D, D \subseteq DropItems,
           NEW m \in DropItems, m \notin D, NEW N, \A l : l \in N <=> l \in D \/ l = m
    PROVE  /\ FrontOf(MemItems, CallItems, N, ReturnItems)
                = Later(FrontOf(MemItems, CallItems, D, ReturnItems), m, DropLayer[m])
           /\ RearOf(CallItems, N) = Sooner(RearOf(CallItems, D), m, DropTail[m])
<1> DEFINE locs == Locations(orig)
           a == Given(locs, MemItems, MemLayer)
           b == Given(locs, CallItems, CallLayer)
           c == Given(locs, D, DropLayer)
           d == Given(locs, ReturnItems, ReturnLayer)
           e == Given(locs, CallItems, CallTail)
           f == Given(locs, D, DropTail)
           w == DropLayer[m]
           v == DropTail[m]
<1>1. /\ a \in EffectsOn(locs) /\ b \in EffectsOn(locs) /\ c \in EffectsOn(locs)
      /\ d \in EffectsOn(locs) /\ e \in EffectsOn(locs) /\ f \in EffectsOn(locs)
      /\ w \in Seq(EffectType) /\ v \in Seq(EffectType)
  BY FrontTypes, LayersTyped, Zenon
<1>2. m \in locs /\ m \notin ReturnItems /\ m \notin CallItems
  BY PassesApart DEF DropItems
<1>3. c[m] = <<>> /\ d[m] = <<>> /\ e[m] = <<>> /\ f[m] = <<>>
  BY <1>2 DEF Given
<1>4. /\ Given(locs, N, DropLayer) = Put(c, m, w)
      /\ Given(locs, N, DropTail) = Put(f, m, v)
  <2>1. \A l : l \in N <=> l \in D \/ l = m
    OBVIOUS
  <2> HIDE DEF locs
  <2>2. Given(locs, N, DropLayer) = Put(c, m, w)
    BY <1>2, <2>1, GivenMore
  <2>3. Given(locs, N, DropTail) = Put(f, m, v)
    BY <1>2, <2>1, GivenMore
  <2>4. QED
    BY <2>2, <2>3
<1> HIDE DEF a, b, c, d, e, f, locs, w, v
<1>5. /\ Layered(locs, a, b, Put(c, m, w), d)
           = Later(Layered(locs, a, b, c, d), m, w)
      /\ Backed(locs, e, Put(f, m, v)) = Sooner(Backed(locs, e, f), m, v)
  <2>1. Layered(locs, a, b, Put(c, m, w), d)
          = Later(Layered(locs, a, b, c, d), m, w)
    BY <1>1, <1>2, <1>3, ThirdLayer
  <2>2. Backed(locs, e, Put(f, m, v)) = Sooner(Backed(locs, e, f), m, v)
    BY <1>1, <1>2, <1>3, BackLayers
  <2>3. QED
    BY <2>1, <2>2
<1>6. /\ FrontOf(MemItems, CallItems, D, ReturnItems) = Layered(locs, a, b, c, d)
      /\ RearOf(CallItems, D) = Backed(locs, e, f)
  BY DEF FrontOf, RearOf, a, b, c, d, e, f, locs
<1>7. /\ FrontOf(MemItems, CallItems, N, ReturnItems) = Layered(locs, a, b, Put(c, m, w), d)
      /\ RearOf(CallItems, N) = Backed(locs, e, Put(f, m, v))
  <2>1. /\ FrontOf(MemItems, CallItems, N, ReturnItems)
             = Layered(locs, a, b, Given(locs, N, DropLayer), d)
        /\ RearOf(CallItems, N) = Backed(locs, e, Given(locs, N, DropTail))
    BY DEF FrontOf, RearOf, a, b, d, e, locs
  <2>2. QED
    BY <1>4, <2>1
<1>8. QED
  BY <1>5, <1>6, <1>7 DEF w, v

-----------------------------------------------------------------------------
(* One step of each pass.                                                   *)

(* The items the positions in s are for.                                    *)
AtPlaces(s) == {s[k].at : k \in 1..Len(s)}

(* The places of what is left once the first is done.                       *)
LEMMA TailPlaces ==
    ASSUME NEW S, NEW s \in Seq(S), s # <<>>, \A k \in 1..Len(s) : k # 1 => s[k].at # s[1].at
    PROVE  /\ \A l : l \in AtPlaces(s) <=> l \in AtPlaces(Tail(s)) \/ l = Head(s).at
           /\ Head(s).at \notin AtPlaces(Tail(s))
<1> DEFINE t == Tail(s)
           x == Head(s)
<1>1. /\ x = s[1] /\ 1 \in 1..Len(s)
      /\ \A k \in 1..Len(t) : k + 1 \in 1..Len(s) /\ k + 1 > 1 /\ t[k] = s[k + 1]
  BY TailFacts
<1>2. Len(s) \in Nat /\ Len(t) = Len(s) - 1
  OBVIOUS
<1> HIDE DEF t, x
<1>3. ASSUME NEW k \in 1..Len(t) PROVE t[k].at \in AtPlaces(s) /\ t[k].at # x.at
  <2>1. PICK j \in 1..Len(s) : j # 1 /\ t[k] = s[j]
    BY <1>1
  <2>2. QED
    BY <1>1, <2>1 DEF AtPlaces
<1>4. ASSUME NEW k \in 1..Len(s), k # 1 PROVE s[k].at \in AtPlaces(t)
  <2>1. k - 1 \in 1..Len(t) /\ (k - 1) + 1 = k
    BY <1>2, <1>4
  <2>2. t[k - 1] = s[k]
    BY <1>1, <2>1
  <2>3. QED
    BY <2>1, <2>2 DEF AtPlaces
<1>5. s[1].at \in AtPlaces(s)
  BY <1>1 DEF AtPlaces
<1>6. ASSUME NEW l PROVE l \in AtPlaces(s) <=> l \in AtPlaces(t) \/ l = x.at
  <2>1. ASSUME l \in AtPlaces(s) PROVE l \in AtPlaces(t) \/ l = x.at
    <3>1. PICK k \in 1..Len(s) : l = s[k].at
      BY <2>1 DEF AtPlaces
    <3>2. QED
      BY <1>1, <1>4, <3>1
  <2>2. ASSUME l \in AtPlaces(t) PROVE l \in AtPlaces(s)
    <3>1. PICK k \in 1..Len(t) : l = t[k].at
      BY <2>2 DEF AtPlaces
    <3>2. QED
      BY <1>3, <3>1
  <2>3. QED
    BY <1>1, <1>5, <2>1, <2>2
<1>7. x.at \notin AtPlaces(t)
  BY <1>3 DEF AtPlaces
<1>8. QED
  BY <1>6, <1>7 DEF t, x

(* Positions of the program's items are for different ones.                 *)
LEMMA ListedApart ==
    ASSUME NEW bd \in Body, NEW src \in Body, Tagged(src), Projected(bd, src),
           NEW s, Listed(bd, s), s # <<>>, bd[Head(s).block].term.at # Nowhere
    PROVE  /\ \A l : l \in AtPlaces(s) <=> l \in AtPlaces(Tail(s)) \/ l = Head(s).at
           /\ Head(s).at \notin AtPlaces(Tail(s))
<1>1. s \in Seq(HookPosition)
  BY DEF Listed
<1>2. Head(s) = s[1] /\ 1 \in 1..Len(s)
  BY <1>1, TailFacts
<1>3. ASSUME NEW k \in 1..Len(s), k # 1 PROVE s[k].at # s[1].at
  <2>1. /\ s[k].block \in 1..Len(bd) /\ s[1].block \in 1..Len(bd)
        /\ bd[s[k].block].term.at = s[k].at /\ bd[s[1].block].term.at = s[1].at
        /\ s[k].block # s[1].block
    BY <1>2, <1>3 DEF Listed
  <2>2. QED
    BY <1>2, <2>1, OneTermHome
<1>4. QED
  BY <1>1, <1>3, TailPlaces

(* The same of a worklist whose places lie apart.                           *)
LEMMA PlacedApart ==
    ASSUME NEW bd \in Body, NEW src \in Body, Tagged(src), Projected(bd, src),
           NEW s, Placed(bd, s), s # <<>>, Head(s).at # Nowhere
    PROVE  /\ \A l : l \in AtPlaces(s) <=> l \in AtPlaces(Tail(s)) \/ l = Head(s).at
           /\ Head(s).at \notin AtPlaces(Tail(s))
<1>1. s \in Seq(DerefPosition)
  BY DEF Placed
<1>2. Head(s) = s[1] /\ 1 \in 1..Len(s) /\ Len(s) \in Nat
  BY <1>1, TailFacts
<1>3. ASSUME NEW k \in 1..Len(s), k # 1 PROVE s[k].at # s[1].at
  <2> DEFINE b == s[1].block
             c == s[k].block
             i == s[1].index
             j == s[k].index
  <2>1. /\ b \in 1..Len(bd) /\ i \in 1..Len(bd[b].stmts) + 1 /\ ItemsOf(bd[b])[i].at = s[1].at
        /\ c \in 1..Len(bd) /\ j \in 1..Len(bd[c].stmts) + 1 /\ ItemsOf(bd[c])[j].at = s[k].at
    BY <1>2 DEF Placed
  <2>2. b = c => j < i
    <3>1. 1 < k
      BY <1>2, <1>3
    <3>2. QED
      BY <1>2, <3>1 DEF Placed
  <2> HIDE DEF b, c, i, j
  <2>3. b # c \/ i # j
    <3>1. i \in Nat /\ j \in Nat
      BY <2>1, TermFacts, ItemFacts
    <3>2. QED
      BY <2>2, <3>1
  <2> DEFINE k1 == <<b, i>>
             k2 == <<c, j>>
  <2>4. /\ k1 \in Locations(bd) /\ ItemAt(bd, k1).at = s[1].at
        /\ k2 \in Locations(bd) /\ ItemAt(bd, k2).at = s[k].at
    BY <2>1, PlacesAreLocations, Zenon
  <2>5. k1 # k2
    BY <2>3
  <2> HIDE DEF k1, k2
  <2>6. QED
    BY <1>2, <2>4, <2>5, OneHome DEF Own
<1>4. QED
  BY <1>1, <1>3, TailPlaces

(* What is put around a call or a drop depends on its operands and unwind   *)
(* only.                                                                    *)
LEMMA SameLead ==
    ASSUME NEW x, NEW y, x.args = y.args, x.unwind = y.unwind, NEW name
    PROVE  /\ CallLead(x, name) = CallLead(y, name) /\ CallTrail(x, name) = CallTrail(y, name)
           /\ DropLead(x, name) = DropLead(y, name) /\ DropTrail(x, name) = DropTrail(y, name)
BY DEF CallLead, CallTrail, DropLead, DropTrail

(* What the body runs once the passes are done with the items given.        *)
Does(bd, M, C, D, R, start) ==
    Hooked(bd, orig, FrontOf(M, C, D, R), RearOf(C, D), start)

(* Does says what the body carries.                                         *)
LEMMA DoesCarries ==
    ASSUME FlowIInv, NEW M, NEW C, NEW D, NEW R, NEW start \in Seq(EffectType),
           M \subseteq MemItems, C \subseteq CallItems, D \subseteq DropItems, R \subseteq ReturnItems,
           Does(body, M, C, D, R, start)
    PROVE  Carries(body, orig, FrontOf(M, C, D, R), RearOf(C, D), start)
<1>1. IInv /\ Projected(body, orig)
  BY DEF FlowIInv
<1>2. body \in Body /\ orig \in Body /\ Targeted(body)
  BY <1>1, IInvFacts
<1>3. /\ FrontOf(M, C, D, R) \in EffectsOn(Locations(orig))
      /\ RearOf(C, D) \in EffectsOn(Locations(orig))
  BY <1>2, FrontTypes, Zenon
<1>4. QED
  BY <1>1, <1>2, <1>3 DEF Carries, Does, HooksType, EffectsOn

(* The terminator of a block that is the program's is what it was.          *)
LEMMA TermAtHome ==
    ASSUME NEW bd \in Body, NEW src \in Body, Tagged(src), Projected(bd, src),
           NEW b \in 1..Len(bd), NEW x, x = bd[b].term, x.at # Nowhere
    PROVE  /\ x.at \in Locations(src) /\ IsTerm(src, x.at)
           /\ x.kind = ItemAt(src, x.at).kind /\ x.fn = ItemAt(src, x.at).fn
           /\ x.of = ItemAt(src, x.at).of /\ x.args = ItemAt(src, x.at).args
           /\ x.unwind = ItemAt(src, x.at).unwind
<1>1. PICK l \in Locations(bd) : IsTerm(bd, l) /\ ItemAt(bd, l) = x
  <2> DEFINE k == <<b, Len(bd[b].stmts) + 1>>
  <2>1. k \in Locations(bd) /\ IsTerm(bd, k) /\ ItemAt(bd, k) = x
    BY TermPlace
  <2> HIDE DEF k
  <2>2. QED
    BY <2>1
<1>2. Own(bd, l)
  BY <1>1 DEF Own
<1> DEFINE m == ItemAt(bd, l).at
           z == ItemAt(bd, l)
           y == ItemAt(src, m)
<1>3. /\ m \in Locations(src) /\ (IsTerm(bd, l) <=> IsTerm(src, m))
      /\ IsTerm(bd, l) => /\ z.kind = y.kind /\ z.fn = y.fn /\ z.of = y.of
                          /\ z.args = y.args /\ z.unwind = y.unwind
  BY <1>2, HomeItem
<1>4. QED
  BY <1>1, <1>3

(* Splicing the hooks of one call: the body does what it did, and that      *)
(* call's hooks.                                                            *)
LEMMA CallFits ==
    ASSUME FlowIInv, phase = "calls", todo # <<>>,
           Does(body, MemItems, CallItems \ AtPlaces(todo), {}, ReturnItems, EntryEffects)
    PROVE  LET pos   == Head(todo)
               moved == CallBefore(body, pos.block, pos.name)
               new   == CallAfter(moved.body, moved.block, pos.name)
               left  == CallItems \ AtPlaces(Tail(todo))
           IN  Hooked(new, orig, FrontOf(MemItems, left, {}, ReturnItems), RearOf(left, {}), EntryEffects)
<1> DEFINE pos == Head(todo)
           b == pos.block
           name == pos.name
           moved == CallBefore(body, b, name)
           new == CallAfter(moved.body, moved.block, name)
           done == CallItems \ AtPlaces(todo)
           left == CallItems \ AtPlaces(Tail(todo))
           call == body[b].term
           m == call.at
           F == FrontOf(MemItems, done, {}, ReturnItems)
           B == RearOf(done, {})
<1>1. IInv /\ Projected(body, orig)
  BY DEF FlowIInv
<1>2. /\ body \in Body /\ orig \in Body /\ Tagged(orig) /\ WellFormed(orig)
      /\ orig \in Bodies /\ Sound(body, orig)
  BY <1>1, IInvFacts
<1>3. Listed(body, todo) /\ CallsOf(body, todo) /\ Instrumentable(owner)
  BY <1>1 DEF IInv, Work, Before
<1>4. /\ b \in 1..Len(body) /\ CallsTarget(call, name) /\ name \in Names
      /\ m = pos.at
  <2>1. todo \in Seq(HookPosition)
    BY <1>3 DEF Listed
  <2>2. pos = todo[1] /\ 1 \in 1..Len(todo) /\ pos \in HookPosition
    BY <2>1, TailFacts
  <2>3. QED
    BY <1>3, <2>2 DEF Listed, CallsOf, HookPosition
<1>5. m # Nowhere
  BY <1>2, <1>4, UserTerm, Zenon
<1>6. /\ \A l : l \in AtPlaces(todo) <=> l \in AtPlaces(Tail(todo)) \/ l = pos.at
      /\ pos.at \notin AtPlaces(Tail(todo))
  BY <1>1, <1>2, <1>3, <1>4, <1>5, ListedApart
<1> HIDE DEF pos
<1> HIDE DEF b, name
<1>7. ~body[b].cleanup
  <2>1. GoodTerm(body[b].term, body[b].cleanup, orig)
    BY <1>2, <1>4, BlocksOf DEF Sound, GoodTerms
  <2>2. QED
    BY <1>4, <2>1 DEF CallsTarget, GoodTerm
<1>8. PICK t : body[b].term.to = {t}
  BY <1>1, <1>2, <1>4, OneTarget, Zenon
<1>9. Carries(body, orig, F, B, EntryEffects)
  BY EntryTyped, DoesCarries, Zenon
<1> HIDE DEF done
<1> HIDE DEF F, B
<1>10. /\ m \in Locations(orig)
       /\ Hooked(new, orig, Later(F, m, CallLead(call, name)), Sooner(B, m, CallTrail(call, name)),
                 EntryEffects)
  BY <1>2, <1>4, <1>5, <1>7, <1>8, <1>9, CallHooked, Zenon DEF Later, Sooner
<1> HIDE DEF new, moved
<1> DEFINE y == ItemAt(orig, m)
<1>11. /\ IsTerm(orig, m) /\ call.kind = y.kind /\ call.fn = y.fn
       /\ call.args = y.args /\ call.unwind = y.unwind
  <2> DEFINE bd == body
             src == orig
  <2>1. /\ bd \in Body /\ src \in Body /\ Tagged(src) /\ Projected(bd, src)
        /\ b \in 1..Len(bd) /\ call = bd[b].term /\ call.at # Nowhere
    BY <1>1, <1>2, <1>4, <1>5
  <2> HIDE DEF bd, src, call
  <2>2. /\ IsTerm(src, call.at)
        /\ call.kind = ItemAt(src, call.at).kind /\ call.fn = ItemAt(src, call.at).fn
        /\ call.args = ItemAt(src, call.at).args /\ call.unwind = ItemAt(src, call.at).unwind
    BY <2>1, TermAtHome
  <2>3. QED
    BY <2>2 DEF src
<1> HIDE DEF call, y
<1>12. name = y.fn /\ CallsTarget(y, y.fn)
  BY <1>4, <1>11 DEF CallsTarget
<1>13. m \in CallItems
  BY <1>3, <1>10, <1>11, <1>12 DEF CallItems, y
<1>14. CallLead(call, name) = CallLayer[m] /\ CallTrail(call, name) = CallTail[m]
  <2>1. CallLead(call, name) = CallLead(y, y.fn) /\ CallTrail(call, name) = CallTrail(y, y.fn)
    BY <1>11, <1>12, SameLead
  <2>2. QED
    BY <1>10, <2>1 DEF CallLayer, CallTail, y
<1> HIDE DEF m, left
<1>15. /\ done \subseteq CallItems /\ m \notin done
       /\ \A l : l \in left <=> l \in done \/ l = m
  BY <1>4, <1>6, <1>13 DEF done, left
<1>16. /\ FrontOf(MemItems, left, {}, ReturnItems) = Later(F, m, CallLayer[m])
       /\ RearOf(left, {}) = Sooner(B, m, CallTail[m])
  BY <1>2, <1>13, <1>15, MoreCalls DEF F, B
<1>17. Hooked(new, orig, FrontOf(MemItems, left, {}, ReturnItems), RearOf(left, {}), EntryEffects)
  BY <1>10, <1>14, <1>16
<1>18. QED
  BY <1>17 DEF new, moved, left, pos, b, name

(* The same of one drop.                                                    *)
LEMMA DropFits ==
    ASSUME FlowIInv, phase = "drops", todo # <<>>,
           Does(body, MemItems, CallItems, DropItems \ AtPlaces(todo), ReturnItems, EntryEffects)
    PROVE  LET pos   == Head(todo)
               moved == DropBefore(body, pos.block, pos.name)
               new   == DropAfter(moved.body, moved.block, pos.name)
               left  == DropItems \ AtPlaces(Tail(todo))
           IN  Hooked(new, orig, FrontOf(MemItems, CallItems, left, ReturnItems), RearOf(CallItems, left),
                  EntryEffects)
<1> DEFINE pos == Head(todo)
           b == pos.block
           name == pos.name
           moved == DropBefore(body, b, name)
           new == DropAfter(moved.body, moved.block, name)
           done == DropItems \ AtPlaces(todo)
           left == DropItems \ AtPlaces(Tail(todo))
           drop == body[b].term
           m == drop.at
           F == FrontOf(MemItems, CallItems, done, ReturnItems)
           B == RearOf(CallItems, done)
<1>1. IInv /\ Projected(body, orig)
  BY DEF FlowIInv
<1>2. /\ body \in Body /\ orig \in Body /\ Tagged(orig) /\ WellFormed(orig)
      /\ orig \in Bodies /\ Sound(body, orig)
  BY <1>1, IInvFacts
<1>3. Listed(body, todo) /\ DropsOf(body, todo) /\ Instrumentable(owner)
  BY <1>1 DEF IInv, Work, Before
<1>4. /\ b \in 1..Len(body) /\ DropsNamed(drop, name) /\ name \in Names
      /\ m = pos.at
  <2>1. todo \in Seq(HookPosition)
    BY <1>3 DEF Listed
  <2>2. pos = todo[1] /\ 1 \in 1..Len(todo) /\ pos \in HookPosition
    BY <2>1, TailFacts
  <2>3. QED
    BY <1>3, <2>2 DEF Listed, DropsOf, HookPosition
<1>5. m # Nowhere
  BY <1>2, <1>4, UserTerm, Zenon
<1>6. /\ \A l : l \in AtPlaces(todo) <=> l \in AtPlaces(Tail(todo)) \/ l = pos.at
      /\ pos.at \notin AtPlaces(Tail(todo))
  BY <1>1, <1>2, <1>3, <1>4, <1>5, ListedApart
<1> HIDE DEF pos
<1> HIDE DEF b, name
<1>7. drop.of = name
  BY <1>4 DEF DropsNamed
<1>8. PICK t : body[b].term.to = {t}
  BY <1>1, <1>2, <1>4, OneTarget, Zenon
<1>9. Carries(body, orig, F, B, EntryEffects)
  BY EntryTyped, DoesCarries, Zenon
<1> HIDE DEF done
<1> HIDE DEF F, B
<1>10. /\ m \in Locations(orig)
       /\ Hooked(new, orig, Later(F, m, DropLead(drop, name)), Sooner(B, m, DropTrail(drop, name)),
                 EntryEffects)
  BY <1>2, <1>4, <1>5, <1>7, <1>8, <1>9, DropHooked, Zenon DEF Later, Sooner
<1> HIDE DEF new, moved
<1> DEFINE y == ItemAt(orig, m)
<1>11. /\ IsTerm(orig, m) /\ drop.kind = y.kind /\ drop.fn = y.fn
       /\ drop.of = y.of /\ drop.args = y.args /\ drop.unwind = y.unwind
  <2> DEFINE bd == body
             src == orig
  <2>1. /\ bd \in Body /\ src \in Body /\ Tagged(src) /\ Projected(bd, src)
        /\ b \in 1..Len(bd) /\ drop = bd[b].term /\ drop.at # Nowhere
    BY <1>1, <1>2, <1>4, <1>5
  <2> HIDE DEF bd, src, drop
  <2>2. /\ IsTerm(src, drop.at)
        /\ drop.kind = ItemAt(src, drop.at).kind /\ drop.fn = ItemAt(src, drop.at).fn
        /\ drop.of = ItemAt(src, drop.at).of /\ drop.args = ItemAt(src, drop.at).args
        /\ drop.unwind = ItemAt(src, drop.at).unwind
    BY <2>1, TermAtHome
  <2>3. QED
    BY <2>2 DEF src
<1> HIDE DEF drop, y
<1>12. name = y.of /\ DropsGuard(y)
  BY <1>4, <1>7, <1>11, Zenon DEF DropsNamed, DropsGuard, FunctionPath
<1>13. m \in DropItems
  BY <1>3, <1>10, <1>11, <1>12 DEF DropItems, y
<1>14. DropLead(drop, name) = DropLayer[m] /\ DropTrail(drop, name) = DropTail[m]
  <2>1. DropLead(drop, name) = DropLead(y, y.of) /\ DropTrail(drop, name) = DropTrail(y, y.of)
    BY <1>11, <1>12, SameLead
  <2>2. QED
    BY <1>10, <2>1 DEF DropLayer, DropTail, y
<1> HIDE DEF m, left
<1>15. /\ done \subseteq DropItems /\ m \notin done
       /\ \A l : l \in left <=> l \in done \/ l = m
  BY <1>4, <1>6, <1>13 DEF done, left
<1>16. /\ FrontOf(MemItems, CallItems, left, ReturnItems) = Later(F, m, DropLayer[m])
       /\ RearOf(CallItems, left) = Sooner(B, m, DropTail[m])
  BY <1>2, <1>13, <1>15, MoreDrops DEF F, B
<1>17. Hooked(new, orig, FrontOf(MemItems, CallItems, left, ReturnItems), RearOf(CallItems, left),
              EntryEffects)
  BY <1>10, <1>14, <1>16
<1>18. QED
  BY <1>17 DEF new, moved, left, pos, b, name

(* What the memory pass collected is what the program dereferences there.   *)
Accesses(s) ==
    \A k \in 1..Len(s) :
        /\ s[k].at \in MemItems
        /\ s[k].read = Reads(ItemAt(orig, s[k].at)) /\ Len(s[k].read) <= 1
        /\ s[k].write = Writes(ItemAt(orig, s[k].at)) /\ Len(s[k].write) <= 1

(* The same of one memory access.                                           *)
LEMMA MemFits ==
    ASSUME FlowIInv, phase = "mem", todo # <<>>, Accesses(todo),
           Does(body, MemItems \ AtPlaces(todo), {}, {}, ReturnItems, EntryEffects)
    PROVE  Hooked(AccessThroughHooks(body, Head(todo)), orig,
                  FrontOf(MemItems \ AtPlaces(Tail(todo)), {}, {}, ReturnItems), RearOf({}, {}),
                  EntryEffects)
<1> DEFINE d == Head(todo)
           x == <<d.block, d.index>>
           m == d.at
           new == AccessThroughHooks(body, d)
           done == MemItems \ AtPlaces(todo)
           left == MemItems \ AtPlaces(Tail(todo))
           F == FrontOf(done, {}, {}, ReturnItems)
           B == RearOf({}, {})
<1>1. IInv /\ Projected(body, orig)
  BY DEF FlowIInv
<1>2. /\ body \in Body /\ orig \in Body /\ Tagged(orig) /\ WellFormed(orig)
  BY <1>1, IInvFacts
<1>3. Placed(body, todo)
  BY <1>1 DEF IInv, Work
<1>4. todo \in Seq(DerefPosition)
  BY <1>3 DEF Placed
<1>5. d = todo[1] /\ 1 \in 1..Len(todo) /\ d \in DerefPosition
  BY <1>4, TailFacts
<1>6. /\ d.block \in 1..Len(body) /\ d.index \in 1..Len(body[d.block].stmts) + 1
      /\ ItemsOf(body[d.block])[d.index].at = m
  BY <1>3, <1>5 DEF Placed
<1>7. d.read \in Seq(Names) /\ d.write \in Seq(Names)
  BY <1>5 DEF DerefPosition
<1>8. /\ m \in MemItems /\ d.read = Reads(ItemAt(orig, m)) /\ Len(d.read) <= 1
      /\ d.write = Writes(ItemAt(orig, m)) /\ Len(d.write) <= 1
  BY <1>5 DEF Accesses
<1>9. m \in Locations(orig) /\ Dereferences(orig, m)
  BY <1>8 DEF MemItems
<1>10. m # Nowhere
  BY <1>2, <1>9, NotNowhere
<1>11. /\ \A l : l \in AtPlaces(todo) <=> l \in AtPlaces(Tail(todo)) \/ l = m
       /\ m \notin AtPlaces(Tail(todo))
  BY <1>1, <1>2, <1>3, <1>10, PlacedApart
<1> HIDE DEF d
<1>12. ItemAt(body, x).at = m
  BY <1>2, <1>6, PlacesAreLocations
<1>13. Carries(body, orig, F, B, EntryEffects)
  BY EntryTyped, DoesCarries, Zenon
<1>14. d.read # <<>> \/ d.write # <<>>
  BY <1>8, <1>9 DEF Dereferences
<1> HIDE DEF F, B, done, m
<1>15. Hooked(new, orig, Later(F, m, AccessLead(d.read, d.write)), B, EntryEffects)
  <2>1. ItemAt(body, <<d.block, d.index>>).at # Nowhere
    BY <1>10, <1>12
  <2>2. LET l == ItemAt(body, <<d.block, d.index>>).at IN
        Hooked(new, orig, [F EXCEPT ![l] = Joined(@, AccessLead(d.read, d.write))], B, EntryEffects)
    BY <1>2, <1>6, <1>7, <1>8, <1>13, <1>14, <2>1, AccessHooked, Zenon
  <2>3. QED
    BY <1>12, <2>2, Zenon DEF Later
<1> HIDE DEF new, x
<1>16. AccessLead(d.read, d.write) = MemLayer[m]
  BY <1>8, <1>9 DEF MemLayer
<1> HIDE DEF left
<1>17. done \subseteq MemItems /\ m \notin done /\ \A l : l \in left <=> l \in done \/ l = m
  BY <1>8, <1>11 DEF done, left
<1>18. FrontOf(left, {}, {}, ReturnItems) = Later(F, m, MemLayer[m])
  BY <1>2, <1>8, <1>17, MoreMem DEF F
<1>19. Hooked(new, orig, FrontOf(left, {}, {}, ReturnItems), B, EntryEffects)
  BY <1>15, <1>16, <1>18
<1>20. QED
  BY <1>19 DEF new, left, d, B

-----------------------------------------------------------------------------
(* The inductive invariant: which items run their hooks in each phase.      *)

(* What the passes have done to the body so far: which items run their      *)
(* hooks in the phase ph, with td still to do.                              *)

(* The phases before the first pass edits at an item of todo.               *)
Early == {"entry_before", "entry_after", "gates", "collect_mem"}

(* Phase and todo tell which items run their hooks in the body; at the end  *)
(* all of them do.                                                          *)
DoneSoFar(bd, ph, td) ==
    /\ ph = "entry_before" => Does(bd, {}, {}, {}, {}, <<>>)
    /\ ph = "entry_after" => Does(bd, {}, {}, {}, {}, EntryEffects)
    /\ ph \in {"gates", "collect_mem"} => Does(bd, {}, {}, {}, ReturnItems, EntryEffects)
    /\ ph = "mem" => /\ Does(bd, MemItems \ AtPlaces(td), {}, {}, ReturnItems, EntryEffects)
                     /\ Accesses(td)
    /\ ph = "collect_calls" => Does(bd, MemItems, {}, {}, ReturnItems, EntryEffects)
    /\ ph = "calls" => Does(bd, MemItems, CallItems \ AtPlaces(td), {}, ReturnItems, EntryEffects)
    /\ ph = "collect_drops" => Does(bd, MemItems, CallItems, {}, ReturnItems, EntryEffects)
    /\ ph = "drops" => Does(bd, MemItems, CallItems, DropItems \ AtPlaces(td), ReturnItems, EntryEffects)
    /\ ph = "done" => Does(bd, MemItems, CallItems, DropItems, ReturnItems, EntryEffects)
    /\ ph \in Early => OwnUses(bd)

HooksSoFar == DoneSoFar(body, phase, todo)

(* The inductive invariant behind HooksAsPromised: what flows where, and    *)
(* which hooks are on the way.                                              *)
HooksIInv == FlowIInv /\ HooksSoFar

(* A step of a pass leaves the source body, the library and the owner       *)
(* alone.                                                                   *)
LEMMA ItemsStay ==
    ASSUME orig' = orig, lib' = lib, owner' = owner
    PROVE  /\ MemItems' = MemItems /\ CallItems' = CallItems
           /\ DropItems' = DropItems /\ ReturnItems' = ReturnItems
           /\ EntryEffects' = EntryEffects
<1>1. MemItems' = MemItems
  BY DEF MemItems, Hooks, Instrumentable, Dereferences, Reads, Writes, Pointers, ItemAt, ItemsOf, Locations
<1>2. CallItems' = CallItems
  BY DEF CallItems, Instrumentable, CallsTarget
<1>3. DropItems' = DropItems
  BY DEF DropItems, Instrumentable
<1>4. ReturnItems' = ReturnItems /\ EntryEffects' = EntryEffects
  BY DEF ReturnItems, EntryEffects
<1>5. QED
  BY <1>1, <1>2, <1>3, <1>4

(* So the layers stay.                                                      *)
LEMMA LayersStay ==
    ASSUME orig' = orig, lib' = lib, owner' = owner
    PROVE  /\ MemLayer' = MemLayer /\ CallLayer' = CallLayer /\ CallTail' = CallTail
           /\ DropLayer' = DropLayer /\ DropTail' = DropTail /\ ReturnLayer' = ReturnLayer
<1>1. MemLayer' = MemLayer /\ ReturnLayer' = ReturnLayer
  BY DEF MemLayer, ReturnLayer
<1>2. CallLayer' = CallLayer
  BY DEF CallLayer, CallLead
<1>3. CallTail' = CallTail
  BY DEF CallTail, CallTrail
<1>4. DropLayer' = DropLayer
  BY DEF DropLayer, DropLead
<1>5. DropTail' = DropTail
  BY DEF DropTail, DropTrail
<1>6. QED
  BY <1>1, <1>2, <1>3, <1>4, <1>5

(* A body nobody edits runs what it ran.                                    *)
LEMMA SoFarStays ==
    ASSUME orig' = orig, lib' = lib, owner' = owner, DoneSoFar(body', phase', todo')
    PROVE  HooksSoFar'
BY ItemsStay, LayersStay
DEF HooksSoFar, DoneSoFar, Does, FrontOf, RearOf, Accesses

-----------------------------------------------------------------------------
(* The steps before the passes.                                             *)

(* Every terminator of the program is the terminator of some block.         *)
LEMMA HomeBlock ==
    ASSUME NEW bd \in Body, NEW src \in Body, Tagged(src), Projected(bd, src),
           NEW m \in Locations(src), IsTerm(src, m)
    PROVE  \E b \in 1..Len(bd) :
              /\ bd[b].term.at = m
              /\ bd[b].term.kind = ItemAt(src, m).kind /\ bd[b].term.fn = ItemAt(src, m).fn
              /\ bd[b].term.of = ItemAt(src, m).of
<1>1. PICK l \in Locations(bd) : Own(bd, l) /\ ItemAt(bd, l).at = m
  BY AllAtHome
<1> DEFINE x == ItemAt(bd, l)
           y == ItemAt(src, m)
<1>2. IsTerm(bd, l) /\ x.kind = y.kind /\ x.fn = y.fn /\ x.of = y.of
  BY <1>1, HomeItem
<1>3. l[1] \in 1..Len(bd) /\ x = bd[l[1]].term
  BY <1>2, PlaceOf
<1>4. QED
  BY <1>1, <1>2, <1>3

(* Nothing is left of an empty list.                                        *)
LEMMA NoneAtPlaces ==
    ASSUME NEW X
    PROVE  X \ AtPlaces(<<>>) = X
<1>1. 1..Len(<<>>) = {}
  OBVIOUS
<1>2. QED
  BY <1>1 DEF AtPlaces

(* With no item done nothing is run.                                        *)
LEMMA EmptyFront ==
    ASSUME orig \in Body
    PROVE  /\ FrontOf({}, {}, {}, {}) = Nothing(orig) /\ RearOf({}, {}) = Nothing(orig)
           /\ FrontOf({}, {}, {}, ReturnItems) = Given(Locations(orig), ReturnItems, ReturnLayer)
<1> DEFINE locs == Locations(orig)
<1>1. \A effects : Given(locs, {}, effects) = [m \in locs |-> <<>>]
  BY DEF Given
<1>2. <<>> \in Seq(EffectType) /\ Joined(<<>>, <<>>) = <<>>
  BY NoEffects, JoinedFacts, Zenon
<1>3. RearOf({}, {}) = Nothing(orig) /\ FrontOf({}, {}, {}, {}) = Nothing(orig)
  BY <1>1, <1>2 DEF RearOf, FrontOf, Backed, Layered, Nothing
<1> DEFINE d == Given(locs, ReturnItems, ReturnLayer)
<1>4. d \in EffectsOn(locs)
  BY FrontTypes
<1> HIDE DEF d
<1>5. \A m \in locs : Joined(<<>>, d[m]) = d[m]
  BY <1>4, JoinedFacts, Zenon DEF EffectsOn
<1> HIDE DEF locs
<1>6. Layered(locs, [m \in locs |-> <<>>], [m \in locs |-> <<>>], [m \in locs |-> <<>>], d) = d
  BY <1>2, <1>4, <1>5 DEF Layered, EffectsOn
<1>7. QED
  BY <1>1, <1>3, <1>6 DEF FrontOf, d, locs

(* The original body runs no hook.                                          *)
LEMMA InitHooks == Init => HooksSoFar
<1> SUFFICES ASSUME Init PROVE HooksSoFar
  OBVIOUS
<1>1. phase = "entry_before" /\ body = orig /\ orig \in Body /\ Tagged(orig) /\ WellFormed(orig)
  BY BodiesAssumption DEF Init
<1>2. Carries(orig, orig, Nothing(orig), Nothing(orig), <<>>)
  BY <1>1, PlainHooked
<1>3. Hooked(body, orig, Nothing(orig), Nothing(orig), <<>>)
  BY <1>1, <1>2 DEF Carries
<1>4. Does(body, {}, {}, {}, {}, <<>>)
  BY <1>1, <1>3, EmptyFront DEF Does
<1>5. OwnUses(body)
  BY <1>1, OriginalUses
<1>6. QED
  BY <1>1, <1>4, <1>5 DEF HooksSoFar, DoneSoFar

(* handle_entry_fn_before puts its hook at the start.                       *)
LEMMA EnterSoFar ==
    ASSUME FlowIInv, HooksSoFar, EntryBefore
    PROVE  DoneSoFar(body', phase', todo')
<1>1. phase = "entry_before" /\ phase' = "entry_after"
  BY DEF EntryBefore
<1>2. /\ body = orig /\ orig \in Body /\ Tagged(orig) /\ WellFormed(orig) /\ orig # <<>>
      /\ OwnUses(body) /\ Does(body, {}, {}, {}, {}, <<>>)
  <2>1. IInv /\ body = orig
    BY <1>1 DEF FlowIInv, IInv, Before
  <2>2. OwnUses(body) /\ Does(body, {}, {}, {}, {}, <<>>)
    BY <1>1 DEF HooksSoFar, DoneSoFar, Early
  <2>3. orig \in Body /\ Tagged(orig) /\ WellFormed(orig)
    BY <2>1, IInvFacts
  <2>4. QED
    BY <2>1, <2>2, <2>3 DEF WellFormed
<1>3. Does(body', {}, {}, {}, {}, EntryEffects) /\ OwnUses(body')
  <2>1. CASE owner.entry /\ "entry_before" \in lib.one
    <3>1. body' = EnterThroughHook(orig)
      BY <1>2, <2>1 DEF EntryBefore
    <3>2. PICK w \in Seq(EffectType) : w = EntryEffects /\ w = EntryHook("entry_before")
      BY <2>1, EntryTyped
    <3>3. Carries(EnterThroughHook(orig), orig, Nothing(orig), Nothing(orig), w)
      BY <1>2, <3>2, EnterHooked
    <3>4. Hooked(body', orig, Nothing(orig), Nothing(orig), EntryEffects)
      BY <3>1, <3>2, <3>3 DEF Carries
    <3>5. OwnUses(EnterThroughHook(orig))
      BY <1>2, EnterOwnUses
    <3>6. QED
      BY <1>2, <3>1, <3>4, <3>5, EmptyFront DEF Does
  <2>2. CASE ~(owner.entry /\ "entry_before" \in lib.one)
    <3>1. body' = body
      BY <2>2 DEF EntryBefore
    <3>2. EntryEffects = <<>>
      BY <2>2, EntryTyped
    <3>3. QED
      BY <1>2, <3>1, <3>2
  <2>3. QED
    BY <2>1, <2>2
<1>4. QED
  BY <1>1, <1>3 DEF DoneSoFar

(* The returns of the body are the program's.                               *)
LEMMA ReturnsAtHome ==
    ASSUME FlowIInv, owner.entry, "entry_after" \in lib.one,
           NEW w, w = EntryHook("entry_after")
    PROVE  Returned(body, orig, Len(body), w) = Given(Locations(orig), ReturnItems, ReturnLayer)
<1>1. IInv /\ Projected(body, orig)
  BY DEF FlowIInv
<1>2. body \in Body /\ orig \in Body /\ Tagged(orig) /\ Sound(body, orig)
  BY <1>1, IInvFacts
<1> DEFINE Back(m) == \E c \in 1..Len(body) : body[c].term.kind = "return" /\ body[c].term.at = m
<1>3. ASSUME NEW m \in Locations(orig) PROVE Back(m) <=> m \in ReturnItems
  <2>1. ASSUME m \in ReturnItems PROVE Back(m)
    <3>1. IsTerm(orig, m) /\ ItemAt(orig, m).kind = "return"
      BY <2>1 DEF ReturnItems
    <3>2. PICK b \in 1..Len(body) : /\ body[b].term.at = m
                                    /\ body[b].term.kind = ItemAt(orig, m).kind
      BY <1>1, <1>2, <3>1, HomeBlock
    <3>3. QED
      BY <3>1, <3>2
  <2>2. ASSUME Back(m) PROVE m \in ReturnItems
    <3>1. PICK c \in 1..Len(body) : body[c].term.kind = "return" /\ body[c].term.at = m
      BY <2>2
    <3>2. PICK x : x = body[c].term
      OBVIOUS
    <3>3. x.kind = "return" /\ x.at = m /\ x.at # Nowhere
      BY <1>2, <3>1, <3>2, NotNowhere
    <3>4. IsTerm(orig, x.at) /\ x.kind = ItemAt(orig, x.at).kind
      BY <1>1, <1>2, <3>2, <3>3, TermAtHome
    <3>5. QED
      BY <3>3, <3>4 DEF ReturnItems
  <2>3. QED
    BY <2>1, <2>2
<1>4. Returned(body, orig, Len(body), w) = [m \in Locations(orig) |-> IF Back(m) THEN w ELSE <<>>]
  BY DEF Returned
<1>5. Given(Locations(orig), ReturnItems, ReturnLayer)
        = [m \in Locations(orig) |-> IF m \in ReturnItems THEN w ELSE <<>>]
  BY DEF Given, ReturnLayer
<1> HIDE DEF Back
<1>6. QED
  BY <1>3, <1>4, <1>5

(* handle_entry_fn_after puts its hook before each return.                  *)
LEMMA LeaveSoFar ==
    ASSUME FlowIInv, HooksSoFar, EntryAfter
    PROVE  DoneSoFar(body', phase', todo')
<1>1. phase = "entry_after" /\ phase' = "gates"
  BY DEF EntryAfter
<1>2. IInv
  BY DEF FlowIInv
<1>3. body \in Body /\ orig \in Body /\ Tagged(orig) /\ Sound(body, orig)
  BY <1>2, IInvFacts
<1>4. OwnUses(body) /\ Does(body, {}, {}, {}, {}, EntryEffects)
  BY <1>1 DEF HooksSoFar, DoneSoFar, Early
<1>5. Does(body', {}, {}, {}, ReturnItems, EntryEffects) /\ OwnUses(body')
  <2>1. CASE owner.entry /\ "entry_after" \in lib.one
    <3>1. body' = ReturnsThroughHook(body)
      BY <2>1 DEF EntryAfter
    <3>2. PICK w \in Seq(EffectType) : w = EntryHook("entry_after")
      BY EntryTyped
    <3>3. Carries(body, orig, Nothing(orig), Nothing(orig), EntryEffects)
      <4>1. Carries(body, orig, FrontOf({}, {}, {}, {}), RearOf({}, {}), EntryEffects)
        BY <1>4, EntryTyped, DoesCarries, Zenon
      <4>2. QED
        BY <1>3, <4>1, EmptyFront
    <3>4. ASSUME NEW b \in 1..Len(body), body[b].term.kind = "return"
          PROVE  body[b].term.at # Nowhere
      <4>1. GoodTerm(body[b].term, body[b].cleanup, orig)
        BY <1>3, BlocksOf DEF Sound, GoodTerms
      <4>2. QED
        BY <3>4, <4>1 DEF GoodTerm
    <3>5. Carries(ReturnsThroughHook(body), orig, Returned(body, orig, Len(body), w), Nothing(orig),
                  EntryEffects)
      BY <1>3, <3>2, <3>3, <3>4, ReturnsHooked
    <3>6. Returned(body, orig, Len(body), w) = FrontOf({}, {}, {}, ReturnItems)
      BY <1>3, <2>1, <3>2, ReturnsAtHome, EmptyFront
    <3>7. Hooked(body', orig, FrontOf({}, {}, {}, ReturnItems), RearOf({}, {}), EntryEffects)
      BY <1>3, <3>1, <3>5, <3>6, EmptyFront DEF Carries
    <3>8. OwnUses(ReturnsThroughHook(body))
      BY <1>3, <1>4, ReturnsOwnUses
    <3>9. QED
      BY <3>1, <3>7, <3>8 DEF Does
  <2>2. CASE ~(owner.entry /\ "entry_after" \in lib.one)
    <3>1. body' = body
      BY <2>2 DEF EntryAfter
    <3>2. ReturnItems = {}
      BY <2>2 DEF ReturnItems
    <3>3. QED
      BY <1>4, <3>1, <3>2
  <2>3. QED
    BY <2>1, <2>2
<1>6. QED
  BY <1>1, <1>5 DEF DoneSoFar

(* A gate that closes leaves a body for which nothing was promised.         *)
LEMMA GatesSoFar ==
    ASSUME HooksSoFar, Gates
    PROVE  DoneSoFar(body', phase', todo')
<1>1. body' = body /\ phase = "gates"
  BY DEF Gates
<1>2. OwnUses(body) /\ Does(body, {}, {}, {}, ReturnItems, EntryEffects)
  BY <1>1 DEF HooksSoFar, DoneSoFar, Early
<1>3. CASE Instrumentable(owner)
  <2>1. phase' = "collect_mem"
    BY <1>3 DEF Gates
  <2>2. QED
    BY <1>1, <1>2, <2>1 DEF DoneSoFar
<1>4. CASE ~Instrumentable(owner)
  <2>1. phase' = "done"
    BY <1>4 DEF Gates
  <2>2. MemItems = {} /\ CallItems = {} /\ DropItems = {}
    BY <1>4 DEF MemItems, CallItems, DropItems, Hooks
  <2>3. QED
    BY <1>1, <1>2, <2>1, <2>2 DEF DoneSoFar, Early
<1>5. QED
  BY <1>3, <1>4

-----------------------------------------------------------------------------
(* The memory pass.                                                         *)

(* The pointers of an item depend on its uses only.                         *)
LEMMA SamePointers ==
    ASSUME NEW x, NEW y, x.uses = y.uses
    PROVE  Reads(x) = Reads(y) /\ Writes(x) = Writes(y)
BY DEF Reads, Writes, Pointers

(* Only items of the program dereference anything.                          *)
LEMMA NoPointers ==
    ASSUME NEW bd \in Body, OwnUses(bd), NEW l \in Locations(bd), Dereferences(bd, l)
    PROVE  Own(bd, l)
<1> DEFINE item == ItemAt(bd, l)
<1>1. item.uses # <<>>
  <2>1. SUFFICES ASSUME item.uses = <<>> PROVE FALSE
    OBVIOUS
  <2>2. Reads(item) = <<>> /\ Writes(item) = <<>>
    BY <2>1, UsesTyped, NoUsesNoPointers
  <2>3. QED
    BY <2>2 DEF Dereferences
<1>2. QED
  BY <1>1, OwnUsesAt

(* What the pass collects, and that it misses nothing.                      *)
LEMMA AccessesCollected ==
    ASSUME FlowIInv, OwnUses(body), Hooks({"mem_read", "mem_write"}), ~Uncollectable(body),
           NEW order \in SetToSeqs({b \in Blocks(body) : Derefs(body, b) # <<>>})
    PROVE  LET s == FlattenSeq([k \in DOMAIN order |-> DerefsInOrder(body, order[k])]) IN
           Accesses(s) /\ MemItems \ AtPlaces(s) = {}
<1> DEFINE s == FlattenSeq([k \in DOMAIN order |-> DerefsInOrder(body, order[k])])
<1>1. IInv /\ Projected(body, orig)
  BY DEF FlowIInv
<1>2. body \in Body /\ orig \in Body /\ Tagged(orig)
  BY <1>1, IInvFacts
<1>3. \A x : Among(x, s) <=> \E l \in Locations(body) : Dereferences(body, l) /\ x = Deref(body, l)
  BY <1>2, AllCollected
<1> HIDE DEF s
<1>4. ASSUME NEW l \in Locations(body), Own(body, l)
      PROVE  LET m == ItemAt(body, l).at IN
             /\ m \in Locations(orig)
             /\ Reads(ItemAt(body, l)) = Reads(ItemAt(orig, m))
             /\ Writes(ItemAt(body, l)) = Writes(ItemAt(orig, m))
             /\ Dereferences(body, l) <=> m \in MemItems
  <2> DEFINE m == ItemAt(body, l).at
  <2>1. m \in Locations(orig) /\ ItemAt(body, l).uses = ItemAt(orig, m).uses
    BY <1>1, <1>2, <1>4, HomeItem
  <2>2. /\ Reads(ItemAt(body, l)) = Reads(ItemAt(orig, m))
        /\ Writes(ItemAt(body, l)) = Writes(ItemAt(orig, m))
    BY <2>1, SamePointers
  <2>3. QED
    BY <2>1, <2>2 DEF MemItems, Dereferences
<1>5. ASSUME NEW k \in 1..Len(s)
      PROVE  /\ s[k].at \in MemItems
             /\ s[k].read = Reads(ItemAt(orig, s[k].at)) /\ Len(s[k].read) <= 1
             /\ s[k].write = Writes(ItemAt(orig, s[k].at)) /\ Len(s[k].write) <= 1
  <2>1. Among(s[k], s)
    BY DEF Among
  <2>2. PICK l \in Locations(body) : Dereferences(body, l) /\ s[k] = Deref(body, l)
    BY <1>3, <2>1
  <2>3. /\ s[k].at = ItemAt(body, l).at
        /\ s[k].read = Reads(ItemAt(body, l)) /\ s[k].write = Writes(ItemAt(body, l))
    BY <2>2 DEF Deref
  <2>4. Own(body, l)
    BY <1>2, <2>2, NoPointers
  <2>5. ~(Len(Reads(ItemAt(body, l))) > 1) /\ ~(Len(Writes(ItemAt(body, l))) > 1)
    BY DEF Uncollectable
  <2>6. Reads(ItemAt(body, l)) \in Seq(Names) /\ Writes(ItemAt(body, l)) \in Seq(Names)
    BY <1>2, UsesTyped
  <2>7. Len(Reads(ItemAt(body, l))) <= 1 /\ Len(Writes(ItemAt(body, l))) <= 1
    BY <2>5, <2>6
  <2>8. QED
    BY <1>4, <2>2, <2>3, <2>4, <2>7
<1>6. ASSUME NEW m \in MemItems PROVE m \in AtPlaces(s)
  <2>1. m \in Locations(orig)
    BY DEF MemItems
  <2>2. PICK l \in Locations(body) : Own(body, l) /\ ItemAt(body, l).at = m
    BY <1>1, <1>2, <2>1, AllAtHome
  <2>3. Among(Deref(body, l), s)
    BY <1>3, <1>4, <2>2
  <2>4. PICK k \in 1..Len(s) : s[k] = Deref(body, l)
    BY <2>3 DEF Among
  <2>5. s[k].at = m
    BY <2>2, <2>4 DEF Deref
  <2>6. QED
    BY <2>5 DEF AtPlaces
<1>7. QED
  BY <1>5, <1>6 DEF Accesses, s

(* Collecting the accesses starts the memory pass with none done.           *)
LEMMA CollectMemSoFar ==
    ASSUME FlowIInv, HooksSoFar, CollectMem
    PROVE  DoneSoFar(body', phase', todo')
<1>1. body' = body /\ phase = "collect_mem"
  BY DEF CollectMem
<1>2. OwnUses(body) /\ Does(body, {}, {}, {}, ReturnItems, EntryEffects)
  BY <1>1 DEF HooksSoFar, DoneSoFar, Early
<1>3. Instrumentable(owner)
  BY <1>1 DEF FlowIInv, IInv, Before
<1>4. CASE ~({"mem_read", "mem_write"} \subseteq lib.one)
  <2>1. phase' = "collect_calls"
    BY <1>4 DEF CollectMem
  <2>2. MemItems = {}
    BY <1>4 DEF MemItems, Hooks
  <2>3. QED
    BY <1>1, <1>2, <2>1, <2>2 DEF DoneSoFar, Early
<1>5. CASE {"mem_read", "mem_write"} \subseteq lib.one /\ Uncollectable(body)
  <2>1. phase' = "ice"
    BY <1>5 DEF CollectMem
  <2>2. QED
    BY <2>1 DEF DoneSoFar, Early
<1>6. CASE {"mem_read", "mem_write"} \subseteq lib.one /\ ~Uncollectable(body)
  <2>1. phase' = "mem"
    BY <1>6 DEF CollectMem
  <2>2. PICK order \in SetToSeqs({b \in Blocks(body) : Derefs(body, b) # <<>>}) :
            todo' = FlattenSeq([k \in DOMAIN order |-> DerefsInOrder(body, order[k])])
    BY <1>6 DEF CollectMem
  <2>3. Hooks({"mem_read", "mem_write"})
    BY <1>3, <1>6 DEF Hooks
  <2>4. Accesses(todo') /\ MemItems \ AtPlaces(todo') = {}
    BY <1>2, <1>6, <2>2, <2>3, AccessesCollected
  <2>5. QED
    BY <1>1, <1>2, <2>1, <2>4, Zenon DEF DoneSoFar, Early
<1>7. QED
  BY <1>4, <1>5, <1>6

(* Each iteration of the memory pass does the access it takes from todo.    *)
LEMMA MemStepsSoFar ==
    ASSUME FlowIInv, HooksSoFar, InstrumentMem \/ MemDone
    PROVE  DoneSoFar(body', phase', todo')
<1>1. phase = "mem"
  BY DEF InstrumentMem, MemDone
<1>2. /\ Does(body, MemItems \ AtPlaces(todo), {}, {}, ReturnItems, EntryEffects)
      /\ Accesses(todo)
  BY <1>1 DEF HooksSoFar, DoneSoFar
<1>3. CASE InstrumentMem
  <2>1. /\ todo # <<>> /\ body' = AccessThroughHooks(body, Head(todo))
        /\ todo' = Tail(todo) /\ phase' = "mem"
    BY <1>1, <1>3 DEF InstrumentMem
  <2>2. Does(body', MemItems \ AtPlaces(todo'), {}, {}, ReturnItems, EntryEffects)
    BY <1>1, <1>2, <2>1, MemFits DEF Does
  <2>3. todo \in Seq(DerefPosition)
    BY <1>1 DEF FlowIInv, IInv, Work, Placed
  <2>4. \A k \in 1..Len(Tail(todo)) : k + 1 \in 1..Len(todo) /\ Tail(todo)[k] = todo[k + 1]
    BY <2>1, <2>3, TailFacts
  <2>5. Accesses(todo')
    BY <1>2, <2>1, <2>4 DEF Accesses
  <2>6. QED
    BY <2>1, <2>2, <2>5 DEF DoneSoFar, Early
<1>4. CASE MemDone
  <2>1. body' = body /\ todo = <<>> /\ phase' = "collect_calls"
    BY <1>4 DEF MemDone
  <2>2. MemItems \ AtPlaces(todo) = MemItems
    BY <2>1, NoneAtPlaces
  <2>3. QED
    BY <1>2, <2>1, <2>2, Zenon DEF DoneSoFar, Early
<1>5. QED
  BY <1>3, <1>4

(* CollectCalls misses no call that has a target.                           *)
LEMMA CallsCollected ==
    ASSUME FlowIInv, NEW s,
           s = Picked([b \in Blocks(body) |-> CallPosition(body, b, body[b].term.fn)],
                      {b \in Blocks(body) : FunctionPath(body[b].term) \cap CallTargets # {}})
    PROVE  CallItems \ AtPlaces(s) = {}
<1> DEFINE hits == {b \in Blocks(body) : FunctionPath(body[b].term) \cap CallTargets # {}}
           names == [b \in 1..Len(body) |-> body[b].term.fn]
<1>1. IInv /\ Projected(body, orig)
  BY DEF FlowIInv
<1>2. body \in Body /\ orig \in Body /\ Tagged(orig)
  BY <1>1, IInvFacts
<1>3. Blocks(body) = 1..Len(body) /\ names \in [1..Len(body) -> Names]
  BY <1>2, BlocksOf, TermFacts DEF Terminator
<1>4. s = Picked([b \in Blocks(body) |-> CallPosition(body, b, names[b])], hits)
  <2>1. [b \in Blocks(body) |-> CallPosition(body, b, body[b].term.fn)]
          = [b \in Blocks(body) |-> CallPosition(body, b, names[b])]
    BY <1>3
  <2>2. QED
    BY <2>1, Zenon
<1> HIDE DEF names
<1>5. ASSUME NEW m \in CallItems PROVE m \in AtPlaces(s)
  <2>1. /\ m \in Locations(orig) /\ IsTerm(orig, m)
        /\ ItemAt(orig, m).kind = "call" /\ ItemAt(orig, m).fn \in CallTargets
    BY DEF CallItems, CallsTarget
  <2>2. PICK b \in 1..Len(body) : /\ body[b].term.at = m
                                  /\ body[b].term.kind = ItemAt(orig, m).kind
                                  /\ body[b].term.fn = ItemAt(orig, m).fn
    BY <1>1, <1>2, <2>1, HomeBlock
  <2>3. body[b].term.kind = "call" /\ body[b].term.fn \in CallTargets
    BY <2>1, <2>2
  <2>4. b \in hits
    BY <1>3, <2>3, Zenon DEF FunctionPath, CallTargets
  <2> HIDE DEF hits
  <2> DEFINE all == Picked([c \in Blocks(body) |-> CallPosition(body, c, names[c])], hits)
  <2>5. \E k \in 1..Len(all) : all[k].at = body[b].term.at
    BY <1>2, <1>3, <2>4, CollectedComplete, ZenonT(60)
  <2>6. s = all
    BY <1>4
  <2> HIDE DEF all
  <2>7. PICK k \in 1..Len(s) : s[k].at = body[b].term.at
    BY <2>5, <2>6, Zenon
  <2>8. QED
    BY <2>2, <2>7, Zenon DEF AtPlaces
<1>6. QED
  BY <1>5

(* CollectDrops misses no drop.                                             *)
LEMMA DropsCollected ==
    ASSUME FlowIInv, NEW s,
           s = Picked([b \in Blocks(body) |-> CallPosition(body, b, body[b].term.of)],
                      {b \in Blocks(body) : DropsGuard(body[b].term)})
    PROVE  DropItems \ AtPlaces(s) = {}
<1> DEFINE hits == {b \in Blocks(body) : DropsGuard(body[b].term)}
           names == [b \in 1..Len(body) |-> body[b].term.of]
<1>1. IInv /\ Projected(body, orig)
  BY DEF FlowIInv
<1>2. body \in Body /\ orig \in Body /\ Tagged(orig)
  BY <1>1, IInvFacts
<1>3. Blocks(body) = 1..Len(body) /\ names \in [1..Len(body) -> Names]
  BY <1>2, BlocksOf, TermFacts DEF Terminator
<1>4. s = Picked([b \in Blocks(body) |-> CallPosition(body, b, names[b])], hits)
  <2>1. [b \in Blocks(body) |-> CallPosition(body, b, body[b].term.of)]
          = [b \in Blocks(body) |-> CallPosition(body, b, names[b])]
    BY <1>3
  <2>2. QED
    BY <2>1, Zenon
<1> HIDE DEF names
<1>5. ASSUME NEW m \in DropItems PROVE m \in AtPlaces(s)
  <2>1. m \in Locations(orig) /\ IsTerm(orig, m) /\ DropsGuard(ItemAt(orig, m))
    BY DEF DropItems
  <2>2. PICK b \in 1..Len(body) : /\ body[b].term.at = m
                                  /\ body[b].term.kind = ItemAt(orig, m).kind
                                  /\ body[b].term.fn = ItemAt(orig, m).fn
                                  /\ body[b].term.of = ItemAt(orig, m).of
    BY <1>1, <1>2, <2>1, HomeBlock
  <2>3. DropsGuard(body[b].term)
    BY <2>1, <2>2, Zenon DEF DropsGuard, FunctionPath
  <2>4. b \in hits
    BY <1>3, <2>3
  <2> HIDE DEF hits
  <2> DEFINE all == Picked([c \in Blocks(body) |-> CallPosition(body, c, names[c])], hits)
  <2>5. \E k \in 1..Len(all) : all[k].at = body[b].term.at
    BY <1>2, <1>3, <2>4, CollectedComplete, ZenonT(60)
  <2>6. s = all
    BY <1>4
  <2> HIDE DEF all
  <2>7. PICK k \in 1..Len(s) : s[k].at = body[b].term.at
    BY <2>5, <2>6, Zenon
  <2>8. QED
    BY <2>2, <2>7, Zenon DEF AtPlaces
<1>6. QED
  BY <1>5

(* Each iteration of the call pass does the call it takes from todo.        *)
LEMMA CallStepsSoFar ==
    ASSUME FlowIInv, HooksSoFar, CollectCalls \/ InstrumentCall \/ CallsDone
    PROVE  DoneSoFar(body', phase', todo')
<1>1. CASE CollectCalls
  <2>1. phase = "collect_calls" /\ phase' = "calls" /\ body' = body
    BY <1>1 DEF CollectCalls
  <2>2. Does(body, MemItems, {}, {}, ReturnItems, EntryEffects)
    BY <2>1 DEF HooksSoFar, DoneSoFar
  <2>3. CallItems \ AtPlaces(todo') = {}
    <3>1. PICK s : s = todo'
      OBVIOUS
    <3>2. CallItems \ AtPlaces(s) = {}
      BY <1>1, <3>1, CallsCollected DEF CollectCalls
    <3>3. QED
      BY <3>1, <3>2
  <2>4. QED
    BY <2>1, <2>2, <2>3, Zenon DEF DoneSoFar, Early
<1>2. CASE InstrumentCall
  <2>1. /\ phase = "calls" /\ phase' = "calls" /\ todo # <<>> /\ todo' = Tail(todo)
    BY <1>2 DEF InstrumentCall
  <2>2. Does(body, MemItems, CallItems \ AtPlaces(todo), {}, ReturnItems, EntryEffects)
    BY <2>1 DEF HooksSoFar, DoneSoFar
  <2>3. Does(body', MemItems, CallItems \ AtPlaces(todo'), {}, ReturnItems, EntryEffects)
    BY <1>2, <2>1, <2>2, CallFits DEF Does, InstrumentCall
  <2>4. QED
    BY <2>1, <2>3 DEF DoneSoFar, Early
<1>3. CASE CallsDone
  <2>1. /\ phase = "calls" /\ body' = body /\ todo = <<>> /\ phase' = "collect_drops"
    BY <1>3 DEF CallsDone
  <2>2. Does(body, MemItems, CallItems, {}, ReturnItems, EntryEffects)
    BY <2>1, NoneAtPlaces, Zenon DEF HooksSoFar, DoneSoFar
  <2>3. QED
    BY <2>1, <2>2 DEF DoneSoFar, Early
<1>4. QED
  BY <1>1, <1>2, <1>3

(* Each iteration of the drop pass does the drop it takes from todo.        *)
LEMMA DropStepsSoFar ==
    ASSUME FlowIInv, HooksSoFar, CollectDrops \/ InstrumentDrop \/ DropsDone
    PROVE  DoneSoFar(body', phase', todo')
<1>1. CASE CollectDrops
  <2>1. phase = "collect_drops" /\ body' = body
    BY <1>1 DEF CollectDrops
  <2>2. Does(body, MemItems, CallItems, {}, ReturnItems, EntryEffects)
    BY <2>1 DEF HooksSoFar, DoneSoFar
  <2>3. CASE phase' = "ice"
    BY <2>3 DEF DoneSoFar, Early
  <2>4. CASE phase' # "ice"
    <3>1. PICK s : s = todo'
      OBVIOUS
    <3>2. /\ phase' = "drops"
          /\ s = Picked([b \in Blocks(body) |-> CallPosition(body, b, body[b].term.of)],
                        {b \in Blocks(body) : DropsGuard(body[b].term)})
      BY <1>1, <2>4, <3>1 DEF CollectDrops
    <3>3. DropItems \ AtPlaces(s) = {}
      BY <3>2, DropsCollected
    <3>4. QED
      BY <2>1, <2>2, <3>1, <3>2, <3>3, Zenon DEF DoneSoFar, Early
  <2>5. QED
    BY <2>3, <2>4
<1>2. CASE InstrumentDrop
  <2>1. /\ phase = "drops" /\ phase' = "drops" /\ todo # <<>> /\ todo' = Tail(todo)
    BY <1>2 DEF InstrumentDrop
  <2>2. Does(body, MemItems, CallItems, DropItems \ AtPlaces(todo), ReturnItems, EntryEffects)
    BY <2>1 DEF HooksSoFar, DoneSoFar
  <2>3. Does(body', MemItems, CallItems, DropItems \ AtPlaces(todo'), ReturnItems, EntryEffects)
    BY <1>2, <2>1, <2>2, DropFits DEF Does, InstrumentDrop
  <2>4. QED
    BY <2>1, <2>3 DEF DoneSoFar, Early
<1>3. CASE DropsDone
  <2>1. /\ phase = "drops" /\ body' = body /\ todo = <<>> /\ phase' = "done"
    BY <1>3 DEF DropsDone
  <2>2. Does(body, MemItems, CallItems, DropItems, ReturnItems, EntryEffects)
    BY <2>1, NoneAtPlaces, Zenon DEF HooksSoFar, DoneSoFar
  <2>3. QED
    BY <2>1, <2>2 DEF DoneSoFar, Early
<1>4. QED
  BY <1>1, <1>2, <1>3

(* Every step of the instrumenter keeps the inductive invariant.            *)
LEMMA NextHooks == HooksIInv /\ [Next]_vars => HooksIInv'
<1> SUFFICES ASSUME HooksIInv, [Next]_vars PROVE HooksIInv'
  OBVIOUS
<1>1. FlowIInv /\ HooksSoFar
  BY DEF HooksIInv
<1>2. FlowIInv'
  BY <1>1, NextFlow
<1>3. UNCHANGED <<orig, lib, owner>>
  BY DEF Next, vars, EntryBefore, EntryAfter, Gates, CollectMem, InstrumentMem, MemDone,
         CollectCalls, InstrumentCall, CallsDone, CollectDrops, InstrumentDrop, DropsDone
<1>4. DoneSoFar(body', phase', todo')
  <2>1. CASE UNCHANGED vars
    BY <1>1, <2>1 DEF HooksSoFar, vars
  <2>2. CASE Next
    BY <1>1, <2>2, EnterSoFar, LeaveSoFar, GatesSoFar, CollectMemSoFar, MemStepsSoFar,
       CallStepsSoFar, DropStepsSoFar DEF Next
  <2>3. QED
    BY <2>1, <2>2
<1>5. HooksSoFar'
  BY <1>3, <1>4, SoFarStays
<1>6. QED
  BY <1>2, <1>5 DEF HooksIInv

-----------------------------------------------------------------------------
(* What the passes give to the items is what HooksAsPromised expects.       *)

(* The parts of what runs before a call or a drop.                          *)
CallBeforeEffects(x) ==
    Append(RefEffects(x.args), Effect(<<"before", x.fn>>, MonitorArgs(x.args), x.unwind))
CallAfterEffects(x) ==
    <<DestRef.effect, Effect(<<"after", x.fn>>,
                             Append(MonitorArgs(x.args), <<"ref", "dest">>), x.unwind)>>
(* The same of a drop.                                                      *)
DropBeforeEffects(x) ==
    Append(<<GuardRef.effect>>, Effect(<<"before", x.of>>, <<<<"ref", "guard">>>>, x.unwind))
DropAfterEffects(x) == <<Effect(<<"after", x.of>>, <<<<"ref", "guard">>>>, x.unwind)>>

(* They are lists of effects.                                               *)
LEMMA PartsTyped ==
    ASSUME NEW x \in Terminator
    PROVE  /\ CallBeforeEffects(x) \in Seq(EffectType) /\ CallAfterEffects(x) \in Seq(EffectType)
           /\ DropBeforeEffects(x) \in Seq(EffectType) /\ DropAfterEffects(x) \in Seq(EffectType)
           /\ RefEffects(x.args) \in Seq(EffectType) /\ <<GuardRef.effect>> \in Seq(EffectType)
<1>1. /\ x.args \in Operands /\ x.unwind \in UnwindAction /\ x.fn \in Names /\ x.of \in Names
  BY DEF Terminator
<1>2. /\ MonitorArgs(x.args) \in Operands
      /\ Append(MonitorArgs(x.args), <<"ref", "dest">>) \in Operands
      /\ <<<<"ref", "guard">>>> \in Operands
  BY <1>1, MonitorArgsType, GuardTypesAreTyped
<1>3. RefEffects(x.args) \in Seq(EffectType)
  BY <1>1, RefEffectsOf
<1> DEFINE a == Effect(<<"before", x.fn>>, MonitorArgs(x.args), x.unwind)
           z == Effect(<<"after", x.fn>>, Append(MonitorArgs(x.args), <<"ref", "dest">>), x.unwind)
           p == Effect(<<"before", x.of>>, <<<<"ref", "guard">>>>, x.unwind)
           q == Effect(<<"after", x.of>>, <<<<"ref", "guard">>>>, x.unwind)
<1>4. "before" \in HookNames /\ "after" \in HookNames
  BY DEF HookNames
<1>5. a \in EffectType /\ z \in EffectType /\ p \in EffectType /\ q \in EffectType
  BY <1>1, <1>2, <1>4, CallEffectTyped
<1> HIDE DEF a, z, p, q
<1>6. DestRef.effect \in EffectType /\ GuardRef.effect \in EffectType
  BY RefStatements
<1>7. <<DestRef.effect, z>> \in Seq(EffectType) /\ <<q>> \in Seq(EffectType)
      /\ <<GuardRef.effect>> \in Seq(EffectType)
  BY <1>5, <1>6
<1>8. ASSUME NEW s \in Seq(EffectType), NEW e \in EffectType PROVE Append(s, e) \in Seq(EffectType)
  OBVIOUS
<1>9. CallAfterEffects(x) \in Seq(EffectType) /\ DropAfterEffects(x) \in Seq(EffectType)
  BY <1>7, Zenon DEF CallAfterEffects, DropAfterEffects, z, q
<1>10. Append(RefEffects(x.args), a) \in Seq(EffectType)
  BY <1>3, <1>5, <1>8
<1>11. Append(<<GuardRef.effect>>, p) \in Seq(EffectType)
  <2>1. PICK g \in Seq(EffectType) : g = <<GuardRef.effect>>
    BY <1>7, Zenon
  <2>2. Append(g, p) \in Seq(EffectType)
    BY <1>5, <1>8
  <2>3. QED
    BY <2>1, <2>2, Zenon
<1>12. QED
  BY <1>3, <1>7, <1>9, <1>10, <1>11, Zenon DEF CallBeforeEffects, DropBeforeEffects, a, p

(* So is a part that is there on a condition.                               *)
LEMMA WhenTyped ==
    ASSUME NEW c, NEW x \in Seq(EffectType)
    PROVE  When(c, x) \in Seq(EffectType)
BY NoEffects DEF When

(* CallLead and the other operators in these parts.                         *)
LEMMA LeadsInParts ==
    ASSUME NEW x
    PROVE  /\ CallLead(x, x.fn) = Joined(When(x.fn \in lib.before, CallBeforeEffects(x)),
                                         When(x.fn \in lib.after, RefEffects(x.args)))
           /\ CallTrail(x, x.fn) = When(x.fn \in lib.after, CallAfterEffects(x))
           /\ DropLead(x, x.of) = Joined(When(x.of \in lib.before, DropBeforeEffects(x)),
                                         When(x.of \in lib.after, <<GuardRef.effect>>))
           /\ DropTrail(x, x.of) = When(x.of \in lib.after, DropAfterEffects(x))
BY Zenon DEF CallLead, CallTrail, DropLead, DropTrail, CallBeforeEffects, CallAfterEffects,
   DropBeforeEffects, DropAfterEffects

(* The items the call pass and the return pass are for.                     *)
IsTarget(x) == x.kind = "call" /\ x.fn \in CallTargets
IsReturn(x) == x.kind = "return" /\ owner.entry /\ "entry_after" \in lib.one

(* What is promised before an item, part by part.                           *)
LEMMA BeforeInParts ==
    ASSUME NEW x
    PROVE  /\ BeforeEffects(x) =
                Joined(Joined(Joined(Joined(
                    When(IsTarget(x) /\ BeforeHook(x.fn), CallBeforeEffects(x)),
                    When(IsTarget(x) /\ AfterHook(x.fn), RefEffects(x.args))),
                    When(DropsGuard(x) /\ BeforeHook(x.of), DropBeforeEffects(x))),
                    When(DropsGuard(x) /\ AfterHook(x.of), <<GuardRef.effect>>)),
                    When(IsReturn(x), EntryHook("entry_after")))
           /\ AfterEffects(x) =
                Joined(When(IsTarget(x) /\ AfterHook(x.fn), CallAfterEffects(x)),
                       When(DropsGuard(x) /\ AfterHook(x.of), DropAfterEffects(x)))
<1>1. BeforeEffects(x) =
                Joined(Joined(Joined(Joined(
                    When(IsTarget(x) /\ BeforeHook(x.fn), CallBeforeEffects(x)),
                    When(IsTarget(x) /\ AfterHook(x.fn), RefEffects(x.args))),
                    When(DropsGuard(x) /\ BeforeHook(x.of), DropBeforeEffects(x))),
                    When(DropsGuard(x) /\ AfterHook(x.of), <<GuardRef.effect>>)),
                    When(IsReturn(x), EntryHook("entry_after")))
  BY Zenon DEF BeforeEffects, Joined, CallBeforeEffects, DropBeforeEffects, IsTarget, IsReturn, EntryHook
<1>2. AfterEffects(x) =
                Joined(When(IsTarget(x) /\ AfterHook(x.fn), CallAfterEffects(x)),
                       When(DropsGuard(x) /\ AfterHook(x.of), DropAfterEffects(x)))
  BY Zenon DEF AfterEffects, Joined, CallAfterEffects, DropAfterEffects, IsTarget
<1>3. QED
  BY <1>1, <1>2

(* A part under two conditions.                                             *)
LEMMA WhenBoth ==
    ASSUME NEW p, NEW q, NEW r, NEW s, NEW x, NEW y
    PROVE  /\ p => When(p /\ q, x) = When(q, x)
           /\ ~p => When(p /\ q, x) = <<>>
BY DEF When

(* What each pass gives to a terminator of the program is what the hooks    *)
(* promise of it.                                                           *)
LEMMA LayersMean ==
    ASSUME orig \in Body, NEW m \in Locations(orig), IsTerm(orig, m), NEW x, x = ItemAt(orig, m)
    PROVE  /\ Given(Locations(orig), CallItems, CallLayer)[m] =
                Joined(When(IsTarget(x) /\ BeforeHook(x.fn), CallBeforeEffects(x)),
                       When(IsTarget(x) /\ AfterHook(x.fn), RefEffects(x.args)))
           /\ Given(Locations(orig), CallItems, CallTail)[m] =
                When(IsTarget(x) /\ AfterHook(x.fn), CallAfterEffects(x))
           /\ Given(Locations(orig), DropItems, DropLayer)[m] =
                Joined(When(DropsGuard(x) /\ BeforeHook(x.of), DropBeforeEffects(x)),
                       When(DropsGuard(x) /\ AfterHook(x.of), <<GuardRef.effect>>))
           /\ Given(Locations(orig), DropItems, DropTail)[m] =
                When(DropsGuard(x) /\ AfterHook(x.of), DropAfterEffects(x))
           /\ Given(Locations(orig), ReturnItems, ReturnLayer)[m] =
                When(IsReturn(x), EntryHook("entry_after"))
<1>1. /\ m \in CallItems <=> IsTarget(x) /\ Instrumentable(owner)
      /\ m \in DropItems <=> DropsGuard(x) /\ Instrumentable(owner)
      /\ m \in ReturnItems <=> IsReturn(x)
  BY DEF CallItems, DropItems, ReturnItems, IsTarget, IsReturn, CallsTarget
<1>2. /\ CallLayer[m] = CallLead(x, x.fn) /\ CallTail[m] = CallTrail(x, x.fn)
      /\ DropLayer[m] = DropLead(x, x.of) /\ DropTail[m] = DropTrail(x, x.of)
      /\ ReturnLayer[m] = EntryHook("entry_after")
  BY DEF CallLayer, CallTail, DropLayer, DropTail, ReturnLayer
<1>3. \A done, effects : Given(Locations(orig), done, effects)[m]
                            = IF m \in done THEN effects[m] ELSE <<>>
  BY DEF Given
<1>4. Joined(<<>>, <<>>) = <<>>
  BY NoEffects, JoinedFacts, Zenon
<1>5. /\ BeforeHook(x.fn) <=> Instrumentable(owner) /\ x.fn \in lib.before
      /\ AfterHook(x.fn) <=> Instrumentable(owner) /\ x.fn \in lib.after
      /\ BeforeHook(x.of) <=> Instrumentable(owner) /\ x.of \in lib.before
      /\ AfterHook(x.of) <=> Instrumentable(owner) /\ x.of \in lib.after
  BY DEF BeforeHook, AfterHook
<1> DEFINE cb == CallBeforeEffects(x)
           ca == CallAfterEffects(x)
           db == DropBeforeEffects(x)
           da == DropAfterEffects(x)
           re == RefEffects(x.args)
           gr == <<GuardRef.effect>>
<1>6. /\ CallLead(x, x.fn) = Joined(When(x.fn \in lib.before, cb), When(x.fn \in lib.after, re))
      /\ CallTrail(x, x.fn) = When(x.fn \in lib.after, ca)
      /\ DropLead(x, x.of) = Joined(When(x.of \in lib.before, db), When(x.of \in lib.after, gr))
      /\ DropTrail(x, x.of) = When(x.of \in lib.after, da)
  BY LeadsInParts
<1> HIDE DEF cb, ca, db, da, re, gr
<1>7. Given(Locations(orig), CallItems, CallLayer)[m] =
        Joined(When(IsTarget(x) /\ BeforeHook(x.fn), cb), When(IsTarget(x) /\ AfterHook(x.fn), re))
  BY <1>1, <1>2, <1>3, <1>4, <1>5, <1>6 DEF When
<1>8. Given(Locations(orig), CallItems, CallTail)[m] = When(IsTarget(x) /\ AfterHook(x.fn), ca)
  BY <1>1, <1>2, <1>3, <1>5, <1>6 DEF When
<1>9. Given(Locations(orig), DropItems, DropLayer)[m] =
        Joined(When(DropsGuard(x) /\ BeforeHook(x.of), db), When(DropsGuard(x) /\ AfterHook(x.of), gr))
  BY <1>1, <1>2, <1>3, <1>4, <1>5, <1>6 DEF When
<1>10. Given(Locations(orig), DropItems, DropTail)[m] = When(DropsGuard(x) /\ AfterHook(x.of), da)
  BY <1>1, <1>2, <1>3, <1>5, <1>6 DEF When
<1>11. Given(Locations(orig), ReturnItems, ReturnLayer)[m] = When(IsReturn(x), EntryHook("entry_after"))
  BY <1>1, <1>2, <1>3 DEF When
<1>12. QED
  BY <1>7, <1>8, <1>9, <1>10, <1>11, Zenon DEF cb, ca, db, da, re, gr

(* Five parts in a row, grouped as the passes add them.                     *)
LEMMA FiveJoined ==
    ASSUME NEW t \in Seq(EffectType), NEW u \in Seq(EffectType), NEW v \in Seq(EffectType),
           NEW w \in Seq(EffectType), NEW z \in Seq(EffectType)
    PROVE  /\ Joined(Joined(Joined(Joined(t, u), v), w), z)
                = Joined(Joined(Joined(t, u), Joined(v, w)), z)
           /\ Joined(Joined(Joined(t, u), v), w) = Joined(t, Joined(Joined(u, v), w))
<1>1. Joined(t, u) \in Seq(EffectType) /\ Joined(u, v) \in Seq(EffectType)
  BY JoinedFacts
<1>2. Joined(Joined(Joined(t, u), v), w) = Joined(Joined(t, u), Joined(v, w))
  BY <1>1, JoinedApart
<1>3. Joined(Joined(Joined(t, u), v), w) = Joined(Joined(t, Joined(u, v)), w)
  BY JoinedApart
<1>4. Joined(Joined(t, Joined(u, v)), w) = Joined(t, Joined(Joined(u, v), w))
  BY <1>1, JoinedApart
<1>5. QED
  BY <1>2, <1>3, <1>4

(* What the passes give behind an item is what is promised after it.        *)
LEMMA BackMeans ==
    ASSUME orig \in Body, NEW m \in Locations(orig)
    PROVE  RearOf(CallItems, DropItems)[m]
             = When(IsTerm(orig, m), AfterEffects(ItemAt(orig, m)))
<1> DEFINE x == ItemAt(orig, m)
           e == Given(Locations(orig), CallItems, CallTail)[m]
           f == Given(Locations(orig), DropItems, DropTail)[m]
<1>1. RearOf(CallItems, DropItems)[m] = Joined(e, f)
  BY DEF RearOf, Backed
<1>2. CASE IsTerm(orig, m)
  <2>1. Joined(e, f) = AfterEffects(x)
    BY <1>2, LayersMean, BeforeInParts
  <2>2. QED
    BY <1>1, <1>2, <2>1 DEF When
<1>3. CASE ~IsTerm(orig, m)
  <2>1. e = <<>> /\ f = <<>>
    BY <1>3 DEF Given, CallItems, DropItems
  <2>2. Joined(<<>>, <<>>) = <<>>
    BY NoEffects, JoinedFacts, Zenon
  <2>3. QED
    BY <1>1, <1>3, <2>1, <2>2 DEF When
<1>4. QED
  BY <1>2, <1>3

(* What the memory pass gives an item is what is promised of its accesses.  *)
LEMMA AccessMeans ==
    ASSUME orig \in Body, NEW m \in Locations(orig)
    PROVE  Given(Locations(orig), MemItems, MemLayer)[m] = MemEffects(ItemAt(orig, m))
<1> DEFINE x == ItemAt(orig, m)
           r == Reads(x)
           w == Writes(x)
           a == AddrEffects("mem_read", r)
           b == AddrEffects("mem_write", w)
           c == MemHookEffects("mem_write", w)
           d == MemHookEffects("mem_read", r)
<1>1. r \in Seq(Names) /\ w \in Seq(Names)
  BY UsesTyped
<1>2. MemEffects(x) = When(Hooks({"mem_read", "mem_write"}), ((a \o b) \o c) \o d)
  BY DEF MemEffects, AddrEffects, MemHookEffects, MemHookEffect
<1>3. /\ a \in Seq(EffectType) /\ b \in Seq(EffectType)
      /\ c \in Seq(EffectType) /\ d \in Seq(EffectType)
  BY <1>1, MemEffectsTyped
<1>4. AccessLead(r, w) = Joined(Joined(a, b), Joined(c, d))
  BY DEF AccessLead
<1>5. MemLayer[m] = AccessLead(r, w)
  BY DEF MemLayer
<1>6. r = <<>> => a = <<>> /\ d = <<>>
  BY DEF AddrEffects, MemHookEffects
<1>7. w = <<>> => b = <<>> /\ c = <<>>
  BY DEF AddrEffects, MemHookEffects
<1>8. m \in MemItems <=> Hooks({"mem_read", "mem_write"}) /\ (r # <<>> \/ w # <<>>)
  BY DEF MemItems, Dereferences
<1>9. Given(Locations(orig), MemItems, MemLayer)[m] = IF m \in MemItems THEN MemLayer[m] ELSE <<>>
  BY DEF Given
<1> HIDE DEF r, w, a, b, c, d
<1>10. Joined(Joined(a, b), Joined(c, d)) = ((a \o b) \o c) \o d
  <2>1. Joined(a, b) \in Seq(EffectType)
    BY <1>3, JoinedFacts
  <2>2. Joined(Joined(Joined(a, b), c), d) = Joined(Joined(a, b), Joined(c, d))
    BY <1>3, <2>1, JoinedApart
  <2>3. QED
    BY <2>2 DEF Joined
<1>11. Joined(Joined(<<>>, <<>>), Joined(<<>>, <<>>)) = <<>>
  BY NoEffects, JoinedFacts, Zenon
<1> DEFINE all == Joined(Joined(a, b), Joined(c, d))
<1>12. r = <<>> /\ w = <<>> => all = <<>>
  BY <1>6, <1>7, <1>11
<1>13. MemEffects(x) = When(Hooks({"mem_read", "mem_write"}), all) /\ MemLayer[m] = all
  BY <1>2, <1>4, <1>5, <1>10
<1> HIDE DEF all
<1>14. QED
  BY <1>8, <1>9, <1>12, <1>13 DEF When

(* What the passes give in front of an item is what is promised before it.  *)
LEMMA FrontMeans ==
    ASSUME orig \in Body, NEW m \in Locations(orig)
    PROVE  FrontOf(MemItems, CallItems, DropItems, ReturnItems)[m]
             = Joined(MemEffects(ItemAt(orig, m)),
                      When(IsTerm(orig, m), BeforeEffects(ItemAt(orig, m))))
<1> DEFINE x == ItemAt(orig, m)
           a == Given(Locations(orig), MemItems, MemLayer)[m]
           c == Given(Locations(orig), CallItems, CallLayer)[m]
           d == Given(Locations(orig), DropItems, DropLayer)[m]
           r == Given(Locations(orig), ReturnItems, ReturnLayer)[m]
<1>1. FrontOf(MemItems, CallItems, DropItems, ReturnItems)[m] = Joined(Joined(Joined(a, c), d), r)
  BY DEF FrontOf, Layered
<1>2. a = MemEffects(x)
  BY AccessMeans
<1>3. /\ a \in Seq(EffectType) /\ c \in Seq(EffectType)
      /\ d \in Seq(EffectType) /\ r \in Seq(EffectType)
  <2>1. /\ Given(Locations(orig), MemItems, MemLayer) \in EffectsOn(Locations(orig))
        /\ Given(Locations(orig), CallItems, CallLayer) \in EffectsOn(Locations(orig))
        /\ Given(Locations(orig), DropItems, DropLayer) \in EffectsOn(Locations(orig))
        /\ Given(Locations(orig), ReturnItems, ReturnLayer) \in EffectsOn(Locations(orig))
    BY FrontTypes
  <2>2. QED
    BY <2>1 DEF EffectsOn
<1>4. CASE IsTerm(orig, m)
  <2>1. PICK y \in Terminator : y = x
    BY <1>4, BaredFacts
  <2> DEFINE t == When(IsTarget(y) /\ BeforeHook(y.fn), CallBeforeEffects(y))
             u == When(IsTarget(y) /\ AfterHook(y.fn), RefEffects(y.args))
             v == When(DropsGuard(y) /\ BeforeHook(y.of), DropBeforeEffects(y))
             w == When(DropsGuard(y) /\ AfterHook(y.of), <<GuardRef.effect>>)
  <2>2. /\ t \in Seq(EffectType) /\ u \in Seq(EffectType)
        /\ v \in Seq(EffectType) /\ w \in Seq(EffectType)
    <3>1. t \in Seq(EffectType) /\ u \in Seq(EffectType) /\ v \in Seq(EffectType)
      BY PartsTyped, WhenTyped
    <3>2. <<GuardRef.effect>> \in Seq(EffectType)
      BY PartsTyped
    <3>3. PICK g \in Seq(EffectType) : g = <<GuardRef.effect>>
      BY <3>2, Zenon
    <3>4. When(DropsGuard(y) /\ AfterHook(y.of), g) \in Seq(EffectType)
      BY WhenTyped
    <3>5. QED
      BY <3>1, <3>3, <3>4, Zenon
  <2>3. c = Joined(t, u) /\ d = Joined(v, w) /\ r = When(IsReturn(y), EntryHook("entry_after"))
    BY <1>4, <2>1, LayersMean, Zenon
  <2>4. BeforeEffects(y) = Joined(Joined(Joined(Joined(t, u), v), w), r)
    BY <2>3, BeforeInParts, Zenon
  <2> HIDE DEF t, u, v, w, a, c, d, r
  <2>5. BeforeEffects(y) = Joined(Joined(c, d), r)
    BY <1>3, <2>2, <2>3, <2>4, FiveJoined
  <2>6. Joined(Joined(Joined(a, c), d), r) = Joined(a, Joined(Joined(c, d), r))
    BY <1>3, FiveJoined
  <2>7. QED
    BY <1>1, <1>2, <1>4, <2>1, <2>5, <2>6 DEF When
<1>5. CASE ~IsTerm(orig, m)
  <2>1. c = <<>> /\ d = <<>> /\ r = <<>>
    BY <1>5 DEF Given, CallItems, DropItems, ReturnItems
  <2> HIDE DEF a, c, d, r
  <2>2. Joined(a, <<>>) = a
    BY <1>3, NoEffects, JoinedFacts, Zenon
  <2>3. QED
    BY <1>1, <1>2, <1>5, <2>1, <2>2 DEF When
<1>6. QED
  BY <1>4, <1>5

(* Once all passes are done, each edge runs what HooksAsPromised expects.   *)
LEMMA AsPromised ==
    ASSUME HooksIInv
    PROVE  HooksAsPromised
<1> SUFFICES ASSUME phase = "done", NEW e \in Edges(body)
             PROVE  e.effects = ExpectedEffects(e)
  BY DEF HooksAsPromised
<1> DEFINE F == FrontOf(MemItems, CallItems, DropItems, ReturnItems)
           B == RearOf(CallItems, DropItems)
<1>1. FlowIInv /\ Does(body, MemItems, CallItems, DropItems, ReturnItems, EntryEffects)
  BY DEF HooksIInv, HooksSoFar, DoneSoFar
<1>2. orig \in Body /\ Tagged(orig) /\ WellFormed(orig)
  BY <1>1, IInvFacts DEF FlowIInv
<1>3. Carries(body, orig, F, B, EntryEffects)
  BY <1>1, EntryTyped, DoesCarries, Zenon
<1> HIDE DEF F, B
<1>4. /\ e.to \in Locations(orig) /\ (e.how = "normal" => e.from \in Locations(orig))
      /\ e.how \in {"start", "normal", "unwind"} /\ e.effects = OnEdge(e, F, B, EntryEffects)
  BY <1>2, <1>3, HookedEdges
<1> DEFINE before == Joined(MemEffects(ItemAt(orig, e.to)),
                            When(IsTerm(orig, e.to), BeforeEffects(ItemAt(orig, e.to))))
           after == When(IsTerm(orig, e.from), AfterEffects(ItemAt(orig, e.from)))
<1>5. F[e.to] = before
  BY <1>2, <1>4, FrontMeans DEF F
<1>6. e.how = "normal" => B[e.from] = after
  BY <1>2, <1>4, BackMeans DEF B
<1>7. ExpectedEffects(e) =
        Joined(IF e.how = "start" THEN EntryEffects
               ELSE When(e.how = "normal" /\ IsTerm(orig, e.from), AfterEffects(ItemAt(orig, e.from))),
               before)
  BY Zenon DEF ExpectedEffects, Joined
<1> HIDE DEF before
<1>8. CASE e.how = "start"
  BY <1>4, <1>5, <1>7, <1>8 DEF OnEdge
<1>9. CASE e.how = "normal"
  BY <1>4, <1>5, <1>6, <1>7, <1>9 DEF OnEdge, When
<1>10. CASE e.how = "unwind"
  BY <1>4, <1>5, <1>7, <1>10 DEF OnEdge, When
<1>11. QED
  BY <1>4, <1>8, <1>9, <1>10

(* Once our_optimized_mir has handled a body (inject_for_body and all that  *)
(* it calls), going from any item of the original body to the next runs     *)
(* exactly the hooks the monitor library has for the two items, in the      *)
(* promised order, with the promised operands and unwind actions, and no    *)
(* other hook: on every edge, for every body, library and owner.            *)
THEOREM HooksKept == Spec => []HooksAsPromised
<1>1. Init => HooksIInv
  BY InitFlow, InitHooks DEF HooksIInv
<1>2. HooksIInv /\ [Next]_vars => HooksIInv'
  BY NextHooks
<1>3. HooksIInv => HooksAsPromised
  BY AsPromised
<1>4. QED
  BY <1>1, <1>2, <1>3, PTL DEF Spec
=============================================================================
