-------------------------------- MODULE Mir --------------------------------
(* The part of rustc the instrumenter edits: a mir::Body as a control-flow  *)
(* graph, and MirPatch.  rustc is not under src/, so every definition here  *)
(* is external: it is what the instrumenter's code relies on.               *)
(*                                                                          *)
(* A body is a sequence of blocks [stmts, term, cleanup]; bb0 is block 1.   *)
(* Every item (statement or terminator) carries                             *)
(*   at    the place it had in the body rustc produced, <<block, item>>,    *)
(*         or Nowhere for what the instrumenter inserted (a ghost: it is    *)
(*         how the properties recognise the user's code after surgery);     *)
(*   uses  the places it dereferences, <<context, pointer>> in visit order. *)
EXTENDS Integers, Sequences, SequencesExt, FiniteSets

CONSTANT Names   \* of kinds, functions, types, places, modes and contexts

Nowhere == <<>>

Continue    == [act |-> "continue",  block |-> 0]
Terminate   == [act |-> "terminate", block |-> 0]
CleanupTo(b) == [act |-> "cleanup",  block |-> b]

(* What inserted code does when it runs: take an address, borrow, call a    *)
(* hook.  `on` lists operands as <<mode, name>>; `unwind` is where a panic  *)
(* of it would go.                                                          *)
Effect(what, on, unwind) == [what |-> what, on |-> on, unwind |-> unwind]
NoEffect == Effect(<<>>, <<>>, Continue)

InsertedStmt(what, on) ==
    [at |-> Nowhere, uses |-> <<>>, effect |-> Effect(what, on, Continue)]

(* A call of the hook `fn` wired to the callee or type `of` ("" if none).   *)
HookCall(fn, of, args, to, unwind) ==
    [at |-> Nowhere, kind |-> "call", fn |-> fn, of |-> of, args |-> args,
     to |-> to, unwind |-> unwind, uses |-> <<>>]
HookEffect(call) == Effect(<<call.fn, call.of>>, call.args, call.unwind)

(* The words the instrumenter writes into a body itself.                    *)
Words ==
    {"", "call", "entry_before", "entry_after", "mem_read", "mem_write", "before", "after",
     "addr_of", "addr", "deref", "copy", "ref", "ref_mut", "place", "dest", "guard"}
ASSUME NamesAssumption == Words \subseteq Names

(* What a body consists of: statements and terminators with their operands  *)
(* and uses, each a mode or context and a name.                             *)
Operands == Seq(Names \X Names)
UnwindAction == [act : {"continue", "terminate", "cleanup"}, block : Nat]
Statement ==
    [at : Seq(Nat), uses : Operands,
     effect : [what : Seq(Names), on : Operands, unwind : UnwindAction]]
Terminator ==
    [at : Seq(Nat), kind : Names, fn : Names, of : Names, args : Operands,
     to : SUBSET Nat, unwind : UnwindAction, uses : Operands]
BasicBlock == [stmts : Seq(Statement), term : Terminator, cleanup : BOOLEAN]
Body == Seq(BasicBlock)

(* MirPatch::apply for the patches the instrumenter builds: append blocks,  *)
(* replace the terminator of one block, add statements at its end.          *)
Apply(body, b, stmts, term, new) ==
    LET edited == [body[b] EXCEPT !.stmts = @ \o stmts, !.term = term]
    IN  [body EXCEPT ![b] = edited] \o new

-----------------------------------------------------------------------------

Blocks(body) == DOMAIN body
ItemsOf(blk) == Append(blk.stmts, blk.term)
Locations(body) ==
    UNION {{<<b, i>> : i \in DOMAIN ItemsOf(body[b])} : b \in Blocks(body)}
ItemAt(body, loc) == ItemsOf(body[loc[1]])[loc[2]]
IsTerm(body, loc) == loc[2] = Len(body[loc[1]].stmts) + 1

(* Every location whose item is the user's, at the place rustc gave it.     *)
Tag(raw) ==
    [b \in DOMAIN raw |->
        [cleanup |-> raw[b].cleanup,
         stmts   |-> [i \in DOMAIN raw[b].stmts |->
                        [at |-> <<b, i>>, uses |-> raw[b].stmts[i],
                         effect |-> NoEffect]],
         term    |-> [at |-> <<b, Len(raw[b].stmts) + 1>>] @@ raw[b].term]]

(* From a location, the user's item that runs next and the effects of the   *)
(* inserted code that runs before it.                                       *)
Reach(body) ==
    LET reach[loc \in Locations(body)] ==
          LET item == ItemAt(body, loc)
              after(effect, next) ==
                  [reach[next] EXCEPT !.effects = <<effect>> \o @]
          IN  IF item.at # Nowhere
                THEN [to |-> item.at, effects |-> <<>>]
              ELSE IF IsTerm(body, loc)
                THEN after(HookEffect(item), <<CHOOSE t \in item.to : TRUE, 1>>)
              ELSE after(item.effect, <<loc[1], loc[2] + 1>>)
    IN reach

Edge(from, how, reached) ==
    [from |-> from, how |-> how, to |-> reached.to, effects |-> reached.effects]

(* The control-flow graph of the user's items: an edge per possible next    *)
(* item, labelled with what the inserted code does on the way.              *)
Edges(body) ==
    LET reach == Reach(body)
        edgesFrom(loc) ==
          LET item == ItemAt(body, loc) IN
          IF item.at = Nowhere THEN {}
          ELSE IF ~IsTerm(body, loc)
            THEN {Edge(item.at, "normal", reach[<<loc[1], loc[2] + 1>>])}
          ELSE {Edge(item.at, "normal", reach[<<t, 1>>]) : t \in item.to} \cup
               (IF item.unwind.act = "cleanup"
                  THEN {Edge(item.at, "unwind", reach[<<item.unwind.block, 1>>])}
                  ELSE {})
    IN {Edge(Nowhere, "start", reach[<<1, 1>>])} \cup
       UNION {edgesFrom(loc) : loc \in Locations(body)}

Bare(edges) == {[from |-> e.from, how |-> e.how, to |-> e.to] : e \in edges}

(* What rustc guarantees of a body it hands to optimized_mir, and expects   *)
(* back: targets exist, nothing jumps to the start block, unwinding enters  *)
(* cleanup blocks and nothing leaves them; a return moves the return place  *)
(* out and dereferences nothing.                                            *)
LeavesCleanup(body) ==
    {e \in Blocks(body) \X Blocks(body) :
        e[2] \in body[e[1]].term.to /\ body[e[1]].cleanup /\ ~body[e[2]].cleanup}

WellFormed(body) ==
    /\ body # <<>>
    /\ \A b \in Blocks(body) :
         /\ body[b].term.to \subseteq Blocks(body) \ {1}
         /\ body[b].term.unwind.act = "cleanup" =>
              /\ body[b].term.unwind.block \in Blocks(body) \ {1}
              /\ body[body[b].term.unwind.block].cleanup
              /\ ~body[b].cleanup
         /\ \A t \in body[b].term.to : body[t].cleanup => body[b].cleanup
         /\ body[b].term.kind = "return" => body[b].term.uses = <<>>
    /\ LeavesCleanup(body) = {}

(* A body no one has edited, and operands with one type to a name.          *)
Tagged(body) ==
    /\ \A loc \in Locations(body) : ItemAt(body, loc).at = loc
    /\ \A b \in Blocks(body) : \A j, k \in DOMAIN body[b].term.args :
          body[b].term.args[j][2] = body[b].term.args[k][2] =>
              body[b].term.args[j][1] = body[b].term.args[k][1]
=============================================================================
