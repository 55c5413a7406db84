------------------------- MODULE MCBodyInstrumenter -------------------------
(* Small bodies, monitor libraries and owners for BodyInstrumenter.         *)
EXTENDS BodyInstrumenter, TLC

AllNames == STRING

Term(kind, fn, of, args, to, unwind, uses) ==
    [kind |-> kind, fn |-> fn, of |-> of, args |-> args, to |-> to,
     unwind |-> unwind, uses |-> uses]
Call(fn, of, args, to, unwind, uses) == Term("call", fn, of, args, to, unwind, uses)
Drop(ty, to, unwind, uses) == Term("drop", "", ty, <<>>, to, unwind, uses)
Return == Term("return", "", "", <<>>, {}, Continue, <<>>)
Resume == Term("resume", "", "", <<>>, {}, Continue, <<>>)
Switch(to) == Term("switch", "", "", <<>>, to, Continue, <<>>)
Block(stmts, term) == [stmts |-> stmts, term |-> term, cleanup |-> FALSE]
Cleanup(stmts, term) == [stmts |-> stmts, term |-> term, cleanup |-> TRUE]

Self == <<"ptr", "self">>
Calls ==
    {<<"Mutex::lock", "", <<Self>>>>, <<"Mutex::try_lock", "", <<Self>>>>,
     <<"Condvar::wait", "", <<Self, <<"val", "guard">>>>>>,
     <<"Condvar::wait_timeout", "", <<Self, <<"val", "guard">>, <<"const", "dur">>>>>>,
     <<"std::mem::drop", "MutexGuard", <<<<"val", "guard">>>>>>,
     <<"std::mem::drop", "Vec", <<<<"val", "vec">>>>>>,
     <<"fn pointer", "", <<>>>>,
     <<"std::ptr::drop_in_place", "MutexGuard", <<Self>>>>}

(* A function that calls, loops, drops what it got, and unwinds through  *)
(* a drop: bb0 -> bb1 (call) -> bb2 (drop) -> bb3 (switch back to bb1, or   *)
(* on to a return), cleanup bb5 (drop) -> bb6.                                      *)
ControlBody(call, callUses, dropped, unwound) ==
    Tag(<<Block(<<<<>>>>, Switch({2})),
          Block(<<<<<<"Store", "p">>>>>>,
                Call(call[1], call[2], call[3], {3}, CleanupTo(6), callUses)),
          Block(<<>>, Drop(dropped, {4}, CleanupTo(6), <<>>)),
          Block(<<<<<<"Copy", "q">>>>>>, Switch({2, 5})),
          Block(<<<<>>>>, Return),
          Cleanup(<<<<<<"Store", "p">>>>>>, Drop(unwound, {7}, Terminate, <<>>)),
          Cleanup(<<>>, Resume)>>)

ControlBodies ==
    {ControlBody(c, u, d, w) :
        c \in Calls, u \in {<<>>, <<<<"Copy", "q">>, <<"Call", "p">>>>},
        d \in {"MutexGuard", "RwLockReadGuard", "Vec"},
        w \in {"MutexGuard", "Vec"}}

(* Two blocks of accesses, any mixture of them per location, the second a   *)
(* loop onto itself.                                                        *)
UseLists == {<<>>, <<<<"Copy", "p">>>>, <<<<"Store", "p">>>>,
             <<<<"Store", "p">>, <<"Move", "q">>>>, <<<<"SharedBorrow", "p">>>>}
TermUses == {<<>>, <<<<"Inspect", "p">>>>, <<<<"Copy", "p">>, <<"Copy", "q">>>>}
MemoryBodies ==
    {Tag(<<Block(<<s1, s2>>, Switch({2})),
           Block(<<s3, s4>>, [Switch({2, 3}) EXCEPT !.uses = u]),
           Block(<<s1>>, Return)>>) :
        s1 \in UseLists, s2 \in UseLists, s3 \in UseLists, s4 \in UseLists, u \in TermUses}

AllBodies == ControlBodies \cup MemoryBodies

Entry == {"entry_before", "entry_after"}
Mem == {"mem_read", "mem_write"}
Lib(one, before, after) == [one |-> one, before |-> before, after |-> after]
(* The hooks this_is_our_monitor_function defines.                          *)
ShippedLib == Lib(Entry \cup Mem, {"Mutex::lock", "Mutex::try_lock"},
                  {"Mutex::lock", "Mutex::try_lock"})
EveryHook == CallTargets \cup GuardTypes
FullLib == Lib(Entry \cup Mem, EveryHook, EveryHook)
HalfLib == Lib({"entry_after", "mem_read"}, {"Mutex::lock", "MutexGuard"},
               {"Condvar::wait", "RwLockReadGuard"})
AllLibs == {ShippedLib, FullLib, HalfLib}

Owner(entry, kind, filtered) == [entry |-> entry, kind |-> kind, filtered |-> filtered]
AllOwners == {Owner(TRUE, "fn", FALSE), Owner(FALSE, "fn", FALSE),
              Owner(TRUE, "fn", TRUE), Owner(FALSE, "promoted", FALSE)}
=============================================================================
