-------------------------- MODULE MCCompileSession --------------------------
(* Instances of CompileSession: a library crate and a binary that uses it.  *)
EXTENDS CompileSession, TLC

CONSTANTS lib, co, helper, main    \* the bodies

TwoCrates == 2
FourBodies == {lib, co, helper, main}
HomeOf == (lib :> 1) @@ (co :> 1) @@ (helper :> 2) @@ (main :> 2)
(* main inlines helper, which inlines lib; co is a coroutine that inlines   *)
(* lib as well, so that lib may be asked for early.                         *)
InlineTree == (lib :> {}) @@ (co :> {lib}) @@ (helper :> {lib}) @@ (main :> {helper})
Coroutines == {co, lib}

Crate(input, entry) ==
    [input |-> input, outBuild |-> FALSE, admitted |-> TRUE, filtered |-> FALSE,
     entry |-> entry, broken |-> "never"]

Libraries ==
    {Crate(i, NoEntry) : i \in {"file", "registry"}} \cup
    {[Crate("file", NoEntry) EXCEPT !.filtered = TRUE],
     [Crate("file", NoEntry) EXCEPT !.admitted = FALSE]}
Binaries ==
    {Crate("file", e) : e \in {NoEntry, main, Elsewhere}} \cup
    {Crate("stdin", main), Crate("monitor_lib", NoEntry),
     [Crate("file", main) EXCEPT !.filtered = TRUE],
     [Crate("file", main) EXCEPT !.admitted = FALSE],
     [Crate("file", main) EXCEPT !.outBuild = TRUE]} \cup
    {[Crate("file", main) EXCEPT !.broken = w] : w \in {"expansion", "analysis", "delayed"}} \cup
    {[Crate("stdin", main) EXCEPT !.broken = w] : w \in {"expansion", "analysis", "delayed"}}

Builds == {[k \in 1..2 |-> IF k = 1 THEN l ELSE b] : l \in Libraries, b \in Binaries}
AllFlags == [beRustc : BOOLEAN, level : {NotGiven, 0, 2, 3}, release : BOOLEAN]
PlainFlags == {[beRustc |-> FALSE, level |-> NotGiven, release |-> r] : r \in BOOLEAN}
=============================================================================
