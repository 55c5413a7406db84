-------------------------- MODULE MCMonitorsFinder --------------------------
(* Structs of two fields and lists of two crates for MonitorsFinder.        *)
EXTENDS MonitorsFinder

Marker(value) == [path |-> "monitor_defpath", value |-> value]
Attrs == {Marker("p"), Marker("q"), Marker(NoString),
          [path |-> "a::monitor_defpath", value |-> "p"], [path |-> "other", value |-> "p"]}
AttrLists == UNION {[1..n -> Attrs] : n \in 0..2}
NamedStructs ==
    {<<[name |-> "f", attrs |-> a], [name |-> "g", attrs |-> b]>> : a, b \in AttrLists}
TupleStructs ==
    {<<[name |-> NoName, attrs |-> <<Marker(v)>>]>> : v \in {"p", NoString}}
SomeStructs == NamedStructs \cup TupleStructs

Lib == MONITORS_LIB_CRATE_NAME
Fn(path) == [root |-> Lib, path |-> path, kind |-> "Fn"]
CrateOf(name, local, defs) == [name |-> name, local |-> local, defs |-> defs]
SomeCrates ==
    {CrateOf(Lib, FALSE, <<Fn("p"), Fn("m::p"), Fn("q")>>),
     CrateOf(Lib, FALSE, <<Fn("q"), [Fn("p") EXCEPT !.kind = "Static"], Fn("r")>>),
     CrateOf(Lib, FALSE, <<[Fn("p") EXCEPT !.root = "renamed"], [Fn("q") EXCEPT !.kind = "AssocFn"]>>),
     CrateOf(Lib, TRUE, <<Fn("p")>>),
     CrateOf("app", FALSE, <<[Fn("p") EXCEPT !.root = "app"], Fn("q")>>)}
SomeCrateLists == UNION {[1..n -> SomeCrates] : n \in 0..2}
=============================================================================
