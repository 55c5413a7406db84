--------------------------- MODULE MCInputFilter ---------------------------
(* Filters over three crates: lists of up to four entries, every regular    *)
(* expression there is (by what it matches).                                *)
EXTENDS InputFilter

ThreeCrates == {"app", "core", "util"}
SomeEntries == {<<c>> : c \in ThreeCrates} \cup {<<" ", "core">>}
SomeValues ==
    {[form |-> f] : f \in {"unset", "invalid"}} \cup
    {[form |-> "list", entries |-> s] : s \in UNION {[1..n -> SomeEntries] : n \in 1..4}} \cup
    {[form |-> "regex", matches |-> m] : m \in SUBSET ThreeCrates}
=============================================================================
