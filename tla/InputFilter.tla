---------------------------- MODULE InputFilter ----------------------------
(* input_filter: which crates of a build SOLCON_INPUT_FILTER lets through.  *)
(* Every compile session is a process of its own that builds FILTER from    *)
(* the environment when should_process is first called.                     *)
EXTENDS Integers, Sequences

CONSTANTS
    Crates,     \* the names of the crates of the build
    Values      \* what the variable may be, see ValueForms

(* "unset"; "list", a text in brackets: its entries, an entry being the     *)
(* blanks before a name and the name; "regex": the crates it matches;       *)
(* "invalid": neither in brackets nor a regular expression.                 *)
Entries == {<<c>> : c \in Crates} \cup {<<" ", c>> : c \in Crates}
ValueForms ==
    [form : {"unset", "invalid"}] \cup
    [form : {"list"}, entries : Seq(Entries)] \cup
    [form : {"regex"}, matches : SUBSET Crates]

ASSUME FilterAssumption ==
    /\ Values \subseteq ValueForms
    /\ \A v \in Values : v.form = "list" => v.entries # <<>>

VARIABLES
    value,      \* SOLCON_INPUT_FILTER
    FILTER,     \* of the current process: "lazy" until it is built
    current,    \* the crate it compiles, "none" between two
    admitted, rejected    \* the crates should_process has decided on

vars == <<value, FILTER, current, admitted, rejected>>

Init ==
    /\ value \in Values
    /\ FILTER = <<"lazy">>
    /\ current = "none"
    /\ admitted = {} /\ rejected = {}

StartSession(c) ==
    /\ current = "none" /\ c \notin admitted \cup rejected
    /\ current' = c
    /\ FILTER' = <<"lazy">>
    /\ UNCHANGED <<value, admitted, rejected>>

(* split(','): the brackets stay on the first and the last piece.           *)
Pieces(entries) ==
    {(IF k = 1 THEN <<"[">> ELSE <<>>) \o entries[k] \o
     (IF k = Len(entries) THEN <<"]">> ELSE <<>>) : k \in 1..Len(entries)}

(* Slip: a text that is no regular expression lets nothing through.         *)
FilterOrNothing(v) ==
    CASE v.form = "unset"   -> <<"All">>
      [] v.form = "list"    -> <<"WhiteList", Pieces(v.entries)>>
      [] v.form = "regex"   -> <<"Regexp", v.matches>>
      [] v.form = "invalid" -> <<"WhiteList", {}>>

(* Slip: a list is taken for a regular expression, a class of characters.   *)
FilterListAsRegexp(v) ==
    CASE v.form = "list"  -> <<"Regexp", Crates>>
      [] v.form = "regex" -> <<"Regexp", v.matches>>
      [] OTHER            -> <<"All">>

FilterOf(v) ==
    CASE v.form = "list"  -> <<"WhiteList", Pieces(v.entries)>>
      [] v.form = "regex" -> <<"Regexp", v.matches>>
      [] OTHER            -> <<"All">>

Build ==
    /\ current # "none" /\ FILTER = <<"lazy">>
    /\ FILTER' = FilterOf(value)
    /\ UNCHANGED <<value, current, admitted, rejected>>

Passes(c) ==
    \/ FILTER[1] = "All"
    \/ FILTER[1] = "WhiteList" /\ <<c>> \in FILTER[2]
    \/ FILTER[1] = "Regexp" /\ c \in FILTER[2]

ShouldProcess ==
    /\ current # "none" /\ FILTER # <<"lazy">>
    /\ admitted' = IF Passes(current) THEN admitted \cup {current} ELSE admitted
    /\ rejected' = IF Passes(current) THEN rejected ELSE rejected \cup {current}
    /\ current' = "none"
    /\ UNCHANGED <<value, FILTER>>

BuildOver == current = "none" /\ admitted \cup rejected = Crates /\ UNCHANGED vars

Next == (\E c \in Crates : StartSession(c)) \/ Build \/ ShouldProcess \/ BuildOver

Spec == Init /\ [][Next]_vars
-----------------------------------------------------------------------------
(* What whoever set the variable asked for.                                 *)
Listed(c) == \E k \in 1..Len(value.entries) : value.entries[k][Len(value.entries[k])] = c
AskedFor(c) ==
    CASE value.form = "list"  -> Listed(c)
      [] value.form = "regex" -> c \in value.matches
      [] OTHER                -> TRUE

(* The filter never lets a crate through that was not asked for, whatever   *)
(* becomes of the brackets and blanks of a list.                            *)
NothingElseAdmitted == \A c \in admitted : AskedFor(c)

(* A crate that was asked for is rejected only by a list, and only if every *)
(* entry that names it is the first or the last or has blanks before it.    *)
RejectedByListOnly ==
    \A c \in rejected : AskedFor(c) =>
        /\ value.form = "list"
        /\ \A k \in 1..Len(value.entries) :
             value.entries[k] = <<c>> => k \in {1, Len(value.entries)}

(* "Split the string at the commas and add [the values] to the HashSet":    *)
(* every crate that was asked for is let through.                           *)
ListedCratesAdmitted == \A c \in rejected : ~AskedFor(c)
=============================================================================
