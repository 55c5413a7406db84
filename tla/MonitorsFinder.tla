--------------------------- MODULE MonitorsFinder ---------------------------
(* How the hooks of a monitor library get into MonitorsInfo.  First the     *)
(* attribute macro of macro_monitors_finder turns the marked fields of the  *)
(* struct into the branches of one match (when the instrumenter itself is   *)
(* compiled); then, in a compile session, find_all_monitors walks over all  *)
(* definitions of all crates and lets that match decide.                    *)
(* Names and paths are model values; a path is what follows the crate.      *)
EXTENDS Integers, Sequences, FiniteSets, Selection

CONSTANTS
    Structs,     \* the structs the macro may be put on, see Struct
    CrateLists   \* what tcx.crates may return, see Crate

(* An attribute: how its path is written, and the value after the "=" if    *)
(* that is a string.                                                        *)
NoString == "no string"
Attr == [path : {"monitor_defpath", "::monitor_defpath", "a::monitor_defpath", "other"},
         value : STRING]
(* A field without a name is one of a tuple struct.                         *)
NoName == "unnamed"
Field == [name : STRING, attrs : Seq(Attr)]
Struct == Seq(Field)

(* A definition: its kind and def_path_str, cut behind the first "::".      *)
Def == [root : STRING, path : STRING, kind : {"Fn", "AssocFn", "Static"}]
Crate == [name : STRING, local : BOOLEAN, defs : Seq(Def)]

MONITORS_LIB_CRATE_NAME == "this_is_our_monitor_function"

ASSUME FinderAssumption ==
    /\ Structs \subseteq Struct
    /\ \A s \in Structs : \A i, j \in DOMAIN s :
          s[i].name = s[j].name => i = j \/ s[i].name = NoName
    /\ CrateLists \subseteq Seq(Crate)

None == <<>>

VARIABLES
    given,      \* the struct as it is written (ghost)
    struct,     \* the struct as far as the macro has got with it
    arms,       \* the branches of the match: <<path, field>>
    field,      \* the field the macro is at
    panicked,   \* the macro has panicked, the instrumenter does not compile
    crates,     \* tcx.crates
    krate,      \* the crate that is scanned, 0 before the session
    id,         \* its next DefIndex
    monitors    \* MonitorsInfo: by field, the DefId <<crate, index>> or None

macro == <<struct, arms, field, panicked>>
session == <<krate, id, monitors>>
vars == <<given, crates, macro, session>>

Fields == {given[k].name : k \in DOMAIN given} \ {NoName}

Init ==
    /\ given \in Structs
    /\ struct = given
    /\ arms = <<>> /\ field = 1
    /\ panicked = FALSE
    /\ crates \in CrateLists
    /\ krate = 0 /\ id = 1
    /\ monitors = [f \in Fields |-> None]

-----------------------------------------------------------------------------
(* The macro                                                                *)

(* Slip: any path that ends in the marker's name is a marker.               *)
IsMarkerAnywhere(attr) == attr.path # "other"
IsMarker(attr) == attr.path = "monitor_defpath"

Markers(fd) ==
    Picked(fd.attrs, {i \in DOMAIN fd.attrs :
                         IsMarker(fd.attrs[i]) /\ fd.attrs[i].value # NoString})
WithoutMarkers(fd) ==
    [fd EXCEPT !.attrs =
        Picked(fd.attrs, {i \in DOMAIN fd.attrs : ~IsMarker(fd.attrs[i])})]

(* get_defpath_from_marker_and_remove_marker on one field and the branch    *)
(* made of it, in order: a marker without a string is removed and ignored,  *)
(* a second one with a string panics, a field without a name gets no        *)
(* branch.                                                                  *)
ExpandField ==
    /\ ~panicked /\ field <= Len(struct)
    /\ LET fd == struct[field]
           markers == Markers(fd)
       IN  /\ panicked' = (Len(markers) > 1)
           /\ struct' = [struct EXCEPT ![field] = WithoutMarkers(fd)]
           /\ arms' = IF Len(markers) = 1 /\ fd.name # NoName
                      THEN Append(arms, <<markers[1].value, fd.name>>) ELSE arms
    /\ field' = field + 1
    /\ UNCHANGED <<given, crates, session>>

-----------------------------------------------------------------------------
(* The compile session                                                      *)

StartScan ==
    /\ ~panicked /\ field > Len(struct) /\ krate = 0
    /\ krate' = 1
    /\ UNCHANGED <<given, crates, macro, id, monitors>>

Scanning == krate \in DOMAIN crates

(* Slip: the local crate is not left out.                                   *)
MismatchOfNames(c) == c.name # MONITORS_LIB_CRATE_NAME
Mismatch(c) == c.local \/ c.name # MONITORS_LIB_CRATE_NAME

(* try_match_with_our_function: the path without the prefix of the monitor  *)
(* library is matched against the branches; the first of equal ones counts. *)
TryMatch(def, at) ==
    LET matching == {n \in DOMAIN arms : arms[n][1] = def.path}
        first == CHOOSE n \in matching : \A m \in matching : n <= m
    IN  IF def.root = MONITORS_LIB_CRATE_NAME /\ matching # {}
        THEN [monitors EXCEPT ![arms[first][2]] = at]
        ELSE monitors

SkipCrate ==
    /\ Scanning /\ Mismatch(crates[krate])
    /\ krate' = krate + 1
    /\ UNCHANGED <<given, crates, macro, id, monitors>>

(* Slip: whatever has the path is taken for the hook.                       *)
ScanDefOfAnyKind ==
    /\ Scanning /\ ~Mismatch(crates[krate])
    /\ id \in DOMAIN crates[krate].defs
    /\ monitors' = TryMatch(crates[krate].defs[id], <<krate, id>>)
    /\ id' = id + 1
    /\ UNCHANGED <<given, crates, macro, krate>>

ScanDef ==
    /\ Scanning /\ ~Mismatch(crates[krate])
    /\ id \in DOMAIN crates[krate].defs
    /\ LET def == crates[krate].defs[id] IN
       monitors' = IF def.kind = "Fn" THEN TryMatch(def, <<krate, id>>) ELSE monitors
    /\ id' = id + 1
    /\ UNCHANGED <<given, crates, macro, krate>>

(* Slip: the index goes on counting.                                        *)
LeaveCrateCounting ==
    /\ Scanning /\ ~Mismatch(crates[krate])
    /\ id > Len(crates[krate].defs)
    /\ krate' = krate + 1
    /\ UNCHANGED <<given, crates, macro, id, monitors>>

LeaveCrate ==
    /\ Scanning /\ ~Mismatch(crates[krate])
    /\ id > Len(crates[krate].defs)
    /\ krate' = krate + 1
    /\ id' = 1
    /\ UNCHANGED <<given, crates, macro, monitors>>

Over == (panicked \/ krate > Len(crates)) /\ UNCHANGED vars

Next ==
    ExpandField \/ StartScan \/ SkipCrate \/ ScanDef \/ LeaveCrate \/ Over

Spec == Init /\ [][Next]_vars
-----------------------------------------------------------------------------
TypeOK ==
    /\ given \in Structs /\ struct \in Struct /\ Len(struct) = Len(given)
    /\ arms \in Seq(STRING \X Fields)
    /\ field \in 1..Len(given) + 1
    /\ panicked \in BOOLEAN
    /\ crates \in CrateLists /\ krate \in 0..Len(crates) + 1
    /\ Scanning => id \in 1..Len(crates[krate].defs) + 1
    /\ \A f \in Fields : monitors[f] = None \/ monitors[f][1] \in DOMAIN crates

(* The string markers the author of the struct put on the k-th field.       *)
Written(k) ==
    {i \in DOMAIN given[k].attrs :
        given[k].attrs[i].path = "monitor_defpath" /\ given[k].attrs[i].value # NoString}

OtherAttrs(attrs) ==
    Picked(attrs, {i \in DOMAIN attrs : attrs[i].path # "monitor_defpath"})

(* The macro refuses exactly the fields with two paths, and otherwise gives *)
(* back the struct with every attribute but its own, those of other macros  *)
(* with a name like its own included.                                       *)
MacroTransparent ==
    \A k \in 1..field - 1 :
        /\ panicked /\ k = field - 1 <=> Cardinality(Written(k)) > 1
        /\ struct[k].name = given[k].name
        /\ struct[k].attrs = OtherAttrs(given[k].attrs)

(* No function of the crate that is being compiled, of a crate with another *)
(* name, and nothing but a function is ever called as a hook, whatever the  *)
(* struct and its markers look like.                                        *)
OnlyLibraryFunctions ==
    \A f \in Fields : monitors[f] # None =>
        LET crate == crates[monitors[f][1]]
            def == crate.defs[monitors[f][2]]
        IN  /\ ~crate.local /\ crate.name = MONITORS_LIB_CRATE_NAME
            /\ def.kind = "Fn" /\ def.root = MONITORS_LIB_CRATE_NAME

(* What a field stands for: the functions of foreign crates with the        *)
(* library's name that are printed under that name and have the path the    *)
(* field is marked with, unless a field before it is marked with it too.    *)
MarkOf(k) == given[k].attrs[CHOOSE i \in Written(k) : TRUE].value
Claims(k, path) == given[k].name # NoName /\ Cardinality(Written(k)) = 1 /\ MarkOf(k) = path

Candidates(k) ==
    {at \in UNION {{<<c, i>> : i \in DOMAIN crates[c].defs} : c \in DOMAIN crates} :
        LET crate == crates[at[1]]
            def == crate.defs[at[2]]
        IN  /\ crate.name = MONITORS_LIB_CRATE_NAME /\ ~crate.local
            /\ def.kind = "Fn" /\ def.root = MONITORS_LIB_CRATE_NAME
            /\ Claims(k, def.path)
            /\ \A j \in 1..k - 1 : ~Claims(j, def.path)}

Before(a, b) == a[1] < b[1] \/ (a[1] = b[1] /\ a[2] < b[2])

(* At every point of the scan a field holds the last definition seen so far *)
(* that it stands for, and nothing if there was none: no definition of the  *)
(* user's crates, no method and no item of a module gets in, and none is    *)
(* missed.  Of two crates with the library's name each field takes the last *)
(* that has its function, so hooks of both may be mixed.                    *)
FoundAsMarked ==
    \A k \in DOMAIN given : given[k].name # NoName =>
        LET seen == {at \in Candidates(k) : Before(at, <<krate, id>>)}
            hook == monitors[given[k].name]
        IN  IF seen = {} THEN hook = None
            ELSE hook \in seen /\ \A at \in seen : ~Before(hook, at)
=============================================================================
