------------------------ MODULE MonitorsFinderProofs ------------------------
(* For every struct the macro may be put on and every list of crates: only  *)
(* functions of foreign crates with the library's name become hooks.        *)
EXTENDS MonitorsFinder, OperatorFacts

(* The property needs no more than that no entry of monitors is invented    *)
(* and that the domain stays.                                               *)
Inductive ==
    /\ monitors \in [Fields -> {None} \cup (Nat \X Nat)]
    /\ krate \in Nat /\ id \in Nat
    /\ OnlyLibraryFunctions

LEMMA InitInductive == Init => Inductive
BY DEF Init, Inductive, OnlyLibraryFunctions, None

(* A definition that passed the tests of the loop may be written anywhere.  *)
LEMMA ScanKeeps == Inductive /\ ScanDef => Inductive'
<1> SUFFICES ASSUME Inductive, ScanDef PROVE Inductive'
  OBVIOUS
<1> DEFINE def == crates[krate].defs[id]
           at == <<krate, id>>
<1>1. /\ UNCHANGED <<given, crates, krate>> /\ id' \in Nat
  BY DEF ScanDef, Inductive, macro
<1>2. Fields' = Fields
  BY <1>1 DEF Fields
<1>3. \/ monitors' = monitors
      \/ /\ \E f : monitors' = [monitors EXCEPT ![f] = at]
         /\ def.kind = "Fn" /\ def.root = MONITORS_LIB_CRATE_NAME
         /\ ~crates[krate].local /\ crates[krate].name = MONITORS_LIB_CRATE_NAME
  <2> SUFFICES ASSUME monitors' # monitors
               PROVE /\ \E f : monitors' = [monitors EXCEPT ![f] = at]
                     /\ def.kind = "Fn" /\ def.root = MONITORS_LIB_CRATE_NAME
                     /\ ~Mismatch(crates[krate])
    BY DEF Mismatch
  <2>1. ~Mismatch(crates[krate])
    BY DEF ScanDef
  <2>2. def.kind = "Fn" /\ monitors' = TryMatch(def, at)
    BY DEF ScanDef
  <2>3. def.root = MONITORS_LIB_CRATE_NAME /\ \E f : monitors' = [monitors EXCEPT ![f] = at]
    BY <2>2, Zenon DEF TryMatch
  <2> QED BY <2>1, <2>2, <2>3, Zenon
<1>4. at \in Nat \X Nat /\ at[1] = krate /\ at[2] = id
  BY DEF Inductive
<1>5. monitors' \in [Fields -> {None} \cup (Nat \X Nat)]
  BY <1>3, <1>4 DEF Inductive
<1>6. OnlyLibraryFunctions'
  <2> SUFFICES ASSUME NEW f \in Fields, monitors'[f] # None
               PROVE LET crate == crates[monitors'[f][1]]
                         d == crate.defs[monitors'[f][2]]
                     IN  /\ ~crate.local /\ crate.name = MONITORS_LIB_CRATE_NAME
                         /\ d.kind = "Fn" /\ d.root = MONITORS_LIB_CRATE_NAME
    BY <1>1, <1>2 DEF OnlyLibraryFunctions
  <2>1. CASE monitors'[f] = monitors[f]
    BY <2>1 DEF Inductive, OnlyLibraryFunctions
  <2>2. CASE monitors'[f] # monitors[f]
    <3>1. monitors'[f] = at
      BY <2>2, <1>3 DEF Inductive
    <3>2. crates[monitors'[f][1]] = crates[krate] /\ monitors'[f][2] = id
      BY <3>1, <1>1, <1>4
    <3> QED BY <3>1, <3>2, <2>2, <1>1, <1>3, <1>4
  <2> QED BY <2>1, <2>2
<1> QED BY <1>1, <1>2, <1>5, <1>6 DEF Inductive

(* Everything else leaves monitors alone.                                   *)
LEMMA OthersKeep ==
    ASSUME Inductive,
           \/ ExpandField \/ StartScan \/ SkipCrate \/ LeaveCrate \/ Over
           \/ UNCHANGED vars
    PROVE  Inductive'
<1>1. UNCHANGED <<given, crates, monitors>> /\ krate' \in Nat /\ id' \in Nat
  BY DEF Inductive, ExpandField, StartScan, SkipCrate, LeaveCrate, Over, vars, session, macro
<1>2. Fields' = Fields
  BY <1>1 DEF Fields
<1> QED BY <1>1, <1>2 DEF Inductive, OnlyLibraryFunctions

(* Only functions of the monitor library become hooks (find_all_monitors    *)
(* and the generated try_match_with_our_function).                          *)
THEOREM HooksAreLibrarys == Spec => []OnlyLibraryFunctions
<1>1. Init => Inductive
  BY InitInductive
<1>2. Inductive /\ [Next]_vars => Inductive'
  BY ScanKeeps, OthersKeep DEF Next
<1>3. Inductive => OnlyLibraryFunctions
  BY DEF Inductive
<1> QED BY <1>1, <1>2, <1>3, PTL DEF Spec

-----------------------------------------------------------------------------
(* Where the macro and the scan are.                                        *)

(* The scan starts after the macro is through.  It is at the first          *)
(* definition of a crate it does not look into, before the first and after  *)
(* the last crate too.                                                      *)
ScanPlace ==
    /\ id \in Nat \ {0}
    /\ krate \notin DOMAIN crates \/ Mismatch(crates[krate]) => id = 1
    /\ krate = 0 \/ (~panicked /\ field > Len(given))

(* The macro has not touched the fields it has still to expand.             *)
Untouched == \A k \in field..Len(given) : struct[k] = given[k]

Bookkeeping ==
    /\ TypeOK /\ ScanPlace /\ Untouched
    /\ \A k \in 1..Len(given) : struct[k].name = given[k].name
    /\ monitors \in [Fields -> {None} \cup (Nat \X Nat)]

LEMMA StructTypes ==
    ASSUME given \in Structs
    PROVE  /\ given \in Seq(Field) /\ Len(given) \in Nat /\ DOMAIN given = 1..Len(given)
           /\ \A k \in 1..Len(given) : /\ given[k] \in Field
                                       /\ given[k].attrs \in Seq(Attr)
                                       /\ given[k].name \in STRING
<1>1. given \in Seq(Field)
  BY FinderAssumption DEF Struct
<1>2. /\ Len(given) \in Nat /\ DOMAIN given = 1..Len(given)
      /\ \A k \in 1..Len(given) : given[k] \in Field
  BY <1>1
<1>3. \A fd \in Field : fd.attrs \in Seq(Attr) /\ fd.name \in STRING
  BY DEF Field
<1>4. QED
  BY <1>1, <1>2, <1>3

LEMMA CrateTypes ==
    ASSUME crates \in CrateLists
    PROVE  /\ Len(crates) \in Nat /\ DOMAIN crates = 1..Len(crates)
           /\ \A c \in DOMAIN crates :
                 /\ crates[c] \in Crate /\ Len(crates[c].defs) \in Nat
                 /\ DOMAIN crates[c].defs = 1..Len(crates[c].defs)
                 /\ \A i \in DOMAIN crates[c].defs :
                       crates[c].defs[i] \in Def /\ crates[c].defs[i].path \in STRING
<1>1. crates \in Seq(Crate)
  BY FinderAssumption
<1>2. Len(crates) \in Nat /\ DOMAIN crates = 1..Len(crates)
  BY <1>1
<1>3. ASSUME NEW c \in DOMAIN crates
      PROVE  /\ crates[c] \in Crate /\ Len(crates[c].defs) \in Nat
             /\ DOMAIN crates[c].defs = 1..Len(crates[c].defs)
             /\ \A i \in DOMAIN crates[c].defs :
                   crates[c].defs[i] \in Def /\ crates[c].defs[i].path \in STRING
  <2>1. crates[c] \in Crate
    BY <1>1
  <2> DEFINE ds == crates[c].defs
  <2>2. ds \in Seq(Def)
    BY <2>1 DEF Crate
  <2> HIDE DEF ds
  <2>3. /\ Len(ds) \in Nat /\ DOMAIN ds = 1..Len(ds)
        /\ \A i \in DOMAIN ds : ds[i] \in Def
    BY <2>2
  <2>4. \A d \in Def : d.path \in STRING
    BY DEF Def
  <2>5. QED
    BY <2>1, <2>3, <2>4 DEF ds
<1>4. QED
  BY <1>2, <1>3

(* The macro reads the markers off the field as it was written.             *)
LEMMA MarkersRead ==
    ASSUME given \in Structs, NEW k \in 1..Len(given)
    PROVE  /\ IsFiniteSet(Written(k)) /\ Cardinality(Written(k)) \in Nat
           /\ Len(Markers(given[k])) = Cardinality(Written(k))
           /\ Cardinality(Written(k)) = 1 =>
                Markers(given[k])[1].value = MarkOf(k) /\ MarkOf(k) \in STRING
<1> DEFINE attrs == given[k].attrs
<1>1. attrs \in Seq(Attr)
  BY StructTypes
<1>2. Written(k) = {i \in DOMAIN attrs : attrs[i].path = "monitor_defpath"
                                           /\ attrs[i].value # NoString}
  BY DEF Written
<1>3. Markers(given[k]) = Picked(attrs, Written(k))
  BY <1>2 DEF Markers, IsMarker
<1> HIDE DEF attrs
<1>4. Written(k) \subseteq 1..Len(attrs)
  BY <1>1, <1>2
<1>5. /\ IsFiniteSet(Written(k)) /\ Cardinality(Written(k)) \in Nat
      /\ Len(Markers(given[k])) = Cardinality(Written(k))
  BY <1>1, <1>3, <1>4, PickedLength
<1>6. ASSUME Cardinality(Written(k)) = 1
      PROVE  Markers(given[k])[1].value = MarkOf(k) /\ MarkOf(k) \in STRING
  <2>1. PICK i : Written(k) = {i}
    BY <1>5, <1>6, FS_Singleton, Zenon
  <2>2. i \in 1..Len(attrs) /\ attrs[i] \in Attr
    BY <1>1, <1>4, <2>1
  <2>3. Markers(given[k]) = <<attrs[i]>>
    BY <1>1, <1>3, <2>1, <2>2, PickedSingle
  <2>4. MarkOf(k) = attrs[i].value
    BY <2>1 DEF MarkOf, attrs
  <2>5. \A a \in Attr : a.value \in STRING /\ <<a>>[1] = a
    BY DEF Attr
  <2>6. QED
    BY <2>2, <2>3, <2>4, <2>5
<1>7. QED
  BY <1>5, <1>6

LEMMA StrippedField ==
    ASSUME NEW fd \in Field
    PROVE  /\ WithoutMarkers(fd) \in Field /\ WithoutMarkers(fd).name = fd.name
           /\ WithoutMarkers(fd).attrs = OtherAttrs(fd.attrs)
<1> DEFINE rest == Picked(fd.attrs, {i \in DOMAIN fd.attrs : ~IsMarker(fd.attrs[i])})
<1>1. rest = OtherAttrs(fd.attrs)
  BY DEF IsMarker, OtherAttrs
<1>2. rest \in Seq(Attr)
  <2>1. fd.attrs \in Seq(Attr)
    BY DEF Field
  <2>2. QED
    BY <2>1, PickedType
<1>3. WithoutMarkers(fd) = [fd EXCEPT !.attrs = rest]
  BY DEF WithoutMarkers
<1> HIDE DEF rest
<1>4. QED
  BY <1>1, <1>2, <1>3 DEF Field

(* One field expanded, in terms of the struct as it was written.            *)
LEMMA ExpandFacts ==
    ASSUME Bookkeeping, ExpandField
    PROVE  /\ field \in 1..Len(given) /\ krate = 0 /\ ~panicked /\ field' = field + 1
           /\ given[field] \in Field
           /\ (panicked' <=> Cardinality(Written(field)) > 1) /\ panicked' \in BOOLEAN
           /\ struct' = [struct EXCEPT ![field] = WithoutMarkers(given[field])]
           /\ arms' = IF Cardinality(Written(field)) = 1 /\ given[field].name # NoName
                        THEN Append(arms, <<MarkOf(field), given[field].name>>) ELSE arms
           /\ Cardinality(Written(field)) = 1 => MarkOf(field) \in STRING
           /\ given[field].name # NoName => given[field].name \in Fields
           /\ UNCHANGED <<given, crates, krate, id, monitors>>
<1>1. /\ given \in Structs /\ Len(struct) = Len(given) /\ field \in 1..Len(given) + 1
      /\ ~panicked /\ field <= Len(struct)
  BY DEF Bookkeeping, TypeOK, ExpandField
<1>2. Len(given) \in Nat
  BY <1>1, StructTypes
<1>3. field \in 1..Len(given)
  BY <1>1, <1>2
<1>4. struct[field] = given[field] /\ krate = 0
  BY <1>1, <1>2, <1>3 DEF Bookkeeping, Untouched, ScanPlace
<1>5. /\ Cardinality(Written(field)) \in Nat
      /\ Len(Markers(given[field])) = Cardinality(Written(field))
      /\ Cardinality(Written(field)) = 1 =>
           Markers(given[field])[1].value = MarkOf(field) /\ MarkOf(field) \in STRING
  BY <1>1, <1>3, MarkersRead
<1>6. given[field] \in Field /\ (given[field].name # NoName => given[field].name \in Fields)
  BY <1>1, <1>3, StructTypes DEF Fields
<1>7. /\ panicked' = (Len(Markers(given[field])) > 1)
      /\ struct' = [struct EXCEPT ![field] = WithoutMarkers(given[field])]
      /\ arms' = IF Len(Markers(given[field])) = 1 /\ given[field].name # NoName
                 THEN Append(arms, <<Markers(given[field])[1].value, given[field].name>>)
                 ELSE arms
      /\ field' = field + 1 /\ UNCHANGED <<given, crates, krate, id, monitors>>
  BY <1>4 DEF ExpandField, session
<1>8. (panicked' <=> Cardinality(Written(field)) > 1) /\ panicked' \in BOOLEAN
  <2> DEFINE number == Len(Markers(given[field]))
  <2>1. panicked' = (number > 1) /\ number = Cardinality(Written(field))
    BY <1>5, <1>7
  <2> HIDE DEF number
  <2>2. (number > 1) \in BOOLEAN
    OBVIOUS
  <2>3. QED
    BY <2>1, <2>2, Zenon
<1>9. arms' = IF Cardinality(Written(field)) = 1 /\ given[field].name # NoName
                THEN Append(arms, <<MarkOf(field), given[field].name>>) ELSE arms
  BY <1>5, <1>7, Zenon
<1>10. QED
  BY <1>1, <1>3, <1>4, <1>5, <1>6, <1>7, <1>8, <1>9, Zenon

LEMMA StructExpanded ==
    ASSUME Bookkeeping, ExpandField
    PROVE  /\ struct' \in Struct /\ Len(struct') = Len(given)
           /\ struct'[field] = WithoutMarkers(given[field])
           /\ \A k \in 1..Len(given) : k # field => struct'[k] = struct[k]
<1>1. struct \in Seq(Field) /\ Len(struct) = Len(given)
  BY DEF Bookkeeping, TypeOK, Struct
<1>2. field \in 1..Len(given) /\ given[field] \in Field
      /\ struct' = [struct EXCEPT ![field] = WithoutMarkers(given[field])]
  BY ExpandFacts
<1>3. WithoutMarkers(given[field]) \in Field
  BY <1>2, StrippedField
<1> DEFINE new == WithoutMarkers(given[field])
<1> HIDE DEF new
<1>4. QED
  BY <1>1, <1>2, <1>3 DEF new, Struct

LEMMA ExpandKept ==
    ASSUME Bookkeeping, ExpandField
    PROVE  Bookkeeping'
<1>1. /\ field \in 1..Len(given) /\ krate = 0 /\ field' = field + 1 /\ panicked' \in BOOLEAN
      /\ given[field] \in Field
      /\ UNCHANGED <<given, crates, krate, id, monitors>>
  BY ExpandFacts
<1>2. /\ struct' \in Struct /\ Len(struct') = Len(given)
      /\ struct'[field] = WithoutMarkers(given[field])
      /\ \A k \in 1..Len(given) : k # field => struct'[k] = struct[k]
  BY StructExpanded
<1>3. Fields' = Fields /\ (Scanning' <=> Scanning) /\ Len(given) \in Nat
  BY <1>1, StructTypes DEF Fields, Scanning, Bookkeeping, TypeOK
<1>4. arms' \in Seq(STRING \X Fields)
  <2>1. arms \in Seq(STRING \X Fields)
    BY DEF Bookkeeping, TypeOK
  <2>2. arms' = arms \/ \E arm \in STRING \X Fields : arms' = Append(arms, arm)
    BY ExpandFacts, Zenon
  <2>3. QED
    BY <2>1, <2>2
<1>5. TypeOK'
  BY <1>1, <1>2, <1>3, <1>4 DEF Bookkeeping, TypeOK, Scanning
<1>6. ScanPlace'
  BY <1>1 DEF Bookkeeping, ScanPlace, Mismatch
<1>7. Untouched'
  BY <1>1, <1>2, <1>3 DEF Bookkeeping, Untouched
<1>8. \A k \in 1..Len(given) : struct'[k].name = given[k].name
  <2>1. struct'[field].name = given[field].name
    BY <1>1, <1>2, StrippedField, Zenon
  <2>2. QED
    BY <1>2, <2>1 DEF Bookkeeping
<1>9. QED
  BY <1>1, <1>3, <1>5, <1>6, <1>7, <1>8 DEF Bookkeeping

(* A step of the scan: one definition, or from one crate to the next.       *)
NextCrate ==
    \/ StartScan
    \/ SkipCrate
    \/ LeaveCrate

LEMMA NextCrateFacts ==
    ASSUME Bookkeeping, NextCrate
    PROVE  /\ krate \in 0..Len(crates) /\ krate' = krate + 1 /\ id' = 1
           /\ ~panicked /\ field > Len(given)
           /\ UNCHANGED <<given, struct, arms, field, panicked, crates, monitors>>
           /\ krate \in DOMAIN crates =>
                \/ Mismatch(crates[krate])
                \/ \A i \in DOMAIN crates[krate].defs : i < id
<1>1. /\ crates \in CrateLists /\ krate \in 0..Len(crates) + 1 /\ Len(struct) = Len(given)
      /\ id \in Nat
  BY DEF Bookkeeping, TypeOK, ScanPlace
<1>2. Len(crates) \in Nat /\ DOMAIN crates = 1..Len(crates)
  BY <1>1, CrateTypes
<1>3. CASE StartScan
  BY <1>1, <1>2, <1>3 DEF StartScan, macro, Bookkeeping, ScanPlace
<1>4. CASE SkipCrate
  BY <1>1, <1>2, <1>4 DEF SkipCrate, Scanning, macro, Bookkeeping, ScanPlace
<1>5. CASE LeaveCrate
  <2>1. krate \in 1..Len(crates) /\ krate \in DOMAIN crates /\ id > Len(crates[krate].defs)
    BY <1>2, <1>5 DEF LeaveCrate, Scanning
  <2>2. \A i \in DOMAIN crates[krate].defs : i < id
    BY <1>1, <2>1, CrateTypes
  <2>3. QED
    BY <1>1, <1>2, <1>5, <2>1, <2>2 DEF LeaveCrate, macro, Bookkeeping, ScanPlace
<1>6. QED
  BY <1>3, <1>4, <1>5 DEF NextCrate

LEMMA NextCrateKept ==
    ASSUME Bookkeeping, NextCrate
    PROVE  Bookkeeping'
<1>1. /\ krate \in 0..Len(crates) /\ krate' = krate + 1 /\ id' = 1
      /\ ~panicked /\ field > Len(given)
      /\ UNCHANGED <<given, struct, arms, field, panicked, crates, monitors>>
  BY NextCrateFacts
<1>2. Fields' = Fields /\ crates \in CrateLists /\ Len(crates) \in Nat
  BY <1>1, CrateTypes DEF Fields, Bookkeeping, TypeOK
<1>3. Scanning' => id' \in 1..Len(crates[krate'].defs) + 1
  BY <1>1, <1>2, CrateTypes DEF Scanning
<1>4. TypeOK'
  BY <1>1, <1>2, <1>3 DEF Bookkeeping, TypeOK, Scanning
<1>5. ScanPlace'
  BY <1>1 DEF ScanPlace
<1>6. QED
  BY <1>1, <1>2, <1>4, <1>5 DEF Bookkeeping, Untouched

LEMMA ScanFacts ==
    ASSUME Bookkeeping, ScanDef
    PROVE  /\ krate \in DOMAIN crates /\ ~Mismatch(crates[krate])
           /\ id \in DOMAIN crates[krate].defs /\ id' = id + 1
           /\ ~panicked /\ field > Len(given)
           /\ UNCHANGED <<given, struct, arms, field, panicked, crates, krate>>
           /\ monitors' = IF crates[krate].defs[id].kind = "Fn"
                            THEN TryMatch(crates[krate].defs[id], <<krate, id>>) ELSE monitors
<1>1. crates \in CrateLists
  BY DEF Bookkeeping, TypeOK
<1>2. krate \in DOMAIN crates /\ DOMAIN crates = 1..Len(crates)
  BY <1>1, CrateTypes DEF ScanDef, Scanning
<1>3. ~panicked /\ field > Len(given)
  BY <1>1, <1>2, CrateTypes DEF Bookkeeping, ScanPlace
<1>4. QED
  BY <1>2, <1>3 DEF ScanDef, Scanning, macro

LEMMA ScanKept ==
    ASSUME Bookkeeping, ScanDef
    PROVE  Bookkeeping'
<1> DEFINE at == <<krate, id>>
<1>1. /\ krate \in DOMAIN crates /\ ~Mismatch(crates[krate])
      /\ id \in DOMAIN crates[krate].defs /\ id' = id + 1
      /\ ~panicked /\ field > Len(given)
      /\ UNCHANGED <<given, struct, arms, field, panicked, crates, krate>>
  BY ScanFacts
<1>2. /\ Fields' = Fields /\ crates \in CrateLists /\ id \in Nat \ {0} /\ krate \in Nat
      /\ Len(crates[krate].defs) \in Nat
      /\ DOMAIN crates[krate].defs = 1..Len(crates[krate].defs)
  BY <1>1, CrateTypes DEF Fields, Bookkeeping, TypeOK, ScanPlace
<1>3. monitors' = monitors \/ \E f : monitors' = [monitors EXCEPT ![f] = at]
  BY ScanFacts, Zenon DEF TryMatch
<1>4. at \in Nat \X Nat /\ at[1] = krate
  BY <1>2
<1>5. monitors' \in [Fields -> {None} \cup (Nat \X Nat)]
  BY <1>3, <1>4 DEF Bookkeeping
<1>6. \A f \in Fields : monitors'[f] = None \/ monitors'[f][1] \in DOMAIN crates
  BY <1>1, <1>3, <1>4, Zenon DEF Bookkeeping, TypeOK
<1>7. id' \in 1..Len(crates[krate].defs) + 1 /\ id' \in Nat \ {0}
  BY <1>1, <1>2
<1>8. TypeOK'
  BY <1>1, <1>2, <1>6, <1>7 DEF Bookkeeping, TypeOK, Scanning
<1>9. ScanPlace'
  BY <1>1, <1>7 DEF ScanPlace, Bookkeeping, Mismatch
<1>10. QED
  BY <1>1, <1>2, <1>5, <1>8, <1>9 DEF Bookkeeping, Untouched

LEMMA InitBookkeeping == Init => Bookkeeping
<1> SUFFICES ASSUME Init PROVE Bookkeeping
  OBVIOUS
<1>1. /\ given \in Structs /\ struct = given /\ arms = <<>> /\ field = 1 /\ panicked = FALSE
      /\ crates \in CrateLists /\ krate = 0 /\ id = 1 /\ monitors = [f \in Fields |-> None]
  BY DEF Init
<1>2. Len(given) \in Nat /\ Len(crates) \in Nat /\ 0 \notin DOMAIN crates /\ given \in Struct
  BY <1>1, StructTypes, CrateTypes DEF Struct
<1>3. TypeOK
  <2>1. arms \in Seq(STRING \X Fields) /\ ~Scanning
    BY <1>1, <1>2 DEF Scanning
  <2>2. field \in 1..Len(given) + 1 /\ krate \in 0..Len(crates) + 1
    BY <1>1, <1>2
  <2>3. panicked \in BOOLEAN /\ \A f \in Fields : monitors[f] = None
    BY <1>1, Zenon
  <2>4. QED
    BY <1>1, <1>2, <2>1, <2>2, <2>3 DEF TypeOK
<1>4. QED
  BY <1>1, <1>2, <1>3 DEF Bookkeeping, ScanPlace, Untouched

LEMMA BookkeepingKept == Spec => []Bookkeeping
<1>1. ASSUME Bookkeeping, [Next]_vars PROVE Bookkeeping'
  <2>1. CASE UNCHANGED vars
    <3>1. UNCHANGED <<given, struct, arms, field, panicked, crates, krate, id, monitors>>
      BY <2>1 DEF vars, macro, session
    <3>2. Fields' = Fields /\ (Scanning' <=> Scanning)
      BY <3>1 DEF Fields, Scanning
    <3>3. TypeOK' /\ ScanPlace' /\ Untouched'
      BY <1>1, <3>1, <3>2 DEF Bookkeeping, TypeOK, ScanPlace, Untouched, Mismatch
    <3>4. QED
      BY <1>1, <3>1, <3>2, <3>3 DEF Bookkeeping
  <2>2. QED
    BY <1>1, <2>1, ExpandKept, NextCrateKept, ScanKept DEF Next, Over, NextCrate
<1>2. QED
  BY InitBookkeeping, <1>1, PTL DEF Spec

(* In particular every branch of the match leads to a field of the struct,  *)
(* and every DefId in MonitorsInfo is one of a crate of the session, at a   *)
(* DefIndex the crate has (MonitorsInfo, find_all_monitors).                *)
THEOREM TypeCorrect == Spec => []TypeOK
<1>1. Bookkeeping => TypeOK
  BY DEF Bookkeeping
<1>2. QED
  BY BookkeepingKept, <1>1, PTL

-----------------------------------------------------------------------------
(* What the macro does to the struct.                                       *)

LEMMA GivenKept ==
    ASSUME UNCHANGED <<given, crates>>
    PROVE  /\ \A k : Written(k)' = Written(k)
           /\ \A k, path : Claims(k, path)' <=> Claims(k, path)
           /\ \A k : Candidates(k)' = Candidates(k)
<1>1. given' = given /\ crates' = crates
  OBVIOUS
<1>2. ASSUME NEW k PROVE Written(k)' = Written(k)
  BY <1>1 DEF Written
<1>3. ASSUME NEW k PROVE MarkOf(k)' = MarkOf(k)
  BY <1>1, <1>2, Zenon DEF MarkOf
<1>4. ASSUME NEW k, NEW path PROVE Claims(k, path)' <=> Claims(k, path)
  BY <1>1, <1>2, <1>3 DEF Claims
<1>5. ASSUME NEW k PROVE Candidates(k)' = Candidates(k)
  BY <1>1, <1>4 DEF Candidates
<1>6. QED
  BY <1>2, <1>4, <1>5

LEMMA MacroStep ==
    ASSUME Bookkeeping, MacroTransparent, ExpandField
    PROVE  MacroTransparent'
<1>1. /\ field \in 1..Len(given) /\ ~panicked /\ field' = field + 1 /\ given' = given
      /\ (panicked' <=> Cardinality(Written(field)) > 1) /\ given[field] \in Field
      /\ crates' = crates
  BY ExpandFacts
<1>2. /\ struct'[field] = WithoutMarkers(given[field])
      /\ \A k \in 1..Len(given) : k # field => struct'[k] = struct[k]
  BY StructExpanded
<1>3. Len(given) \in Nat /\ \A k : Written(k)' = Written(k)
  BY <1>1, GivenKept, StructTypes DEF Bookkeeping, TypeOK
<1> SUFFICES ASSUME NEW k \in 1..field
             PROVE  /\ panicked' /\ k = field <=> Cardinality(Written(k)) > 1
                    /\ struct'[k].name = given[k].name
                    /\ struct'[k].attrs = OtherAttrs(given[k].attrs)
  <2>1. (field - 1)' = field
    BY <1>1
  <2>2. QED
    BY <1>1, <1>3, <2>1 DEF MacroTransparent
<1>4. CASE k = field
  BY <1>1, <1>2, <1>4, StrippedField, Zenon
<1>5. CASE k # field
  <2>1. k \in 1..field - 1 /\ k \in 1..Len(given) /\ struct'[k] = struct[k]
    BY <1>1, <1>2, <1>3, <1>5
  <2>2. QED
    BY <1>1, <1>5, <2>1 DEF MacroTransparent
<1>6. QED
  BY <1>4, <1>5

(* Whatever attributes the fields carry, the macro panics at exactly the    *)
(* first field with two paths and otherwise hands the struct on with all    *)
(* attributes but its own, in their order                                   *)
(* (get_defpath_from_marker_and_remove_marker).                             *)
THEOREM MacroHandsOn == Spec => []MacroTransparent
<1>1. Init => MacroTransparent
  BY DEF Init, MacroTransparent
<1>2. ASSUME Bookkeeping, MacroTransparent, [Next]_vars PROVE MacroTransparent'
  <2>1. CASE UNCHANGED <<given, crates, struct, field, panicked>>
    <3>1. \A k : Written(k)' = Written(k)
      BY <2>1, GivenKept
    <3>2. QED
      BY <1>2, <2>1, <3>1 DEF MacroTransparent
  <2>2. CASE ~UNCHANGED <<given, crates, struct, field, panicked>>
    <3>1. ExpandField
      BY <1>2, <2>2, NextCrateFacts, ScanFacts DEF Next, Over, NextCrate, vars, macro
    <3>2. QED
      BY <1>2, <3>1, MacroStep
  <2>3. QED
    BY <2>1, <2>2
<1>3. QED
  BY <1>1, <1>2, BookkeepingKept, PTL DEF Spec

-----------------------------------------------------------------------------
(* What the scan finds.                                                     *)

(* The first branch with a path is that of the first field marked with it,  *)
(* and there is none that no field asked for.                               *)
ClaimsFirst(k, path) == Claims(k, path) /\ \A j \in 1..k - 1 : ~Claims(j, path)

ArmsMarked ==
    /\ \A k \in 1..field - 1 : ClaimsFirst(k, MarkOf(k)) =>
          \E n \in DOMAIN arms :
              /\ arms[n] = <<MarkOf(k), given[k].name>>
              /\ \A m \in 1..n - 1 : arms[m][1] # MarkOf(k)
    /\ \A n \in DOMAIN arms : \E k \in 1..field - 1 : Claims(k, arms[n][1])

LEMMA ArmsStep ==
    ASSUME Bookkeeping, ArmsMarked, ExpandField
    PROVE  ArmsMarked'
<1> DEFINE name == given[field].name
           new == <<MarkOf(field), name>>
           adds == Cardinality(Written(field)) = 1 /\ name # NoName
<1>1. /\ field \in 1..Len(given) /\ field' = field + 1 /\ UNCHANGED <<given, crates>>
      /\ arms' = IF adds THEN Append(arms, new) ELSE arms
      /\ (adds => MarkOf(field) \in STRING /\ name \in Fields)
  BY ExpandFacts
<1>2. arms \in Seq(STRING \X Fields) /\ Len(given) \in Nat
  BY StructTypes DEF Bookkeeping, TypeOK
<1>3. \A path : Claims(field, path) <=> adds /\ MarkOf(field) = path
  BY DEF Claims
<1>4. /\ \A k : MarkOf(k)' = MarkOf(k)
      /\ \A k, path : /\ Claims(k, path)' <=> Claims(k, path)
                      /\ ClaimsFirst(k, path)' <=> ClaimsFirst(k, path)
  <2>1. \A k, path : Claims(k, path)' <=> Claims(k, path)
    BY <1>1, GivenKept
  <2>2. \A k : Written(k)' = Written(k)
    BY <1>1, GivenKept
  <2>3. QED
    BY <1>1, <2>1, <2>2, Zenon DEF MarkOf, ClaimsFirst
<1> HIDE DEF new, adds, name
<1>5. /\ Len(arms) \in Nat /\ DOMAIN arms = 1..Len(arms) /\ DOMAIN arms \subseteq DOMAIN arms'
      /\ \A n \in DOMAIN arms : arms'[n] = arms[n]
      /\ ~adds => arms' = arms
      /\ adds => /\ Len(arms) + 1 \in DOMAIN arms' /\ arms'[Len(arms) + 1] = new
                 /\ DOMAIN arms' = DOMAIN arms \cup {Len(arms) + 1}
  <2>1. CASE ~adds
    BY <1>1, <1>2, <2>1
  <2>2. CASE adds
    <3>1. new \in STRING \X Fields
      BY <1>1, <2>2 DEF new
    <3>2. QED
      BY <1>1, <1>2, <2>2, <3>1
  <2>3. QED
    BY <2>1, <2>2
<1>6. ASSUME NEW k \in 1..field, ClaimsFirst(k, MarkOf(k))
      PROVE  \E n \in DOMAIN arms' :
                 /\ arms'[n] = <<MarkOf(k), given[k].name>>
                 /\ \A m \in 1..n - 1 : arms'[m][1] # MarkOf(k)
  <2>1. CASE k # field
    <3>1. k \in 1..field - 1
      BY <1>1, <2>1
    <3>2. PICK n \in DOMAIN arms : /\ arms[n] = <<MarkOf(k), given[k].name>>
                                   /\ \A m \in 1..n - 1 : arms[m][1] # MarkOf(k)
      BY <1>6, <3>1 DEF ArmsMarked
    <3>3. \A m \in 1..n - 1 : m \in DOMAIN arms
      BY <1>5
    <3>4. n \in DOMAIN arms' /\ arms'[n] = arms[n] /\ \A m \in 1..n - 1 : arms'[m] = arms[m]
      BY <1>5, <3>3
    <3>5. QED
      BY <3>2, <3>4
  <2>2. CASE k = field
    <3>1. adds /\ \A j \in 1..field - 1 : ~Claims(j, MarkOf(field))
      BY <1>3, <1>6, <2>2 DEF ClaimsFirst
    <3>2. \A m \in DOMAIN arms : arms[m][1] # MarkOf(field)
      BY <3>1 DEF ArmsMarked
    <3>3. \A m \in 1..Len(arms) + 1 - 1 : arms'[m][1] # MarkOf(field)
      BY <1>5, <3>2
    <3>4. /\ Len(arms) + 1 \in DOMAIN arms'
          /\ arms'[Len(arms) + 1] = <<MarkOf(field), given[field].name>>
      BY <1>5, <3>1, Zenon DEF new, name
    <3>5. QED
      BY <2>2, <3>3, <3>4
  <2>3. QED
    BY <2>1, <2>2
<1>7. ASSUME NEW n \in DOMAIN arms' PROVE \E k \in 1..field : Claims(k, arms'[n][1])
  <2>1. CASE n \in DOMAIN arms
    <3>1. PICK k \in 1..field - 1 : Claims(k, arms[n][1])
      BY <2>1 DEF ArmsMarked
    <3>2. k \in 1..field
      BY <1>1
    <3>3. arms'[n] = arms[n]
      BY <1>5, <2>1, Zenon
    <3>4. QED
      BY <3>1, <3>2, <3>3, Zenon
  <2>2. CASE n \notin DOMAIN arms
    <3>1. adds /\ arms'[n] = new
      BY <1>5, <2>2
    <3>2. Claims(field, new[1])
      BY <1>3, <3>1 DEF new
    <3>3. QED
      BY <1>1, <3>1, <3>2
  <2>3. QED
    BY <2>1, <2>2
<1>8. (field - 1)' = field
  BY <1>1
<1>9. QED
  BY <1>1, <1>4, <1>6, <1>7, <1>8, Zenon DEF ArmsMarked

LEMMA ArmsKept == Spec => []ArmsMarked
<1>1. Init => ArmsMarked
  BY DEF Init, ArmsMarked
<1>2. ASSUME Bookkeeping, ArmsMarked, [Next]_vars PROVE ArmsMarked'
  <2>1. CASE UNCHANGED <<given, crates, arms, field>>
    <3>1. /\ \A k, path : Claims(k, path)' <=> Claims(k, path)
          /\ \A k : Written(k)' = Written(k)
      BY <2>1, GivenKept
    <3>2. \A k : MarkOf(k)' = MarkOf(k)
      BY <2>1, <3>1, Zenon DEF MarkOf
    <3>3. \A k, path : ClaimsFirst(k, path)' <=> ClaimsFirst(k, path)
      BY <3>1 DEF ClaimsFirst
    <3>4. QED
      BY <1>2, <2>1, <3>1, <3>2, <3>3 DEF ArmsMarked
  <2>2. CASE ~UNCHANGED <<given, crates, arms, field>>
    <3>1. ExpandField
      BY <1>2, <2>2, NextCrateFacts, ScanFacts DEF Next, Over, NextCrate, vars, macro
    <3>2. QED
      BY <1>2, <3>1, ArmsStep
  <2>3. QED
    BY <2>1, <2>2
<1>3. QED
  BY <1>1, <1>2, BookkeepingKept, PTL DEF Spec

(* The match, in terms of the marks.                                        *)
LEMMA TryMatchMeans ==
    ASSUME Bookkeeping, ArmsMarked, field > Len(given), NEW def, NEW at
    PROVE  \/ /\ TryMatch(def, at) = monitors
              /\ \/ def.root # MONITORS_LIB_CRATE_NAME
                 \/ \A k \in 1..Len(given) : ~Claims(k, def.path)
           \/ /\ def.root = MONITORS_LIB_CRATE_NAME
              /\ \E k \in 1..Len(given) :
                    /\ ClaimsFirst(k, def.path)
                    /\ TryMatch(def, at) = [monitors EXCEPT ![given[k].name] = at]
<1> DEFINE matching == {n \in DOMAIN arms : arms[n][1] = def.path}
           first == CHOOSE n \in matching : \A m \in matching : n <= m
           claiming == {k \in 1..Len(given) : Claims(k, def.path)}
<1>1. /\ Len(given) \in Nat /\ field - 1 = Len(given)
      /\ Len(arms) \in Nat /\ DOMAIN arms = 1..Len(arms)
  <2>1. arms \in Seq(STRING \X Fields) /\ field \in 1..Len(given) + 1 /\ Len(given) \in Nat
    BY StructTypes DEF Bookkeeping, TypeOK
  <2>2. QED
    BY <2>1
<1>2. TryMatch(def, at) = IF def.root = MONITORS_LIB_CRATE_NAME /\ matching # {}
                          THEN [monitors EXCEPT ![arms[first][2]] = at] ELSE monitors
  BY DEF TryMatch
<1>3. matching # {} => claiming # {}
  BY <1>1 DEF ArmsMarked
<1>4. ASSUME claiming # {}
      PROVE  \E k \in 1..Len(given) :
                /\ ClaimsFirst(k, def.path)
                /\ matching # {} /\ arms[first][2] = given[k].name
  <2>1. PICK k \in claiming : \A j \in claiming : k <= j
    <3>1. claiming \subseteq Nat
      BY <1>1
    <3> HIDE DEF claiming
    <3>2. QED
      BY <1>4, <3>1, LeastNumber, Zenon
  <2>2. \A j \in 1..k - 1 : j \in 1..Len(given) /\ ~(k <= j)
    BY <1>1, <2>1
  <2>3. ClaimsFirst(k, def.path)
    BY <2>1, <2>2 DEF ClaimsFirst
  <2>4. MarkOf(k) = def.path
    BY <2>1 DEF Claims
  <2>5. PICK n \in DOMAIN arms : /\ arms[n] = <<def.path, given[k].name>>
                                 /\ \A m \in 1..n - 1 : arms[m][1] # def.path
    BY <1>1, <2>1, <2>3, <2>4, Zenon DEF ArmsMarked
  <2>6. n \in matching /\ arms[n][2] = given[k].name
    BY <2>5
  <2>7. \A m \in matching : n <= m
    BY <1>1, <2>5
  <2>8. first \in matching /\ first <= n
    BY <2>6, <2>7
  <2>9. first = n
    BY <1>1, <2>7, <2>8
  <2>10. QED
    BY <2>1, <2>3, <2>6, <2>9, Zenon
<1> HIDE DEF matching, first
<1>5. CASE claiming = {}
  BY <1>2, <1>3, <1>5
<1>6. CASE claiming # {}
  <2>1. PICK k \in 1..Len(given) : /\ ClaimsFirst(k, def.path)
                                   /\ matching # {} /\ arms[first][2] = given[k].name
    BY <1>4, <1>6
  <2>2. QED
    BY <1>2, <2>1
<1>7. QED
  BY <1>5, <1>6

(* The candidates of a field before a place, and what the field holds then. *)
Seen(k, place) == {at \in Candidates(k) : Before(at, place)}

HoldsLast(seen, hook) ==
    IF seen = {} THEN hook = None
    ELSE hook \in seen /\ \A at \in seen : ~Before(hook, at)

LEMMA FoundUnfolded ==
    FoundAsMarked <=>
        \A k \in DOMAIN given : given[k].name # NoName =>
            HoldsLast(Seen(k, <<krate, id>>), monitors[given[k].name])
BY DEF FoundAsMarked, HoldsLast, Seen

LEMMA CandidatePlaces ==
    ASSUME crates \in CrateLists, NEW k, NEW at \in Candidates(k)
    PROVE  /\ at = <<at[1], at[2]>> /\ at[1] \in Nat \ {0} /\ at[2] \in Nat \ {0}
           /\ at[1] \in DOMAIN crates /\ at[2] \in DOMAIN crates[at[1]].defs
           /\ ~Mismatch(crates[at[1]])
<1>1. PICK c \in DOMAIN crates : at \in {<<c, i>> : i \in DOMAIN crates[c].defs}
  BY DEF Candidates
<1>2. PICK i \in DOMAIN crates[c].defs : at = <<c, i>>
  BY <1>1
<1>3. at[1] = c /\ at[2] = i
  BY <1>2
<1>4. c \in Nat \ {0} /\ i \in Nat \ {0}
  BY <1>1, <1>2, CrateTypes
<1>5. crates[at[1]].name = MONITORS_LIB_CRATE_NAME /\ ~crates[at[1]].local
  BY DEF Candidates
<1>6. QED
  BY <1>2, <1>3, <1>4, <1>5 DEF Mismatch

(* Going over to the next crate passes no candidate.                        *)
LEMMA NextCrateFound ==
    ASSUME Bookkeeping, FoundAsMarked, NextCrate
    PROVE  FoundAsMarked'
<1>1. /\ krate \in 0..Len(crates) /\ krate' = krate + 1 /\ id' = 1
      /\ UNCHANGED <<given, crates, monitors>>
      /\ krate \in DOMAIN crates =>
           Mismatch(crates[krate]) \/ \A i \in DOMAIN crates[krate].defs : i < id
  BY NextCrateFacts
<1>2. crates \in CrateLists /\ \A k : Candidates(k)' = Candidates(k)
  BY <1>1, GivenKept DEF Bookkeeping, TypeOK
<1>3. krate \in Nat /\ id \in Nat
  BY <1>1, <1>2, CrateTypes DEF Bookkeeping, ScanPlace
<1>4. ASSUME NEW k, NEW at \in Candidates(k)
      PROVE  Before(at, <<krate + 1, 1>>) <=> Before(at, <<krate, id>>)
  <2>1. /\ at[1] \in Nat \ {0} /\ at[2] \in Nat \ {0}
        /\ at[1] \in DOMAIN crates /\ at[2] \in DOMAIN crates[at[1]].defs
        /\ ~Mismatch(crates[at[1]])
    BY <1>2, CandidatePlaces
  <2>2. at[1] = krate => at[2] < id
    BY <1>1, <2>1
  <2>3. /\ Before(at, <<krate + 1, 1>>) <=> at[1] < krate + 1 \/ (at[1] = krate + 1 /\ at[2] < 1)
        /\ Before(at, <<krate, id>>) <=> at[1] < krate \/ (at[1] = krate /\ at[2] < id)
    BY DEF Before
  <2>4. QED
    BY <1>3, <2>1, <2>2, <2>3
<1>5. \A k : Seen(k, <<krate + 1, 1>>) = Seen(k, <<krate, id>>)
  BY <1>4 DEF Seen
<1>6. \A k : Seen(k, <<krate, id>>)' = Seen(k, <<krate, id>>)
  <2>1. \A k : Seen(k, <<krate, id>>)' = Seen(k, <<krate + 1, 1>>)
    BY <1>1, <1>2 DEF Seen, Before
  <2>2. QED
    BY <1>5, <2>1
<1>7. QED
  <2>1. ASSUME NEW k \in DOMAIN given, given[k].name # NoName
        PROVE  HoldsLast(Seen(k, <<krate, id>>)', monitors[given[k].name])
    BY <1>6, <2>1, FoundUnfolded
  <2>2. FoundAsMarked' <=>
            \A k \in DOMAIN given : given[k].name # NoName =>
                HoldsLast(Seen(k, <<krate, id>>)', monitors[given[k].name])
    BY <1>1 DEF FoundAsMarked, HoldsLast, Seen, Before
  <2>3. QED
    BY <2>1, <2>2

(* Passing a definition, its fields take it and the others keep what they   *)
(* have.                                                                    *)
LEMMA ScanFound ==
    ASSUME Bookkeeping, ArmsMarked, FoundAsMarked, ScanDef
    PROVE  FoundAsMarked'
<1> DEFINE def == crates[krate].defs[id]
           at == <<krate, id>>
<1>1. /\ krate \in DOMAIN crates /\ ~Mismatch(crates[krate])
      /\ id \in DOMAIN crates[krate].defs /\ id' = id + 1 /\ field > Len(given)
      /\ UNCHANGED <<given, crates, krate>>
      /\ monitors' = IF def.kind = "Fn" THEN TryMatch(def, at) ELSE monitors
  BY ScanFacts
<1>2. /\ crates \in CrateLists /\ given \in Structs /\ krate \in Nat /\ id \in Nat
      /\ Len(given) \in Nat /\ DOMAIN given = 1..Len(given)
      /\ \A k : Candidates(k)' = Candidates(k)
  BY <1>1, GivenKept, CrateTypes, StructTypes DEF Bookkeeping, TypeOK, ScanPlace
<1>3. at[1] = krate /\ at[2] = id
  OBVIOUS
<1>4. ASSUME NEW k
      PROVE  at \in Candidates(k) <=>
               /\ def.kind = "Fn" /\ def.root = MONITORS_LIB_CRATE_NAME
               /\ ClaimsFirst(k, def.path)
  <2>1. at \in UNION {{<<c, i>> : i \in DOMAIN crates[c].defs} : c \in DOMAIN crates}
    BY <1>1
  <2>2. crates[krate].name = MONITORS_LIB_CRATE_NAME /\ ~crates[krate].local
    BY <1>1 DEF Mismatch
  <2>3. QED
    BY <1>3, <2>1, <2>2 DEF Candidates, ClaimsFirst
<1>5. ASSUME NEW k, NEW x \in Candidates(k)
      PROVE  /\ Before(x, <<krate, id + 1>>) <=> Before(x, at) \/ x = at
             /\ Before(x, at) => ~Before(at, x)
             /\ ~Before(at, at)
  <2>1. x = <<x[1], x[2]>> /\ x[1] \in Nat /\ x[2] \in Nat
    BY <1>2, CandidatePlaces
  <2>2. /\ Before(x, <<krate, id + 1>>) <=> x[1] < krate \/ (x[1] = krate /\ x[2] < id + 1)
        /\ Before(x, at) <=> x[1] < krate \/ (x[1] = krate /\ x[2] < id)
        /\ Before(at, x) <=> krate < x[1] \/ (krate = x[1] /\ id < x[2])
        /\ Before(at, at) <=> krate < krate \/ (krate = krate /\ id < id)
    BY DEF Before
  <2>3. x = at <=> x[1] = krate /\ x[2] = id
    BY <2>1
  <2> HIDE DEF at
  <2>4. QED
    BY <1>2, <2>1, <2>2, <2>3
<1> DEFINE now(k) == Seen(k, at)
           then(k) == Seen(k, <<krate, id + 1>>)
<1>6. \A k : then(k) = now(k) \cup ({at} \cap Candidates(k))
  BY <1>5 DEF Seen
<1>7. \/ /\ monitors' = monitors
         /\ \A k \in 1..Len(given) : at \notin Candidates(k)
      \/ \E k \in 1..Len(given) : /\ at \in Candidates(k)
                                  /\ monitors' = [monitors EXCEPT ![given[k].name] = at]
  <2>1. CASE def.kind # "Fn"
    BY <1>1, <1>4, <2>1
  <2>2. CASE def.kind = "Fn"
    <3>1. \/ /\ TryMatch(def, at) = monitors
             /\ \/ def.root # MONITORS_LIB_CRATE_NAME
                \/ \A k \in 1..Len(given) : ~Claims(k, def.path)
          \/ /\ def.root = MONITORS_LIB_CRATE_NAME
             /\ \E k \in 1..Len(given) :
                   /\ ClaimsFirst(k, def.path)
                   /\ TryMatch(def, at) = [monitors EXCEPT ![given[k].name] = at]
      BY <1>1, TryMatchMeans, Zenon
    <3>2. monitors' = TryMatch(def, at)
      BY <1>1, <2>2
    <3> HIDE DEF def, at
    <3>3. QED
      BY <1>4, <2>2, <3>1, <3>2 DEF ClaimsFirst
  <2>3. QED
    BY <2>1, <2>2
<1> HIDE DEF at, def, now, then
<1>8. ASSUME NEW k \in 1..Len(given), given[k].name # NoName
      PROVE  HoldsLast(then(k), monitors'[given[k].name])
  <2> DEFINE f == given[k].name
  <2>1. HoldsLast(now(k), monitors[f])
    BY <1>2, <1>8, FoundUnfolded DEF now, at
  <2>2. f \in Fields /\ f \in DOMAIN monitors
    BY <1>2, <1>8 DEF Fields, Bookkeeping
  <2>3. CASE at \notin Candidates(k)
    <3>1. then(k) = now(k)
      BY <1>6, <2>3, Zenon
    <3>2. monitors'[f] = monitors[f]
      <4>1. ASSUME NEW j \in 1..Len(given), at \in Candidates(j),
                   monitors' = [monitors EXCEPT ![given[j].name] = at]
            PROVE  monitors'[f] = monitors[f]
        <5>1. given[j].name # f
          BY <1>2, <1>8, <2>3, <4>1, FinderAssumption
        <5>2. QED
          BY <2>2, <4>1, <5>1
      <4>2. QED
        BY <1>7, <4>1
    <3>3. QED
      BY <2>1, <3>1, <3>2
  <2>4. CASE at \in Candidates(k)
    <3>1. then(k) = now(k) \cup {at}
      BY <1>6, <2>4
    <3>2. monitors'[f] = at
      <4>1. PICK j \in 1..Len(given) : /\ at \in Candidates(j)
                                       /\ monitors' = [monitors EXCEPT ![given[j].name] = at]
        BY <1>7, <2>4
      <4>2. ClaimsFirst(j, def.path) /\ ClaimsFirst(k, def.path)
        BY <1>4, <2>4, <4>1
      <4>3. j = k
        BY <4>2 DEF ClaimsFirst
      <4>4. QED
        BY <2>2, <4>1, <4>3
    <3>3. \A x \in then(k) : ~Before(at, x)
      <4>1. \A x \in now(k) : x \in Candidates(k) /\ Before(x, at)
        BY DEF now, Seen
      <4>2. QED
        BY <1>5, <2>4, <3>1, <4>1
    <3>4. QED
      BY <3>1, <3>2, <3>3 DEF HoldsLast
  <2>5. QED
    BY <2>3, <2>4
<1>9. \A k : Seen(k, <<krate, id>>)' = then(k)
  BY <1>1, <1>2 DEF Seen, Before, then
<1>10. FoundAsMarked' <=>
          \A k \in DOMAIN given : given[k].name # NoName =>
              HoldsLast(Seen(k, <<krate, id>>)', monitors'[given[k].name])
  BY <1>1 DEF FoundAsMarked, HoldsLast, Seen, Before
<1>11. QED
  BY <1>2, <1>8, <1>9, <1>10

(* Every function of the monitor library that a field is marked with, and   *)
(* nothing else, gets into that field, at every point of the scan and for   *)
(* every list of crates: none is missed at the end of a crate or behind a   *)
(* crate that is left out, and of several the last one counts               *)
(* (find_all_monitors, try_match_with_our_function).                        *)
THEOREM FindsTheMarked == Spec => []FoundAsMarked
<1>1. Init => FoundAsMarked
  <2> SUFFICES ASSUME Init PROVE FoundAsMarked
    OBVIOUS
  <2>1. krate = 0 /\ id = 1 /\ crates \in CrateLists /\ monitors = [f \in Fields |-> None]
    BY DEF Init
  <2>2. ASSUME NEW k \in DOMAIN given, given[k].name # NoName
        PROVE  HoldsLast(Seen(k, <<krate, id>>), monitors[given[k].name])
    <3>1. ASSUME NEW at \in Candidates(k) PROVE ~Before(at, <<krate, id>>)
      <4>1. at[1] \in Nat \ {0} /\ at[2] \in Nat \ {0}
        BY <2>1, CandidatePlaces
      <4>2. Before(at, <<0, 1>>) <=> at[1] < 0 \/ (at[1] = 0 /\ at[2] < 1)
        BY DEF Before
      <4>3. QED
        BY <2>1, <4>1, <4>2
    <3>2. Seen(k, <<krate, id>>) = {}
      BY <3>1 DEF Seen
    <3>3. given[k].name \in Fields
      BY <2>2 DEF Fields
    <3>4. QED
      BY <2>1, <3>2, <3>3 DEF HoldsLast
  <2>3. QED
    BY <2>2, FoundUnfolded
<1>2. ASSUME Bookkeeping, ArmsMarked, FoundAsMarked, [Next]_vars PROVE FoundAsMarked'
  <2>1. CASE UNCHANGED <<given, crates, krate, id, monitors>>
    <3>1. \A k : Candidates(k)' = Candidates(k)
      BY <2>1, GivenKept
    <3>2. QED
      BY <1>2, <2>1, <3>1 DEF FoundAsMarked, Before
  <2>2. CASE ~UNCHANGED <<given, crates, krate, id, monitors>>
    <3>1. NextCrate \/ ScanDef
      BY <1>2, <2>2, ExpandFacts DEF Next, Over, NextCrate, vars, session
    <3>2. QED
      BY <1>2, <3>1, NextCrateFound, ScanFound
  <2>3. QED
    BY <2>1, <2>2
<1>3. QED
  BY <1>1, <1>2, BookkeepingKept, ArmsKept, PTL DEF Spec
=============================================================================
