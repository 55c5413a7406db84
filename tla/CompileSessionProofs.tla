------------------------ MODULE CompileSessionProofs ------------------------
(* Theorems about CompileSession, for any number of crates and bodies, any  *)
(* inlining and any flags.                                                  *)
EXTENDS CompileSession, TLAPS

LEMMA CrateRange ==
    /\ LastCrate \in Nat /\ 1 \in 1..LastCrate
    /\ \A k \in 1..LastCrate : k < LastCrate => k + 1 \in 1..LastCrate
BY SessionAssumption

LEMMA InitTyped == Init => TypeOK
<1> SUFFICES ASSUME Init PROVE TypeOK
  OBVIOUS
<1>1. linked \in [1..LastCrate -> BOOLEAN]
  BY DEF Init
<1>2. query \in [Bodies -> QueryStates] /\ mir \in [Bodies -> SUBSET Copies]
  BY DEF Init, QueryStates
<1> QED BY <1>1, <1>2, CrateRange, Zenon DEF Init, TypeOK, Phases

(* What the operators of the queries return.                                *)
LEMMA OriginalTyped ==
    ASSUME TypeOK, NEW b \in Bodies
    PROVE  Original(b) \subseteq Copies
<1>1. [of |-> b, layers |-> 0] \in Copies
  BY DEF Copies
<1>2. Inlined(b) \subseteq Bodies
  BY SessionAssumption DEF Inlined
<1>3. \A c \in Inlined(b) : mir[c] \subseteq Copies
  BY <1>2 DEF TypeOK
<1> QED BY <1>1, <1>3 DEF Original

LEMMA HookedTyped ==
    ASSUME TypeOK, NEW b \in Bodies
    PROVE  Hooked(b) \subseteq Copies
<1>1. mir[b] \subseteq Copies
  BY DEF TypeOK
<1>2. \A c \in Copies : [c EXCEPT !.layers = @ + 1] \in Copies
  BY DEF Copies
<1> QED BY <1>1, <1>2 DEF Hooked

LEMMA FactsTyped ==
    ASSUME TypeOK, NEW k \in 1..LastCrate
    PROVE  /\ facts[k] \in Facts
           /\ facts[k].entry \in Bodies => Home[facts[k].entry] = k
           /\ WillWork(k) \in BOOLEAN
           /\ Chosen(k) \in BOOLEAN
<1>1. facts \in FactSets /\ facts \in [1..LastCrate -> Facts]
  BY SessionAssumption DEF TypeOK
<1>2. facts[k] \in Facts
  BY <1>1
<1> QED BY <1>1, <1>2, SessionAssumption DEF WillWork, Chosen, TypeOK

LEMMA NextTyped == TypeOK /\ [Next]_vars => TypeOK'
<1> SUFFICES ASSUME TypeOK, [Next]_vars PROVE TypeOK'
  OBVIOUS
<1>a. LastCrate \in Nat /\ Home \in [Bodies -> 1..LastCrate]
  BY SessionAssumption
<1>b. /\ crate \in 1..LastCrate /\ This \in Facts
      /\ WillWork(crate) \in BOOLEAN
      /\ This.entry \in Bodies \cup {NoEntry, Elsewhere}
  BY FactsTyped DEF TypeOK, This, Facts
<1> USE <1>a, <1>b DEF TypeOK, Phases, session, result
<1>1. CASE Config
  BY <1>1 DEF Config
<1>2. CASE AfterExpansion
  BY <1>2, Zenon DEF AfterExpansion
<1>3. CASE Analysis
  BY <1>3 DEF Analysis
<1>4. CASE SkipCrate
  BY <1>4 DEF SkipCrate
<1>5. CASE GiveUp
  BY <1>5 DEF GiveUp
<1>6. CASE StartInstrument
  BY <1>6 DEF StartInstrument
<1>7. CASE Codegen
  BY <1>7 DEF Codegen
<1>8. CASE NextCrate
  <2>1. crate + 1 \in 1..LastCrate
    BY <1>8, CrateRange DEF NextCrate
  <2> QED BY <1>8, <2>1, Zenon DEF NextCrate
<1>9. ASSUME NEW b \in Bodies, Query(b) PROVE TypeOK'
  <2>1. CASE Ask(b)
    BY <2>1 DEF Ask, SetQuery, QueryStates
  <2>2. CASE Optimize(b)
    BY <2>2, OriginalTyped DEF Optimize, SetQuery, QueryStates
  <2>3. CASE LoadStart(b)
    BY <2>3 DEF LoadStart, SetQuery, QueryStates
  <2>4. CASE Instrument(b)
    BY <2>4, HookedTyped DEF Instrument, SetQuery, QueryStates
  <2>5. CASE CrashInstrumenting(b)
    BY <2>5 DEF CrashInstrumenting
  <2> QED BY <1>9, <2>1, <2>2, <2>3, <2>4, <2>5 DEF Query
<1>10. CASE UNCHANGED vars
  BY <1>10 DEF vars
<1> QED BY <1>1, <1>2, <1>3, <1>4, <1>5, <1>6, <1>7, <1>8, <1>9, <1>10
        DEF Next, Driver, Stopped

(* Type correctness of the compile sessions.                                *)
THEOREM TypeCorrect == Spec => []TypeOK
<1> QED BY InitTyped, NextTyped, PTL DEF Spec

-----------------------------------------------------------------------------
(* The inductive invariant: the statics.                                    *)

LEMMA InitStatics == Init => StaticsInOrder
BY DEF Init, StaticsInOrder

LEMMA NextStatics == TypeOK /\ SessionInvariant /\ [Next]_vars => StaticsInOrder'
<1> SUFFICES ASSUME TypeOK, SessionInvariant, [Next]_vars PROVE StaticsInOrder'
  OBVIOUS
<1>a. crate \in 1..LastCrate /\ linked \in [1..LastCrate -> BOOLEAN]
  BY DEF TypeOK
<1>b. StaticsInOrder
  BY DEF SessionInvariant
<1>c. /\ WillWork(crate) \in BOOLEAN /\ Chosen(crate) \in BOOLEAN
      /\ work \in BOOLEAN /\ monitors \in BOOLEAN /\ start \in BOOLEAN
  BY <1>a, FactsTyped DEF TypeOK
<1>d. phase \in Phases
  BY DEF TypeOK
<1> USE <1>a, <1>b, <1>c, <1>d DEF StaticsInOrder, session, result, This, Phases
<1>1. CASE Config
  BY <1>1 DEF Config, WillWork, Chosen
<1>2. CASE AfterExpansion
  BY <1>2, Zenon DEF AfterExpansion, AlreadySet, WillWork, Chosen
<1>3. CASE Analysis
  BY <1>3 DEF Analysis, WillWork, Chosen
<1>4. CASE SkipCrate
  BY <1>4 DEF SkipCrate, LeftAlone, WillWork, Chosen
<1>5. CASE GiveUp
  BY <1>5 DEF GiveUp, WillWork, Chosen
<1>6. CASE StartInstrument
  BY <1>6 DEF StartInstrument, LeftAlone, WillWork, Chosen
<1>7. CASE Codegen
  BY <1>7 DEF Codegen, WillWork, Chosen
<1>8. CASE NextCrate
  BY <1>8 DEF NextCrate
<1>9. ASSUME NEW b \in Bodies, Query(b) PROVE StaticsInOrder'
  <2>1. CASE UNCHANGED <<facts, flags, crate, phase, linked, session>>
    BY <2>1 DEF WillWork, Chosen
  <2>2. CASE CrashInstrumenting(b)
    BY <2>2 DEF CrashInstrumenting, WillWork, Chosen
  <2> QED BY <1>9, <2>1, <2>2 DEF Query, Ask, Optimize, LoadStart, Instrument
<1>10. CASE UNCHANGED vars
  BY <1>10 DEF vars, WillWork, Chosen
<1> QED BY <1>1, <1>2, <1>3, <1>4, <1>5, <1>6, <1>7, <1>8, <1>9, <1>10
        DEF Next, Driver, Stopped

-----------------------------------------------------------------------------
(* The inductive invariant: the queries.                                    *)

LEMMA InitQueries == Init => QueriesInOrder
<1> SUFFICES ASSUME Init, NEW b \in Bodies PROVE QueriesInOrder!(b)
  BY DEF QueriesInOrder
<1>1. Home[b] \in Nat /\ ~(Home[b] < 1)
  BY SessionAssumption
<1>2. query[b] = "unasked" /\ phase = "config" /\ crate = 1
  BY DEF Init
<1> QED BY <1>1, <1>2

(* Of the steps of the driver only those that change phase or crate matter. *)
LEMMA NextQueries == TypeOK /\ SessionInvariant /\ [Next]_vars => QueriesInOrder'
<1> SUFFICES ASSUME TypeOK, SessionInvariant, [Next]_vars, NEW b \in Bodies
             PROVE  QueriesInOrder!(b)'
  BY DEF QueriesInOrder
<1>a. QueriesInOrder!(b) /\ StaticsInOrder
  BY DEF SessionInvariant, QueriesInOrder
<1>b. /\ Home[b] \in 1..LastCrate /\ crate \in 1..LastCrate /\ LastCrate \in Nat
      /\ query[b] \in QueryStates /\ phase \in Phases
  BY SessionAssumption DEF TypeOK
<1> USE <1>a, <1>b DEF session, result, Phases, QueryStates
<1>1. CASE Config
  BY <1>1 DEF Config, StaticsInOrder
<1>2. CASE AfterExpansion
  BY <1>2 DEF AfterExpansion
<1>3. CASE Analysis
  BY <1>3 DEF Analysis, QueriesIdle
<1>4. CASE SkipCrate
  BY <1>4 DEF SkipCrate
<1>5. CASE GiveUp
  BY <1>5 DEF GiveUp
<1>6. CASE StartInstrument
  BY <1>6 DEF StartInstrument, StaticsInOrder
<1>7. CASE Codegen
  BY <1>7 DEF Codegen
<1>8. CASE NextCrate
  BY <1>8 DEF NextCrate
<1>9. ASSUME NEW d \in Bodies, Query(d) PROVE QueriesInOrder!(b)'
  <2>1. CASE Ask(d)
    BY <2>1 DEF Ask, Wants, SetQuery, TypeOK
  <2>2. CASE Optimize(d)
    BY <2>2 DEF Optimize, SetQuery, TypeOK
  <2>3. CASE LoadStart(d)
    BY <2>3 DEF LoadStart, SetQuery, TypeOK
  <2>4. CASE Instrument(d)
    BY <2>4 DEF Instrument, SetQuery, TypeOK
  <2>5. CASE CrashInstrumenting(d)
    BY <2>5 DEF CrashInstrumenting
  <2> QED BY <1>9, <2>1, <2>2, <2>3, <2>4, <2>5 DEF Query
<1>10. CASE UNCHANGED vars
  BY <1>10 DEF vars
<1> QED BY <1>1, <1>2, <1>3, <1>4, <1>5, <1>6, <1>7, <1>8, <1>9, <1>10
        DEF Next, Driver, Stopped

-----------------------------------------------------------------------------
(* The inductive invariant: the bodies.                                     *)

LEMMA InitBodies == Init => BodiesInOrder
BY DEF Init, BodiesInOrder

(* What the two steps that write a body write.                              *)
LEMMA OriginalContents ==
    ASSUME TypeOK, BodiesInOrder, NEW b \in Bodies, query[b] = "asked",
           \A c \in Inlined(b) : query[c] = "done"
    PROVE  /\ [of |-> b, layers |-> 0] \in Original(b)
           /\ \A c \in Original(b) : c.of = b => c.layers = 0
           /\ \A c \in Original(b) : c.of = b \/ query[c.of] = "done"
           /\ flags.level <= 1 => \A c \in Original(b) : c.layers = 0
<1>1. Inlined(b) \subseteq Bodies
  BY SessionAssumption DEF Inlined
<1>2. ASSUME NEW c \in Original(b)
      PROVE  \/ c = [of |-> b, layers |-> 0]
             \/ \E d \in Inlined(b) : c \in mir[d]
  BY DEF Original
<1>3. ASSUME NEW d \in Inlined(b), NEW c \in mir[d]
      PROVE  c.of # b /\ query[c.of] = "done"
  BY <1>1, <1>3, Zenon DEF BodiesInOrder
<1>4. flags.level <= 1 => Inlined(b) = {}
  <2>1. flags.level \in 0..4 \cup {-1}
    BY SessionAssumption DEF TypeOK, Flags, NotGiven
  <2> QED BY <2>1 DEF Inlined, InlinerOn, Level, NotGiven
<1> QED BY <1>2, <1>3, <1>4 DEF Original

LEMMA HookedContents ==
    ASSUME TypeOK, BodiesInOrder, NEW b \in Bodies, query[b] = "instrumenting"
    PROVE  /\ This.filtered => Hooked(b) = mir[b]
           /\ ~This.filtered => \A c \in Hooked(b) : c.layers # 0
           /\ \A c \in Hooked(b) : c.of = b \/ query[c.of] = "done"
           /\ flags.level <= 1 => \A c \in Hooked(b) : c.layers <= 1
<1>1. mir[b] \subseteq Copies
  BY DEF TypeOK
<1>2. ASSUME ~This.filtered, NEW c \in Hooked(b)
      PROVE  \E d \in mir[b] : c.of = d.of /\ c.layers = d.layers + 1 /\ d.layers \in Nat
  BY <1>1, <1>2 DEF Hooked, Copies
<1>3. flags.level <= 1 => \A d \in mir[b] : d.layers = 0
  BY Zenon DEF BodiesInOrder
<1>4. \A c \in mir[b] : c.of = b \/ query[c.of] = "done"
  BY Zenon DEF BodiesInOrder
<1>5. CASE This.filtered
  BY <1>3, <1>4, <1>5 DEF Hooked
<1>6. CASE ~This.filtered
  BY <1>2, <1>3, <1>4, <1>6
<1> QED BY <1>5, <1>6

(* A body whose query ends in a session without the switch is not wanted,   *)
(* or was asked for early; whether it is wanted never changes.              *)
LEMMA WantedKept == UNCHANGED <<facts, flags>> => Wanted' = Wanted
BY DEF Wanted, Chosen, WillWork

LEMMA NextBodies == TypeOK /\ SessionInvariant /\ [Next]_vars => BodiesInOrder'
<1> SUFFICES ASSUME TypeOK, SessionInvariant, [Next]_vars, NEW b \in Bodies
             PROVE  BodiesInOrder!(b)'
  BY Zenon DEF BodiesInOrder
<1>a. BodiesInOrder /\ BodiesInOrder!(b) /\ QueriesInOrder /\ StaticsInOrder
  BY DEF SessionInvariant, BodiesInOrder
<1>b. /\ query \in [Bodies -> QueryStates] /\ mir \in [Bodies -> SUBSET Copies]
      /\ \A c \in mir[b] : c.of \in Bodies
  BY DEF TypeOK, Copies
<1>1. CASE UNCHANGED <<facts, flags, result>>
  <2>1. Wanted' = Wanted /\ query' = query /\ mir' = mir /\ hooked' = hooked /\ flags' = flags
    BY <1>1, WantedKept DEF result
  <2> QED BY <2>1, <1>a
(* A step that takes the query of d from one state to a later one, and      *)
(* leaves the other bodies alone.                                           *)
<1>2. ASSUME NEW d \in Bodies, NEW s \in QueryStates,
             query' = [query EXCEPT ![d] = s], query[d] # "done",
             \A c \in Bodies \ {d} : mir'[c] = mir[c],
             hooked' \ {d} = hooked \ {d}, UNCHANGED <<facts, flags>>,
             b # d
      PROVE  BodiesInOrder!(b)'
  <2>1. Wanted' = Wanted /\ flags' = flags
    BY <1>2, WantedKept
  <2>2. query'[b] = query[b] /\ mir'[b] = mir[b] /\ (b \in hooked' <=> b \in hooked)
    BY <1>2, <1>b
  <2>3. \A c \in mir[b] : query[c.of] = "done" => query'[c.of] = "done"
    BY <1>2, <1>b
  <2> QED BY <2>1, <2>2, <2>3, <1>a
<1>3. ASSUME NEW d \in Bodies, Ask(d) PROVE BodiesInOrder!(b)'
  <2>1. /\ query' = [query EXCEPT ![d] = "asked"] /\ query[d] = "unasked"
        /\ UNCHANGED <<facts, flags, mir, hooked>>
    BY <1>3 DEF Ask, SetQuery
  <2>2. CASE b # d
    BY <2>1, <2>2, <1>2, Zenon DEF QueryStates
  <2>3. CASE b = d
    <3>1. query'[b] = "asked" /\ mir'[b] = {} /\ b \notin hooked'
      BY <2>1, <2>3, <1>a, <1>b
    <3> QED BY <3>1
  <2> QED BY <2>2, <2>3
<1>4. ASSUME NEW d \in Bodies, Optimize(d) PROVE BodiesInOrder!(b)'
  <2>1. /\ query' = [query EXCEPT ![d] = IF overridden THEN "optimized" ELSE "done"]
        /\ query[d] = "asked" /\ mir' = [mir EXCEPT ![d] = Original(d)]
        /\ UNCHANGED <<facts, flags, hooked>>
        /\ \A c \in Inlined(d) : query[c] = "done"
    BY <1>4 DEF Optimize, SetQuery
  <2>2. CASE b # d
    BY <2>1, <2>2, <1>2, <1>b, Zenon DEF QueryStates
  <2>3. CASE b = d
    <3>1. Home[d] = crate /\ phase \in {"analysis", "codegen"}
      BY <1>4, <1>a DEF Optimize, QueriesInOrder
    <3>2. ~overridden => d \notin Wanted'
      BY <2>1, <3>1, <1>a, WantedKept DEF StaticsInOrder, Wanted, Chosen
    <3>3. /\ query'[b] \in {"optimized", "done"}
          /\ query'[b] = "done" => ~overridden
          /\ mir'[b] = Original(b) /\ b \notin hooked'
      BY <2>1, <2>3, <1>a, <1>b
    <3>4. \A c \in Original(b) : c.of \in Bodies
      BY OriginalTyped DEF Copies
    <3>5. \A c \in Original(b) : c.of = b \/ query'[c.of] = "done"
      BY <2>1, <2>3, <3>4, <1>a, <1>b, OriginalContents, Zenon
    <3>6. /\ [of |-> b, layers |-> 0] \in mir'[b]
          /\ \A c \in mir'[b] : c.of = b => c.layers = 0
          /\ flags'.level <= 1 => \A c \in mir'[b] : c.layers = 0
      BY <2>1, <2>3, <3>3, <1>a, OriginalContents
    <3> QED BY <2>3, <3>2, <3>3, <3>5, <3>6
  <2> QED BY <2>2, <2>3
<1>5. ASSUME NEW d \in Bodies, LoadStart(d) PROVE BodiesInOrder!(b)'
  <2>1. /\ query' = [query EXCEPT ![d] = IF start THEN "instrumenting" ELSE "done"]
        /\ query[d] = "optimized" /\ UNCHANGED <<facts, flags, mir, hooked>>
    BY <1>5 DEF LoadStart, SetQuery
  <2>2. CASE b # d
    BY <2>1, <2>2, <1>2, Zenon DEF QueryStates
  <2>3. CASE b = d
    <3>1. Home[d] = crate /\ phase \in {"analysis", "codegen"} /\ query[d] # "unasked"
      BY <1>5, <1>a DEF LoadStart, QueriesInOrder
    <3>2. ~start => d \notin Wanted' \ Early
      BY <2>1, <3>1, <1>a, WantedKept DEF StaticsInOrder, QueriesInOrder, Wanted
    <3>3. /\ query'[b] \in {"instrumenting", "done"}
          /\ query'[b] = "done" => ~start
          /\ mir'[b] = mir[b] /\ b \notin hooked' /\ flags' = flags
      BY <2>1, <2>3, <1>a, <1>b
    <3>4. \A c \in mir[b] : query[c.of] = "done" => query'[c.of] = "done"
      BY <2>1, <1>b
    <3> QED BY <2>1, <2>3, <3>2, <3>3, <3>4, <1>a
  <2> QED BY <2>2, <2>3
<1>6. ASSUME NEW d \in Bodies, Instrument(d) PROVE BodiesInOrder!(b)'
  <2>1. /\ mir' = [mir EXCEPT ![d] = Hooked(d)] /\ query' = [query EXCEPT ![d] = "done"]
        /\ UNCHANGED <<facts, flags>> /\ query[d] = "instrumenting"
        /\ hooked' \ {d} = hooked \ {d}
    BY <1>6 DEF Instrument, SetQuery
  <2>2. CASE b # d
    BY <2>1, <2>2, <1>2, <1>b, Zenon DEF QueryStates
  <2>3. CASE b = d
    <3>1. Home[d] = crate /\ Chosen(crate)
      BY <2>1, <1>a DEF QueriesInOrder, StaticsInOrder
    <3>2. d \in Wanted' <=> ~This.filtered
      BY <2>1, <3>1, WantedKept DEF Wanted, This
    <3>3. query'[b] = "done" /\ mir'[b] = Hooked(b) /\ flags' = flags
      BY <2>1, <2>3, <1>b
    <3>4. \A c \in Hooked(b) : c.of \in Bodies
      BY HookedTyped DEF Copies
    <3>5. \A c \in mir'[b] : c.of = b \/ query'[c.of] = "done"
      BY <2>1, <2>3, <3>3, <3>4, <1>a, <1>b, HookedContents
    <3>6. /\ b \notin Wanted' => [of |-> b, layers |-> 0] \in mir'[b]
          /\ b \in Wanted' => [of |-> b, layers |-> 0] \notin mir'[b]
      BY <2>1, <2>3, <3>2, <3>3, <1>a, HookedContents
    <3>7. flags'.level <= 1 => \A c \in mir'[b] : c.layers <= 1
      BY <2>1, <2>3, <3>3, <1>a, HookedContents
    <3> QED BY <3>3, <3>5, <3>6, <3>7
  <2> QED BY <2>2, <2>3
<1> QED BY <1>1, <1>3, <1>4, <1>5, <1>6
        DEF Next, Driver, Stopped, vars, result, Query, Config, AfterExpansion, Analysis,
            SkipCrate, GiveUp, StartInstrument, Codegen, NextCrate, CrashInstrumenting

(* The sessions' state is always what SessionInvariant says.                *)
THEOREM InvariantKept == Spec => []SessionInvariant
<1>1. Init => SessionInvariant
  BY InitStatics, InitQueries, InitBodies DEF SessionInvariant
<1>2. TypeOK /\ SessionInvariant /\ [Next]_vars => SessionInvariant'
  BY NextStatics, NextQueries, NextBodies DEF SessionInvariant
<1> QED BY <1>1, <1>2, TypeCorrect, PTL DEF Spec

(* No operation gets two layers of hooks unless the user asked for a level  *)
(* that inlines.                                                            *)
THEOREM NeverDoubled == Spec => []HooksNotDoubled
<1>1. SessionInvariant => HooksNotDoubled
  BY Zenon DEF SessionInvariant, BodiesInOrder, HooksNotDoubled
<1> QED BY <1>1, InvariantKept, PTL

-----------------------------------------------------------------------------
(* Crashes                                                                  *)

LEMMA NextCrashes ==
    TypeOK /\ SessionInvariant /\ CrashesOnlyOnForeignEntry /\ [Next]_vars
        => CrashesOnlyOnForeignEntry'
<1> SUFFICES ASSUME TypeOK, SessionInvariant, CrashesOnlyOnForeignEntry, [Next]_vars,
                    phase' = "ice"
             PROVE  Chosen(crate)' /\ This.entry' = Elsewhere
  BY DEF CrashesOnlyOnForeignEntry
<1>a. StaticsInOrder /\ QueriesInOrder /\ This.entry \in Bodies \cup {NoEntry, Elsewhere}
  BY FactsTyped DEF SessionInvariant, TypeOK, This, Facts
<1> USE <1>a
<1>1. CASE phase = "ice" /\ UNCHANGED <<facts, flags, crate>>
  BY <1>1 DEF CrashesOnlyOnForeignEntry, Chosen, WillWork, This
<1>2. ~AfterExpansion
  BY DEF AfterExpansion, AlreadySet, StaticsInOrder
<1>3. ~StartInstrument
  BY DEF StartInstrument, LeftAlone, StaticsInOrder
<1>4. ASSUME NEW b \in Bodies, CrashInstrumenting(b)
      PROVE  Chosen(crate)' /\ This.entry' = Elsewhere
  <2>1. start
    BY <1>4 DEF CrashInstrumenting, QueriesInOrder
  <2>2. Chosen(crate) /\ This.entry = Elsewhere
    BY <1>4, <2>1 DEF CrashInstrumenting, StaticsInOrder
  <2> QED BY <1>4, <2>2 DEF CrashInstrumenting, Chosen, WillWork, This
<1> QED BY <1>1, <1>2, <1>3, <1>4
        DEF Next, Driver, Stopped, vars, session, Query, Config, Analysis, SkipCrate,
            GiveUp, Codegen, NextCrate, Ask, Optimize, LoadStart, Instrument

(* The statics are set before any query reads them and once per process:    *)
(* the compiler crashes in our code only on a re-exported entry fn.         *)
THEOREM CrashesExplained == Spec => []CrashesOnlyOnForeignEntry
<1>1. Init => CrashesOnlyOnForeignEntry
  BY DEF Init, CrashesOnlyOnForeignEntry
<1> QED BY <1>1, NextCrashes, TypeCorrect, InvariantKept, PTL DEF Spec

-----------------------------------------------------------------------------
(* Entry hooks and the crate they come from                                 *)

LEMMA NextEntry ==
    TypeOK /\ SessionInvariant /\ EntryHooked /\ [Next]_vars => EntryHooked'
<1> SUFFICES ASSUME TypeOK, SessionInvariant, EntryHooked, [Next]_vars,
                    NEW b \in Bodies, query'[b] = "done", b \notin Early
             PROVE  b \in hooked' <=> (Chosen(Home[b]) /\ facts[Home[b]].entry = b)'
  BY DEF EntryHooked
<1>a. /\ BodiesInOrder!(b) /\ QueriesInOrder /\ StaticsInOrder
      /\ query \in [Bodies -> QueryStates]
  BY DEF SessionInvariant, BodiesInOrder, TypeOK
<1> DEFINE Right == Chosen(Home[b]) /\ facts[Home[b]].entry = b
<1>b. UNCHANGED <<facts, flags>> => (Right' <=> Right)
  BY DEF Chosen, WillWork
<1>c. query[b] = "done" => (b \in hooked <=> Right)
  BY DEF EntryHooked
<1>d. query[b] # "done" => b \notin hooked
  BY <1>a
<1> HIDE DEF Right
<1>1. ASSUME UNCHANGED <<facts, flags, query, hooked>> PROVE b \in hooked' <=> Right'
  BY <1>1, <1>b, <1>c
<1>2. ASSUME NEW d \in Bodies, b # d, Query(d) PROVE b \in hooked' <=> Right'
  <2>1. UNCHANGED <<facts, flags>> /\ query'[b] = query[b] /\ (b \in hooked' <=> b \in hooked)
    BY <1>2, <1>a DEF Query, Ask, Optimize, LoadStart, Instrument, CrashInstrumenting,
                      SetQuery, result
  <2> QED BY <2>1, <1>b, <1>c
<1>3. ASSUME Optimize(b) PROVE b \in hooked' <=> Right'
  <2>1. ~overridden /\ UNCHANGED <<facts, flags, hooked>> /\ query[b] # "done"
    BY <1>3, <1>a DEF Optimize, SetQuery
  <2>2. ~Right
    BY <1>3, <2>1, <1>a DEF Optimize, QueriesInOrder, StaticsInOrder, Chosen, Right
  <2> QED BY <2>1, <2>2, <1>b, <1>d
<1>4. ASSUME LoadStart(b) PROVE b \in hooked' <=> Right'
  <2>1. ~start /\ UNCHANGED <<facts, flags, hooked>> /\ query[b] # "done"
    BY <1>4, <1>a DEF LoadStart, SetQuery
  <2>2. ~Right
    BY <1>4, <2>1, <1>a DEF LoadStart, QueriesInOrder, StaticsInOrder, Right
  <2> QED BY <2>1, <2>2, <1>b, <1>d
<1>5. ASSUME Instrument(b) PROVE b \in hooked' <=> Right'
  <2>1. start /\ Home[b] = crate /\ query[b] # "done"
    BY <1>5, <1>a DEF Instrument, QueriesInOrder
  <2>2. Right <=> entryFn = b
    BY <2>1, <1>a DEF StaticsInOrder, This, Right
  <2>3. UNCHANGED <<facts, flags>> /\ hooked' = IF entryFn = b THEN hooked \cup {b} ELSE hooked
    BY <1>5 DEF Instrument
  <2> QED BY <2>1, <2>2, <2>3, <1>b, <1>d
<1>6. ~Ask(b) /\ (CrashInstrumenting(b) => UNCHANGED <<facts, flags, query, hooked>>)
  BY <1>a DEF Ask, SetQuery, CrashInstrumenting, result
<1>7. Driver \/ UNCHANGED vars => UNCHANGED <<facts, flags, query, hooked>>
  BY DEF Driver, Config, AfterExpansion, Analysis, SkipCrate, GiveUp, StartInstrument,
         Codegen, NextCrate, vars, result
<1>8. ASSUME Query(b) PROVE b \in hooked' <=> Right'
  BY <1>8, <1>1, <1>3, <1>4, <1>5, <1>6 DEF Query, Right
<1> QED BY <1>1, <1>2, <1>7, <1>8 DEF Next, Stopped, Right

(* The entry fn of an instrumented crate, and no other body, gets the entry *)
(* hooks.                                                                   *)
THEOREM EntryAlwaysHooked == Spec => []EntryHooked
<1>1. Init => EntryHooked
  BY DEF Init, EntryHooked
<1> QED BY <1>1, NextEntry, TypeCorrect, InvariantKept, PTL DEF Spec

LEMMA NextLinked ==
    TypeOK /\ SessionInvariant /\ HooksLinked /\ [Next]_vars => HooksLinked'
<1> SUFFICES ASSUME TypeOK, SessionInvariant, HooksLinked, [Next]_vars,
                    NEW b \in Bodies,
                    (b \in hooked \/ \E n \in 1..LastCrate : [of |-> b, layers |-> n] \in mir[b])'
             PROVE  linked'[Home[b]]
  BY Zenon DEF HooksLinked
<1> DEFINE Hooks == b \in hooked \/ \E n \in 1..LastCrate : [of |-> b, layers |-> n] \in mir[b]
<1>h. Hooks'
  BY Zenon
<1>a. /\ BodiesInOrder /\ BodiesInOrder!(b) /\ QueriesInOrder /\ StaticsInOrder
      /\ mir \in [Bodies -> SUBSET Copies] /\ linked \in [1..LastCrate -> BOOLEAN]
      /\ Home[b] \in 1..LastCrate
  BY SessionAssumption DEF SessionInvariant, BodiesInOrder, TypeOK
<1>b. Hooks => linked[Home[b]]
  BY DEF HooksLinked
<1>c. query[b] \in {"unasked", "asked"} => ~Hooks
  BY <1>a, Zenon
<1>1. CASE UNCHANGED <<mir, hooked, linked>>
  BY <1>1, <1>h, <1>b
<1>2. CASE Config
  <2>1. Hooks /\ Home[b] # crate
    BY <1>2, <1>h, <1>a, <1>c, Zenon DEF Config, QueriesInOrder, result
  <2> QED BY <1>2, <2>1, <1>a, <1>b, Zenon DEF Config
<1>3. ASSUME NEW d \in Bodies, Optimize(d) PROVE linked'[Home[b]]
  <2>1. mir' = [mir EXCEPT ![d] = Original(d)] /\ UNCHANGED <<hooked, linked>>
    BY <1>3 DEF Optimize
  <2>2. CASE b # d
    BY <2>1, <2>2, <1>h, <1>a, <1>b
  <2>3. CASE b = d
    <3>1. query[b] = "asked" /\ \A c \in Inlined(b) : query[c] = "done"
      BY <1>3, <2>3 DEF Optimize
    <3>2. \A c \in Original(b) : c.of = b => c.layers = 0
      BY <3>1, <1>a, OriginalContents, Zenon
    <3>3. ~Hooks'
      BY <2>1, <2>3, <3>1, <3>2, <1>a, <1>c
    <3> QED BY <3>3, <1>h
  <2> QED BY <2>2, <2>3
<1>4. ASSUME NEW d \in Bodies, Instrument(d) PROVE linked'[Home[b]]
  <2>1. /\ mir' = [mir EXCEPT ![d] = Hooked(d)] /\ UNCHANGED linked
        /\ hooked' \ {d} = hooked \ {d} /\ query[d] = "instrumenting"
        /\ phase \in {"analysis", "codegen"}
    BY <1>4 DEF Instrument
  <2>2. CASE b # d
    BY <2>1, <2>2, <1>h, <1>a, <1>b
  <2>3. CASE b = d
    <3>1. Home[b] = crate /\ Chosen(crate)
      BY <2>1, <2>3, <1>a DEF QueriesInOrder, StaticsInOrder
    <3> QED BY <2>1, <3>1, <1>a, Zenon DEF StaticsInOrder, Chosen
  <2> QED BY <2>2, <2>3
<1> HIDE DEF Hooks
<1> QED BY <1>1, <1>2, <1>3, <1>4
        DEF Next, Driver, Stopped, vars, result, Query, AfterExpansion, Analysis, SkipCrate,
            GiveUp, StartInstrument, Codegen, NextCrate, Ask, LoadStart, CrashInstrumenting

(* A crate whose bodies call hooks depends on the crate that defines them.  *)
THEOREM AlwaysLinked == Spec => []HooksLinked
<1>1. Init => HooksLinked
  BY DEF Init, HooksLinked
<1> QED BY <1>1, NextLinked, TypeCorrect, InvariantKept, PTL DEF Spec

-----------------------------------------------------------------------------
(* Refinement                                                               *)

(* The step that finishes a query emits the body.                           *)
LEMMA DoneEmits ==
    ASSUME TypeOK, BodiesInOrder', NEW d \in Bodies, query[d] # "done",
           query' = [query EXCEPT ![d] = "done"],
           \A c \in Bodies \ {d} : mir'[c] = mir[c],
           UNCHANGED <<facts, flags>>
    PROVE  Promise!Emit(d)
<1>1. query \in [Bodies -> QueryStates] /\ Wanted' = Wanted
  BY WantedKept DEF TypeOK
<1>2. Code[d] = "absent" /\ Code' = [Code EXCEPT ![d] = Code'[d]]
  BY <1>1, Zenon DEF Code
<1>3. Code'[d] = IF [of |-> d, layers |-> 0] \in mir'[d] THEN "plain" ELSE "hooked"
  BY <1>1 DEF Code
<1>4. BodiesInOrder!(d)'
  BY DEF BodiesInOrder
<1>5. Code'[d] \in Promise!Outcomes(d)
  BY <1>1, <1>3, <1>4 DEF Promise!Outcomes
<1> HIDE DEF Code
<1> QED BY <1>1, <1>2, <1>5 DEF Promise!Emit

(* Every other step changes no finished body.                               *)
LEMMA OthersStutter ==
    ASSUME TypeOK, UNCHANGED <<facts, flags>>,
           \A b \in Bodies : /\ query'[b] = "done" <=> query[b] = "done"
                             /\ query[b] = "done" => mir'[b] = mir[b]
    PROVE  UNCHANGED <<Wanted, Code>>
BY WantedKept DEF Code

LEMMA StepsMap ==
    TypeOK /\ SessionInvariant /\ SessionInvariant' /\ [Next]_vars
        => [Promise!BuildNext]_<<Wanted, Code>>
<1> SUFFICES ASSUME TypeOK, SessionInvariant, SessionInvariant', [Next]_vars
             PROVE  Promise!BuildNext \/ UNCHANGED <<Wanted, Code>>
  BY DEF Promise!buildVars
<1>a. BodiesInOrder' /\ query \in [Bodies -> QueryStates] /\ mir \in [Bodies -> SUBSET Copies]
  BY DEF SessionInvariant, TypeOK
<1>1. CASE UNCHANGED <<facts, flags, query, mir>>
  BY <1>1, OthersStutter
<1>2. ASSUME NEW d \in Bodies, Ask(d) PROVE UNCHANGED <<Wanted, Code>>
  BY <1>2, <1>a, OthersStutter DEF Ask, SetQuery
<1>3. ASSUME NEW d \in Bodies, Optimize(d)
      PROVE  Promise!Emit(d) \/ UNCHANGED <<Wanted, Code>>
  <2>1. CASE overridden
    BY <1>3, <2>1, <1>a, OthersStutter DEF Optimize, SetQuery
  <2>2. CASE ~overridden
    BY <1>3, <2>2, <1>a, DoneEmits, Zenon DEF Optimize, SetQuery
  <2> QED BY <2>1, <2>2
<1>4. ASSUME NEW d \in Bodies, LoadStart(d)
      PROVE  Promise!Emit(d) \/ UNCHANGED <<Wanted, Code>>
  <2>1. CASE start
    BY <1>4, <2>1, <1>a, OthersStutter DEF LoadStart, SetQuery
  <2>2. CASE ~start
    BY <1>4, <2>2, <1>a, DoneEmits, Zenon DEF LoadStart, SetQuery
  <2> QED BY <2>1, <2>2
<1>5. ASSUME NEW d \in Bodies, Instrument(d) PROVE Promise!Emit(d)
  BY <1>5, <1>a, DoneEmits, Zenon DEF Instrument, SetQuery
<1> QED BY <1>1, <1>2, <1>3, <1>4, <1>5
        DEF Next, Driver, Stopped, vars, result, Query, Config, AfterExpansion, Analysis,
            SkipCrate, GiveUp, StartInstrument, Codegen, NextCrate, CrashInstrumenting,
            Promise!BuildNext

(* The compile sessions implement InstrumentedBuild: for any crates, any    *)
(* flags and any order of the queries.                                      *)
THEOREM PromiseKept == Spec => KeepsPromise
<1>1. Init => Promise!BuildInit
  BY DEF Init, Promise!BuildInit, Wanted, Code
<1>2. TypeOK /\ SessionInvariant /\ SessionInvariant' /\ [Next]_vars
        => [Promise!BuildNext]_<<Wanted, Code>>
  BY StepsMap
<1> QED BY <1>1, <1>2, TypeCorrect, InvariantKept, PTL
        DEF Spec, KeepsPromise, Promise!BuildSpec, Promise!buildVars
=============================================================================
