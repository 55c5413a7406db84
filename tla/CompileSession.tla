--------------------------- MODULE CompileSession ---------------------------
(* The compile sessions of one cargo build: solcon_instrumenter is started  *)
(* as rustc once per crate, dependencies first.  A session is what          *)
(* rustc_driver and the Callbacks of main.rs do in turn; in between, rustc  *)
(* runs optimized_mir queries on any number of threads.  What a body is to  *)
(* look like is BodyInstrumenter's business; here it is only whether it was *)
(* edited, and how often.                                                   *)
(*                                                                          *)
(* rustc computes a query once and keeps the result; a query that inlines   *)
(* a callee waits for the callee's own query.  The driver waits for all     *)
(* queries of a phase before it enters the next callback.                   *)
EXTENDS Integers, FiniteSets

CONSTANTS
    Bodies,      \* the bodies of all crates of the build
    LastCrate,   \* crates are numbered in the order cargo compiles them
    Home,        \* [Bodies -> 1..LastCrate]: the crate a body belongs to
    Inlines,     \* [Bodies -> SUBSET Bodies]: what rustc's inliner, when it
                 \* is on, copies into a body
    Early,       \* bodies rustc may need before the analysis has finished
                 \* (layouts of coroutines), with all they inline
    NoEntry,     \* the crate has no entry fn
    Elsewhere,   \* the entry fn is re-exported from another crate
    FactSets,    \* what the crates of a build may be, see Facts
    FlagSets     \* how cargo may call the compiler, see Flags

(* input: what config.input is; outBuild: whether the output directory has  *)
(* "/build/" in its path; admitted: should_process; filtered:               *)
(* is_filtered_crate; entry: tcx.entry_fn; broken: what of the crate does   *)
(* not compile ("delayed": a bug rustc reports late).                       *)
Facts ==
    [input    : {"file", "registry", "monitor_lib", "stdin"},
     outBuild : BOOLEAN,
     admitted : BOOLEAN,
     filtered : BOOLEAN,
     entry    : Bodies \cup {NoEntry, Elsewhere},
     broken   : {"never", "expansion", "analysis", "delayed"}]

NotGiven == -1
(* beRustc: SOLCON_BE_RUSTC is set; level: the mir-opt-level main found     *)
(* among the arguments; release: rustc optimizes.                           *)
Flags == [beRustc : BOOLEAN, level : 0..4 \cup {NotGiven}, release : BOOLEAN]

ASSUME SessionAssumption ==
    /\ LastCrate \in Nat \ {0}
    /\ Home \in [Bodies -> 1..LastCrate]
    /\ Inlines \in [Bodies -> SUBSET Bodies]
    /\ \A b \in Bodies : \A c \in Inlines[b] : Home[c] <= Home[b]
    /\ Early \subseteq Bodies
    /\ \A b \in Early : \A c \in Inlines[b] : Home[c] = Home[b] => c \in Early
    /\ NoEntry \notin Bodies /\ Elsewhere \notin Bodies /\ NoEntry # Elsewhere
    /\ FactSets \subseteq [1..LastCrate -> Facts]
    /\ \A facts \in FactSets : \A k \in 1..LastCrate :
          facts[k].entry \in Bodies => Home[facts[k].entry] = k
    /\ FlagSets \subseteq Flags

VARIABLES
    facts,       \* per crate: Facts
    flags,       \* Flags
    crate,       \* the crate this session compiles
    phase,       \* where rustc_driver is in it
    work,        \* Callbacks.work
    linked,      \* per crate: whether the monitor library is its dependency
    overridden,  \* Config.override_queries is set
    monitors,    \* MONITORS is set
    entryFn,     \* ENTRY_FN_DEF_ID, NoEntry while unset
    start,       \* START_INSTRUMENT
    query,       \* per body: how far its optimized_mir query is
    mir,         \* per body: the operations in it, see Copies
    hooked       \* the bodies that got the entry hooks

session == <<work, overridden, monitors, entryFn, start>>
result == <<query, mir, hooked>>
vars == <<facts, flags, crate, phase, linked, session, result>>

Phases == {"config", "expansion", "analysis", "after_analysis", "codegen",
           "compiled", "failed", "ice"}
QueryStates == {"unasked", "asked", "optimized", "instrumenting", "done"}

(* The user's operations in a body: those of the body `of` it was written   *)
(* in, inside so many layers of hooks.                                      *)
Copies == [of : Bodies, layers : Nat]

Init ==
    /\ facts \in FactSets
    /\ flags \in FlagSets
    /\ crate = 1
    /\ phase = "config"
    /\ work = TRUE
    /\ linked = [k \in 1..LastCrate |-> TRUE]
    /\ overridden = FALSE
    /\ monitors = FALSE
    /\ entryFn = NoEntry
    /\ start = FALSE
    /\ query = [b \in Bodies |-> "unasked"]
    /\ mir = [b \in Bodies |-> {}]
    /\ hooked = {}

-----------------------------------------------------------------------------
(* The driver thread                                                        *)

This == facts[crate]

(* Callbacks::config.                                                       *)
WillWork(k) == ~flags.beRustc /\ facts[k].input = "file"

(* Slip: only SOLCON_BE_RUSTC is looked at once work is TRUE by default.    *)
ConfigForgetsRegistry ==
    /\ phase = "config"
    /\ work' = ~flags.beRustc
    /\ overridden' = ~flags.beRustc
    /\ linked' = [linked EXCEPT ![crate] = WillWork(crate)]
    /\ phase' = "expansion"
    /\ UNCHANGED <<facts, flags, crate, monitors, entryFn, start, result>>

(* config skips dependencies from the registry, the monitor library itself  *)
(* and anything that is not a file; a skipped session gets no query         *)
(* override and loses the forced extern.                                    *)
Config ==
    /\ phase = "config"
    /\ work' = WillWork(crate)
    /\ overridden' = WillWork(crate)
    /\ linked' = [linked EXCEPT ![crate] = WillWork(crate)]
    /\ phase' = "expansion"
    /\ UNCHANGED <<facts, flags, crate, monitors, entryFn, start, result>>

(* Slip: the entry fn is looked up, the monitors are not.                   *)
AfterExpansionWithoutMonitors ==
    /\ phase = "expansion"
    /\ entryFn' = IF work THEN This.entry ELSE entryFn
    /\ phase' = IF This.broken = "expansion" THEN "failed" ELSE "analysis"
    /\ UNCHANGED <<facts, flags, crate, linked, work, overridden, monitors, start, result>>

(* after_expansion: find_entry_fn and find_all_monitors fill their OnceLock *)
(* with set().unwrap(); then abort_if_errors.                               *)
AlreadySet == (This.entry # NoEntry /\ entryFn # NoEntry) \/ monitors

AfterExpansion ==
    /\ phase = "expansion"
    /\ IF ~work THEN UNCHANGED <<monitors, entryFn>>
       ELSE IF AlreadySet THEN UNCHANGED <<monitors, entryFn>>
       ELSE monitors' = TRUE /\ entryFn' = This.entry
    /\ phase' = IF work /\ AlreadySet THEN "ice"
                ELSE IF This.broken = "expansion" THEN "failed"
                ELSE "analysis"
    /\ UNCHANGED <<facts, flags, crate, linked, work, overridden, start, result>>

(* rustc's analysis, over when every query it asked for is.                 *)
QueriesIdle == \A b \in Bodies : query[b] \in {"unasked", "done"}

Analysis ==
    /\ phase = "analysis"
    /\ QueriesIdle
    /\ phase' = IF This.broken = "analysis" THEN "failed" ELSE "after_analysis"
    /\ UNCHANGED <<facts, flags, crate, linked, session, result>>

(* after_analysis returns early for skipped sessions and build scripts,     *)
(* gives up on a crate with errors, returns early for a crate the input     *)
(* filter rejects, and sets the switch for the others.                      *)
LeftAlone == ~work \/ This.outBuild

SkipCrate ==
    /\ phase = "after_analysis"
    /\ LeftAlone \/ (This.broken # "delayed" /\ ~This.admitted)
    /\ phase' = "codegen"
    /\ UNCHANGED <<facts, flags, crate, linked, session, result>>

GiveUp ==
    /\ phase = "after_analysis"
    /\ ~LeftAlone /\ This.broken = "delayed"
    /\ phase' = "failed"
    /\ UNCHANGED <<facts, flags, crate, linked, session, result>>

(* Slip: a build script is compiled like any other crate.                   *)
StartInstrumentAnyway ==
    /\ phase = "after_analysis"
    /\ work /\ This.broken # "delayed" /\ This.admitted
    /\ start' = monitors
    /\ phase' = IF monitors THEN "codegen" ELSE "ice"
    /\ UNCHANGED <<facts, flags, crate, linked, work, overridden, monitors, entryFn, result>>

StartInstrument ==
    /\ phase = "after_analysis"
    /\ ~LeftAlone /\ This.broken # "delayed" /\ This.admitted
    /\ start' = monitors
    /\ phase' = IF monitors THEN "codegen" ELSE "ice"      \* bug!
    /\ UNCHANGED <<facts, flags, crate, linked, work, overridden, monitors, entryFn, result>>

(* Mono item collection, code generation and the encoding of metadata want  *)
(* the MIR of every body (always-encode-mir).                               *)
Codegen ==
    /\ phase = "codegen"
    /\ \A b \in Bodies : Home[b] = crate => query[b] = "done"
    /\ phase' = IF This.broken = "delayed" THEN "failed" ELSE "compiled"
    /\ UNCHANGED <<facts, flags, crate, linked, session, result>>

(* Slip: one crate too many.                                                *)
NextCrateForever ==
    /\ phase = "compiled"
    /\ crate' = crate + 1
    /\ phase' = "config"
    /\ work' = TRUE
    /\ UNCHANGED <<facts, flags, linked, overridden, monitors, entryFn, start, result>>

(* The next crate is compiled by a new process.                             *)
NextCrate ==
    /\ phase = "compiled" /\ crate < LastCrate
    /\ crate' = crate + 1
    /\ phase' = "config"
    /\ work' = TRUE
    /\ overridden' = FALSE
    /\ monitors' = FALSE
    /\ entryFn' = NoEntry
    /\ start' = FALSE
    /\ UNCHANGED <<facts, flags, linked, result>>

-----------------------------------------------------------------------------
(* optimized_mir queries                                                    *)

(* Slip: the level is left to rustc.                                        *)
LevelOfRustc == IF flags.level # NotGiven THEN flags.level
                ELSE IF flags.release THEN 2 ELSE 1

(* main appends mir-opt-level=1 unless a level was given.  rustc inlines    *)
(* from level 3, and from level 2 when it optimizes; 2 is its own default   *)
(* in a release build.                                                      *)
Level == IF flags.level = NotGiven THEN 1 ELSE flags.level

InlinerOn == Level >= 3 \/ (Level = 2 /\ flags.release)
Inlined(b) == IF InlinerOn THEN Inlines[b] ELSE {}

SetQuery(b, state) == query' = [query EXCEPT ![b] = state]

Wants(b) ==
    \/ phase = "analysis" /\ b \in Early
    \/ phase = "codegen"

(* The first to want a body runs the query; a caller that inlines it does   *)
(* so in the middle of its own.                                             *)
Ask(b) ==
    /\ Wants(b) /\ Home[b] = crate
    /\ query[b] = "unasked"
    /\ SetQuery(b, "asked")
    /\ UNCHANGED <<facts, flags, crate, phase, linked, session, mir, hooked>>

(* original_optimized_mir: the body with what it inlines, hooks included.   *)
(* Without the override this is all there is to the query.                  *)
Original(b) ==
    {[of |-> b, layers |-> 0]} \cup UNION {mir[c] : c \in Inlined(b)}

Optimize(b) ==
    /\ phase \in {"analysis", "codegen"}
    /\ query[b] = "asked"
    /\ \A c \in Inlined(b) : query[c] = "done"
    /\ mir' = [mir EXCEPT ![b] = Original(b)]
    /\ SetQuery(b, IF overridden THEN "optimized" ELSE "done")
    /\ UNCHANGED <<facts, flags, crate, phase, linked, session, hooked>>

(* Slip: a query from before the switch spins until it is set.              *)
WaitForStart(b) ==
    /\ phase \in {"analysis", "codegen"}
    /\ query[b] = "optimized"
    /\ SetQuery(b, IF start THEN "instrumenting"
                   ELSE IF phase = "codegen" THEN "done" ELSE "optimized")
    /\ UNCHANGED <<facts, flags, crate, phase, linked, session, mir, hooked>>

(* Slip: the switch is not asked for.                                       *)
LoadNothing(b) ==
    /\ phase \in {"analysis", "codegen"}
    /\ query[b] = "optimized"
    /\ SetQuery(b, "instrumenting")
    /\ UNCHANGED <<facts, flags, crate, phase, linked, session, mir, hooked>>

(* our_optimized_mir: before START_INSTRUMENT is set the original body is   *)
(* the result.                                                              *)
LoadStart(b) ==
    /\ phase \in {"analysis", "codegen"}
    /\ query[b] = "optimized"
    /\ SetQuery(b, IF start THEN "instrumenting" ELSE "done")
    /\ UNCHANGED <<facts, flags, crate, phase, linked, session, mir, hooked>>

(* MONITORS.get().unwrap(), then expect_local() on the entry fn, whatever   *)
(* the body; then the entry hooks, the gates of run_our_pass_on_body and    *)
(* the passes, all on the body the original query returned.                 *)
Hooked(b) ==
    IF This.filtered THEN mir[b]
    ELSE {[c EXCEPT !.layers = @ + 1] : c \in mir[b]}

(* Slip: the gates come before the entry hooks.                             *)
InstrumentGatesFirst(b) ==
    /\ phase \in {"analysis", "codegen"}
    /\ query[b] = "instrumenting"
    /\ monitors /\ entryFn # Elsewhere
    /\ hooked' = IF entryFn = b /\ ~This.filtered THEN hooked \cup {b} ELSE hooked
    /\ mir' = [mir EXCEPT ![b] = Hooked(b)]
    /\ SetQuery(b, "done")
    /\ UNCHANGED <<facts, flags, crate, phase, linked, session>>

Instrument(b) ==
    /\ phase \in {"analysis", "codegen"}
    /\ query[b] = "instrumenting"
    /\ monitors /\ entryFn # Elsewhere
    /\ hooked' = IF entryFn = b THEN hooked \cup {b} ELSE hooked
    /\ mir' = [mir EXCEPT ![b] = Hooked(b)]
    /\ SetQuery(b, "done")
    /\ UNCHANGED <<facts, flags, crate, phase, linked, session>>

CrashInstrumenting(b) ==
    /\ phase \in {"analysis", "codegen"}
    /\ query[b] = "instrumenting"
    /\ ~monitors \/ entryFn = Elsewhere
    /\ phase' = "ice"
    /\ UNCHANGED <<facts, flags, crate, linked, session, result>>

-----------------------------------------------------------------------------
Driver ==
    \/ Config \/ AfterExpansion \/ Analysis \/ SkipCrate \/ GiveUp
    \/ StartInstrument \/ Codegen \/ NextCrate

Query(b) ==
    Ask(b) \/ Optimize(b) \/ LoadStart(b) \/ Instrument(b) \/ CrashInstrumenting(b)

Over == phase \in {"failed", "ice"} \/ (phase = "compiled" /\ crate = LastCrate)
Stopped == Over /\ UNCHANGED vars

Next == Driver \/ (\E b \in Bodies : Query(b)) \/ Stopped

(* Every thread of the compiler runs; rustc asks for every body it needs.   *)
Fairness == WF_vars(Driver) /\ \A b \in Bodies : WF_vars(Query(b))

Spec == Init /\ [][Next]_vars /\ Fairness

-----------------------------------------------------------------------------
TypeOK ==
    /\ facts \in FactSets /\ flags \in FlagSets
    /\ crate \in 1..LastCrate
    /\ phase \in Phases
    /\ linked \in [1..LastCrate -> BOOLEAN]
    /\ work \in BOOLEAN /\ overridden \in BOOLEAN
    /\ monitors \in BOOLEAN /\ start \in BOOLEAN
    /\ entryFn \in Bodies \cup {NoEntry, Elsewhere}
    /\ query \in [Bodies -> QueryStates]
    /\ mir \in [Bodies -> SUBSET Copies]
    /\ hooked \subseteq Bodies

(* The crates the project means to instrument.                              *)
Chosen(k) == WillWork(k) /\ ~facts[k].outBuild /\ facts[k].admitted
Wanted == {b \in Bodies : Chosen(Home[b]) /\ ~facts[Home[b]].filtered}

(* No operation ends up inside two layers of hooks (which would report it   *)
(* twice), in whatever crate and through whatever chain of inlining, unless *)
(* the user asked for a MIR optimization level that inlines: what keeps     *)
(* instrumented callees out of instrumented callers is the level main       *)
(* forces (main.rs:145-152).                                                *)
HooksNotDoubled ==
    flags.level <= 1 => \A b \in Bodies : \A c \in mir[b] : c.layers <= 1

(* The compiler crashes in our code only on an entry fn that is re-exported *)
(* from another crate (expect_local, mirpass.rs:123), and then in a crate   *)
(* that is instrumented: the statics are set before any query reads them,   *)
(* and once per process.                                                    *)
CrashesOnlyOnForeignEntry ==
    phase = "ice" => Chosen(crate) /\ This.entry = Elsewhere

(* In an instrumented crate that has been compiled the entry fn has its     *)
(* hooks, also when the crate's name is one of the filtered ones; in any    *)
(* other crate it has none.                                                 *)
EntryHooked ==
    \A b \in Bodies :
        query[b] = "done" /\ b \notin Early =>
            (b \in hooked <=> Chosen(Home[b]) /\ facts[Home[b]].entry = b)

(* A crate in which a body calls hooks has the monitor library as a direct  *)
(* dependency, which config removes from the sessions it skips.             *)
HooksLinked ==
    \A b \in Bodies :
        (b \in hooked \/ \E n \in 1..LastCrate : [of |-> b, layers |-> n] \in mir[b])
            => linked[Home[b]]

(* The inductive invariant behind all of these.                             *)

(* Which of the statics are set when, and from what.                        *)
StaticsInOrder ==
    /\ phase # "config" =>
          work = WillWork(crate) /\ overridden = work /\ linked[crate] = work
    /\ phase \in {"config", "expansion"} => ~monitors /\ entryFn = NoEntry
    /\ phase \in {"config", "expansion", "analysis", "after_analysis"} => ~start
    /\ phase \in {"analysis", "after_analysis", "codegen", "compiled"} =>
          monitors = work /\ (work => entryFn = This.entry)
    /\ start => Chosen(crate) /\ monitors /\ entryFn = This.entry
    /\ phase \in {"codegen", "compiled"} => start = Chosen(crate)

(* Queries run in their own crate's session, and before the switch only for *)
(* Early bodies; who got past LoadStart saw it set.                         *)
QueriesInOrder ==
    \A b \in Bodies :
        /\ Home[b] > crate => query[b] = "unasked"
        /\ Home[b] < crate \/ (Home[b] = crate /\ phase = "compiled") => query[b] = "done"
        /\ query[b] \notin {"unasked", "done"} =>
              Home[b] = crate /\ phase \in {"analysis", "codegen", "ice"}
        /\ Home[b] = crate /\ query[b] # "unasked" =>
              /\ phase \notin {"config", "expansion"}
              /\ phase \in {"analysis", "after_analysis"} => b \in Early
        /\ query[b] = "optimized" => overridden
        /\ query[b] = "instrumenting" => start

(* What a body contains on its way through the query and after it.          *)
BodiesInOrder ==
    \A b \in Bodies :
        /\ query[b] \in {"unasked", "asked"} => mir[b] = {}
        /\ query[b] \in {"optimized", "instrumenting"} =>
              /\ [of |-> b, layers |-> 0] \in mir[b]
              /\ \A c \in mir[b] : c.of = b => c.layers = 0
        /\ query[b] = "done" =>
              /\ b \notin Wanted => [of |-> b, layers |-> 0] \in mir[b]
              /\ b \in Wanted \ Early => [of |-> b, layers |-> 0] \notin mir[b]
        /\ \A c \in mir[b] : c.of = b \/ query[c.of] = "done"
        /\ b \in hooked => query[b] = "done"
        /\ flags.level <= 1 =>
              /\ \A c \in mir[b] : c.layers <= 1
              /\ query[b] # "done" => \A c \in mir[b] : c.layers = 0

SessionInvariant == StaticsInOrder /\ QueriesInOrder /\ BodiesInOrder

(* The sessions keep the promise of InstrumentedBuild: a body leaves the    *)
(* compiler once and for good, with hooks if and only if it is wanted to;   *)
(* only a body asked for before START_INSTRUMENT may leave without.         *)
Code == [b \in Bodies |->
           IF query[b] # "done" THEN "absent"
           ELSE IF [of |-> b, layers |-> 0] \in mir[b] THEN "plain"
           ELSE "hooked"]
Promise == INSTANCE InstrumentedBuild WITH wanted <- Wanted, code <- Code
KeepsPromise == Promise!BuildSpec

(* Every build ends: no query waits for one that waits for it or for the    *)
(* driver, and no session is stuck between two callbacks.                   *)
BuildEnds == <>Over
=============================================================================
