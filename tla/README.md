# Solcon, modelled

Solcon is a rustc driver that instruments Rust programs: it hooks the query
`optimized_mir`, edits the MIR of every function it compiles so that locks,
guard drops, memory accesses and the entry function are surrounded by calls of
*hooks*, and links the program with a *monitor library* that implements the
hooks. The hooks print a log of what the program's threads do. The project here
models both halves: how the compiler is called and what it does to a body, and
what the instrumented program does when it runs.

## Inventory

| Component (source) | State | Operations | What is hard about it |
|---|---|---|---|
| Body instrumenter: `instrumenter/src/mirpass.rs`, `mem_instrumenter.rs`, `function_call_instrumenter.rs`, `obj_drop_instrumenter.rs`, `mirpass/*_handler.rs` | the `mir::Body` edited in place; per pass, the positions collected and not yet used | entry hooks; collect and split at memory accesses; collect and wrap calls; collect and wrap drops | positions are used after the body they were found in has changed; four passes edit the same blocks; unwind edges and cleanup blocks; two ways to crash half way |
| Monitor library: `this_is_our_monitor_function/src/lib.rs` | `MONITOR_LOCK` and its poison flag; stdout; a thread-local | a hook: lock, print once or twice, unlock | every thread's operations interleave with every hook; a hook can panic, poison the lock, leak a guard, abort the process or deadlock with stdout |
| `MonitorsInfo` and its finder: `monitors_finder.rs`, `macro_monitors_finder`, `find_all_monitors` | the struct a macro turns into a match; which definition each field holds | expanding a field; scanning the definitions of all crates | malformed and repeated markers; crates with the library's name, renamed crates, user functions with a hook's name |
| Compile session: `main.rs` callbacks, statics of `mirpass.rs` | `START_INSTRUMENT`, `MONITORS`, `ENTRY_FN_DEF_ID`, rustc's query cache; all of it once per crate of a build | `config`, `after_expansion`, `after_analysis`, `our_optimized_mir` from any query worker | bodies memoized before the switch; publication of the statics; inlining of instrumented bodies; sessions left half configured |
| Command line: `main()`, `find_sysroot`, `find_our_monitor_lib` | the argument list | removing the wrapper, appending arguments | options already given by the user, joined, or taken back; values that look like options |
| Input filter: `input_filter.rs` | `FILTER`, built lazily in each session | building it from the environment, `should_process` | parsing of the white list |
| Test program: `testcases/testcase_std_sync` | the locks, barriers and condition variables of its threads | what its threads do | it provokes deadlocks on purpose and must end all the same |
| Type helpers (`utils.rs`) | none | queries into rustc's tables | a callee that is a function pointer |
| Debug passes, build scripts, allocator, logging, the other test crates | none that matters later | | |

How they interact: cargo starts the instrumenter as rustc, once per crate;
`main` rewrites the command line and the driver's callbacks fill the statics and set
`START_INSTRUMENT`; from then on rustc's query system calls
`our_optimized_mir`, which runs the body instrumenter on one body with the
`MonitorsInfo` found before. What it leaves behind is code, and the only
interaction between it and the monitor library is that code: which hook is
called where, with what operands, and where a panic of it unwinds to. At run
time the program's threads and the hooks share `MONITOR_LOCK`, stdout and the
user's own mutexes.

What makes each part correct:

* instrumenter: the user's program survives the surgery; every promised hook is
  called, once, in order and at the right place; nothing else is; the body stays
  acceptable to rustc;
* monitor library: the log is well formed and tells the truth about the orders
  it exists to record; the hooks neither block the program nor change it;
* session: every body reaching codegen is instrumented exactly once, or never,
  and the compiler neither crashes nor hangs over it;
* command line: what rustc compiled before is still compiled, with the options
  the instrumenter relies on;
* input filter: only crates that were asked for are let through;
* finder: a hook is a function of the monitor library, and the marked one;
* test program: it deadlocks where it says and nowhere else.

`PROJECT.json` lists all components, and under `hazards` every place where this
code is hard to test.

## Plan

Written in this order, the most important behaviour first:

1. `Mir`, `BodyInstrumenter`, `MCBodyInstrumenter`: one body. **Done.**
2. `UserProgram` (abstract), `MonitorRuntime` (detailed, implements it),
   `MCMonitorRuntime`: the running program. **Done** for entry, mutex, guard and
   memory hooks.
3. `MonitorRuntimeProofs`: type correctness, the discipline of `MONITOR_LOCK`,
   whole records, poisoning. **Done.**
4. `InstrumentedBuild` (abstract), `CompileSession` (detailed, implements it),
   `MCCompileSession`, `CompileSessionProofs`: callbacks, statics, memoized
   queries and parallel workers over all crates of a build. **Done.**
5. `CommandLine` with `CommandLineProofs`; `InputFilter` with `InputFilterProofs`; `MonitorsFinder` with
   `MonitorsFinderProofs`; `SyncTestcase` with `SyncTestcaseProofs`. **Done.**
6. `Selection` (subsequences); `OperatorFacts` (what is true of them, and of an
   edited body of `Mir`); the second half of `MonitorRuntimeProofs` (what the log tells);
   `BodyInstrumenterProofs` (one body, for every body). **Done.**
7. More of the runtime: thread-local teardown in `MonitorRuntime` (the shipped
   library has no `Condvar` and `RwLock` hooks to model).

## Body instrumenter

`Mir` is the part of rustc the code relies on: a body as a sequence of blocks,
`MirPatch::apply`, and the control-flow graph. All of it is external. Every
item of the original body carries a ghost tag `at`, the place rustc gave it;
inserted items carry `Nowhere`. That lets properties speak of "the user's
statement (b, i)" after any amount of surgery. Data that no pass looks at
(types, spans, locals, the callsite string) is left out.

`BodyInstrumenter` is `our_optimized_mir` after `START_INSTRUMENT` is set.

| Model | Code |
|---|---|
| `EntryBefore`, `EntryAfter` | `EntryFnBodyInstrumenter::instrument_body` |
| `Gates`, `Instrumentable` | the early returns of `run_our_pass_on_body` |
| `CollectMem`, `InstrumentMem` | `PlaceDerefCollector` and one iteration of the loop of `instrument_mem_acesses` |
| `CollectCalls`, `InstrumentCall` | `execute_all_function_call_instrumenters`; `CallBefore`, `CallAfter` are `instrument_call_before/after` |
| `CollectDrops`, `InstrumentDrop` | `execute_all_obj_drop_instrumenters`; `DropBefore`, `DropAfter` are `instrument_drop_before/after` |
| `FunctionPath` | `get_function_path_str`: a function pointer has no path, and gets no hooks |
| `lib` | `MONITORS`: a set of hooks by the callee or guard type they are wired to |
| `phase = "ice"` | `bug!` and `unimplemented!` |

One action is one collection or one iteration of an editing loop, so every state
between two edits is checked. The hash map that holds the collected blocks is
iterated in any order (`CollectMem`).

Properties:

* `FlowPreserved`: after every edit the user's items are all there, once, with
  their operands and unwind action, and the edges between them are those of the
  original body.
* `HooksAsPromised`: in a finished body every edge of the user's control flow
  carries exactly the hook calls, borrows and address computations the code
  means to insert, in order. The expectation (`ExpectedEffects`) is computed
  from the original body alone, edge by edge, and knows nothing of blocks or
  positions.
* `PositionsNotStale`: a collected position still denotes the item it was
  collected for when its turn comes.
* `CleanupStaysClosed`: the only block that breaks rustc's rule for unwinding is
  the one the after-drop hook of a drop in a cleanup block gets
  (`obj_drop_instrumenter.rs:208` and `:259` say `is_cleanup: false`).
* `HooksSeeLiveValues`: no hook is handed anything the program owns, and what it
  is lent can be gone when it looks only for the hooks after a wait on a
  condition variable and after the drop of a guard. These are all the cases the
  comment at `function_call_instrumenter.rs:232` warns of; the hooks before an
  operation and those after the lock and barrier calls are free of them.
* `CrashesOnlyWhenUnsupported`: the compiler crashes only on the two things the
  code declares unsupported, and only in bodies it would have instrumented.

Two facts about the code the model makes visible. A location that both reads
and writes gets its write hook *before* its read hook, because the second split
at the same index happens in front of the first; and both address computations
run before both hooks. And a library with only one of the two memory hooks gets
none.

Run. `body` takes two kinds of bodies, in every combination with three libraries
(the shipped one, every hook, half of them) and four owners (entry, plain,
filtered crate, promoted). One kind has seven blocks (a call, a guard drop, a
loop, a return, an unwinding drop and its resume) with eight callees, three
dropped types, two types dropped while unwinding, with and without accesses in
the call. The other has every mixture of no access, a read, a write, a read and
a write, and a borrow over four statements, and three terminators, around a
loop. Four statements in two blocks are enough for what can go wrong: two
positions in one block, positions at its ends, a terminator next to a statement,
and two blocks in either order; blocks do not otherwise interact. Deadlock is
not checked: a body is finished.

## Monitor library at run time

`UserProgram` is the program without instrumentation and is the abstract
specification: threads spawned by the main thread lock, try to lock, drop,
access, print and panic, in any order that is correct on its own (mutexes in
order and not while stdout is locked, cells under their mutex, nothing held at
return). A thread that panics drops the guards it holds, which poisons their
mutexes (`spoiled`), and dies; `lock` and `try_lock` hand out a poisoned mutex
like any other, as `Err` with the guard in it, and the program goes on with the
guard (`into_inner`). It is external.

`MonitorRuntime` adds, around each operation, the hooks the instrumenter puts
there (`BeforeOp`, `AfterOp`) and runs each hook step by step: `TakeMonitor`
(`MONITOR_LOCK.lock().unwrap()`), `PrintHead` (the first `print!` of
`my_println_with_callsite!`), `PrintBody`, `ReleaseMonitor` (the guard goes out
of scope). Panics: `FindPoisoned` (the `unwrap`), `BodyFails` (`print!` on a
broken stdout; the guard is dropped while panicking and poisons the lock).
`Panic` sends the thread along the unwind edge the instrumenter gave the hook's
call: none for memory hooks (`Terminate`, the process aborts), the operation's
own for the others, which is why the guard an after hook was called about is
leaked. A thread that unwinds, whether it panicked in a hook or in its own code,
begins the drops of its cleanup blocks (`BeginOp`), which have hooks as any
other drop; a hook that panics there aborts the process. `DieUnwound` ends it.

`Record` is what a hook prints. The result of `try_lock` is printed as
`ret.is_ok()` (`lib.rs:119`), which is false when the mutex was locked already,
and also when it was acquired and found poisoned (`TryLockError::Poisoned` has
the guard in it). So the log reports such an acquisition as a failure. The
properties say where that shows: `LockLogFaithful` names every acquisition in
its true order *except* those, and in `HoldIntervalsDisjoint` a drop may lack its
acquisition, but only for a mutex that a panicking thread poisoned; the
acquisitions on record still do not overlap.

`HoldIntervalsDisjoint` reads the record *before* a drop, which is written while
the mutex is still held. The one after it can come when another thread has
locked and reported already (the runs contain it); nothing is claimed of it.

A broken stdout is the one cause of panics in hooks in the model; the other ones
the library has (thread-locals during teardown) would take the same steps. Text
without a newline stays in stdout's buffer, so `PrintHead` does not fail. A cell
stands for any memory that is always accessed under one mutex.

Left out of user programs: `catch_unwind` and `clear_poison`, and locking or
accessing cells while unwinding (a `Drop` impl could). Guards are dropped, as
guards, in instrumented code: only bodies of local crates have hooks
(`our_optimized_mir` takes the local query, `mirpass.rs:117`), so a guard given
to `mem::drop`, or lost in `unwrap()` of a poisoned lock, is dropped without
records, and `HoldIntervalsDisjoint` says nothing of a program that does that.
The other properties do not read drops. An abort is one step.

| Run | Asks | Bounds |
|---|---|---|
| `runtime_drops` | with drop hooks, do reconstructed critical sections overlap? does the proofs' invariant hold? (`HoldIntervalsDisjoint`, `LockDiscipline`) | as `runtime_faults`, with a library that has drop hooks and with prints of the user |
| `runtime_faults` | with the shipped hooks, is the log well formed and true, what do panicking hooks do, and can they hang the program? (`TypeOK`, `RecordsWhole`, `LockLogFaithful`, `AccessLogFaithful`, `PoisonSilences`, `HangsOnlyOnLeak`) | 2 threads, 1 mutex, 1 cell, 2 operations each; stdout may break, or not |
| `runtime_stdout` | can the hooks deadlock a program? (`HangsOnlyOnStdout`: only one that runs instrumented code while it holds stdout) | 2 threads, 1 mutex, 1 cell, 3 operations each |
| `runtime_live` | is the instrumented program still the program? (`HooksReturn`, `ImplementsUser`) | 2 threads, 1 mutex, 1 cell, 2 operations each |

`MaxOps` bounds the operations a thread begins; releases and returns are free.
Every property relates at most two threads, one mutex (or cell) and the hooks
around one operation of each, so two threads and two operations already contain
every overlap of two hooks; three are needed for stdout, where a thread must
lock stdout, enter a hook, and meet one that is printing. What the runs cannot
say about more threads, the theorems below do. `CHECK_DEADLOCK FALSE` is used
where a program really may hang or die: with a breaking stdout, or with stdout
locked around instrumented code; the properties then say *which* hangs exist.

User threads may panic in all runs but `runtime_stdout`. The user's own prints
are in `runtime_drops` and `runtime_live`, and panic in the former once stdout
is broken: such a thread goes on to drop its guards, and the first drop hook
that fails is a second panic and aborts.

Operators whose comment starts with *Slip* are plausible mistakes in the
definition that follows them. No specification uses them; `PROJECT.json` names,
for every property of every run, one that the run refutes when it takes the
place of the real definition.

What the runs show of the code: the log's order of acquisitions is right because
the after hook runs inside the critical section (the before hook alone would not
do); a `try_lock` that acquires a poisoned mutex is in the log as a failed one, and
the drop that follows has no partner; a panicking hook silences all hooks for good; a program with a thread
blocked for ever in `lock()` is possible after a panic in the after hook of
`lock`; and `println!` of a value whose `Display` is instrumented can deadlock
with a hook.

Fairness. `Spec` assumes weak fairness of each thread's step: the operating
system runs a thread that can run. No fairness is assumed of a lock (a thread
waiting for `MONITOR_LOCK` may lose every race), and none of `StdoutBreaks`.
`HooksReturn` and `ImplementsUser` hold all the same because a thread that wins
every race runs out of operations; `ImplementsUser` therefore also rules out
that the hooks starve a thread the uninstrumented program would have run, for
programs that end.

## Compile session

`InstrumentedBuild` is the promise: the code of a body leaves the compiler once
and for good, and with hooks if and only if it is wanted to have them, except
that a body may leave without if rustc asked for it too early. `CompileSession`
implements it (`KeepsPromise`, the abstract specification under the mapping
`wanted <- Wanted, code <- Code`).

A session is one process and one crate; `NextCrate` starts the next one, with
fresh statics and with the MIR of the crates before it at hand.

| Model | Code |
|---|---|
| `Config` | `Callbacks::config`: what is skipped gets no override and loses the forced extern |
| `AfterExpansion` | `find_entry_fn`, `find_all_monitors` and their `set().unwrap()`, then `abort_if_errors` |
| `SkipCrate`, `GiveUp`, `StartInstrument` | the early returns, the error exit and the rest of `after_analysis` |
| `Ask`, `Optimize` | rustc wanting a body, and `original_optimized_mir`: the body with what rustc inlines into it |
| `LoadStart`, `Instrument`, `CrashInstrumenting` | `our_optimized_mir`, cut where it reads the switch and the statics |
| `mir[b]` | the user's operations in body `b`, each with the layers of hooks around it |
| `Analysis`, `Codegen`, `NextCrate` | rustc and cargo |

A query runs once and its result is kept; one that inlines a callee waits for
the callee's query; the driver waits for the queries of a phase before the next
callback. So the queries of one phase interleave freely and the interesting
races are with the switch: a body in `Early` is asked for during analysis.

`sessions` takes a library (plain, filtered by name, rejected by the input
filter, or from the registry) and a binary (with an entry fn, without, with one
re-exported from elsewhere; from standard input; the monitor library itself; a
build script; filtered; rejected; failing in expansion, in analysis, or late),
with four bodies (a coroutine asked for early, its callee, and a chain of
inlining through both crates), four optimization levels, release or not, and
`SOLCON_BE_RUSTC` or not. Two crates and a chain of three bodies contain every
pair the properties relate: hooks can double in a caller in the same crate, in
one of a later crate, and through a callee memoized early.

* `HooksNotDoubled`: what keeps an operation from being reported twice is
  nothing but the level `main` forces: with a level that inlines, given by the
  user, `our_optimized_mir` does edit a body that already contains hooks.
* `CrashesOnlyOnForeignEntry`: no order of callbacks and queries makes an
  `unwrap()` fail, except the `expect_local()` on a re-exported entry fn.
* `EntryHooked`: the entry hooks come before the gates, so the entry fn of a
  crate with a filtered name gets them and nothing else.
* `HooksLinked`: code that calls hooks is never in a crate whose session gave
  the monitor library up.
* `KeepsPromise`, `BuildEnds`, and the inductive invariant of the proofs.

Fairness: weak, of the driver and of each body's query. rustc's threads run, and
rustc asks for the MIR of every body of the crate before it encodes the
metadata (`always-encode-mir`, which `main` pushes). `BuildEnds` then says that
waiting for a callee's query inside the override cannot close a cycle with the
driver's waiting between phases. The instances' inlining relation is acyclic, as
rustc's is: its inliner refuses callees that could call back.

## Command line

`CommandLine` runs `main` block by block on an argument list and reads the list
before and after as rustc does. An argument is the sequence of pieces one of the
two would cut it into, so that "starts with" (what `main` asks) and "is the
value of" (what rustc asks) can differ. What may be written is a constant:
`IsOption` asks that an option of the four that take a value has one, that a
value does not look like one of these options, and that a level is a number.
Other options of rustc are left out, `main` does not look for them. `arguments`
takes every list of up to three options out of sixteen (five files, three of
them named like an option of `main`'s and one like the wrapped compiler; a
sysroot joined and not; eight `-Z` settings, joined and not; an `-L` with an
option's name as value), with and without the wrapper, a sysroot, a monitor
library. Three are enough for a file, an option, and one that repeats or takes
it back.

`StaysAccepted`, `LevelOnlyOnRequest` and `MirEncoded` name all exceptions to
what `main` means to guarantee: a sysroot joined to its option is pushed a
second time and refused; a first file named `rustc` is taken for the wrapped
compiler; a file or another option's value named like an option keeps that
option from being pushed, and so does the option itself when the user takes it
back: `unstable-options` off makes rustc refuse the library, `always-encode-mir`
set and taken back stays off.

The run `warning` is expected to fail. `after_analysis` warns "You have
explicitly enabled MIR optimizations" (`main.rs:385`) whenever the level is
above 0, and `main` itself pushes level 1: a plain command line gets the warning.

## Input filter

`InputFilter` builds `FILTER` in each session and asks it about that session's
crate. A list is a sequence of entries and `Pieces` is what `split(',')` makes
of the whole text; a regular expression is the set of crates it matches.
`filters` takes three crates, all lists of up to four entries, all sets of
matches, no filter and an invalid one. A first, a last, a middle and a repeated
entry need four.

`NothingElseAdmitted` and `RejectedByListOnly` say what the filter gets right.
The run `filter_list` is expected to fail: a crate a list names first or last is
rejected, because the brackets are still on when the text is split
(`input_filter.rs:26`).

## Monitors and their finder

`MonitorsFinder` is first the attribute macro (`ExpandField`: the markers of a
field, the branch made of it, the attributes that stay), then `find_all_monitors`
of a session with those branches (`SkipCrate`, `ScanDef`, `LeaveCrate`;
`TryMatch` is the generated `try_match_with_our_function`). `finder` takes every
struct of two fields with up to two attributes each (a marker with one of two
paths, a malformed one, one of another macro, an unrelated one) and tuple
structs, against every list of up to two crates out of five: two libraries, one
with its root printed under another name and a method, the crate being compiled
with the library's name, and a user's crate with a function named like a hook.
Two fields can be marked alike, two crates can both have a hook.

`FoundAsMarked` pins the outcome at every point of the scan. It also shows what
the code leaves open: of two libraries each field takes the last that has its
function, and a hook whose path is printed differently is missing without a word.
`MacroTransparent` and `OnlyLibraryFunctions` are the macro's and the scan's
side conditions.

## Test program

`SyncTestcase` gives every function of `testcase_std_sync`, and every closure it
spawns, as the text one thread runs; std's locks, barriers and condition
variables are external actions on them. `main` and the functions it calls share
no object, so the run `testcase` takes each on its own; every function and
closure is included.
A second lock of the same mutex blocks, as std's does on Linux. `RwLock` prefers
nobody in the model; std's preference for writers changes nothing here, since
nobody gets to read twice while another waits to write. Timeouts of `Duration::MAX` never come.

* `NobodyPanics`: no schedule reaches an `unreachable!("should deadlock before
  here")`, nor a `try_lock` whose `unwrap` fails.
* `HangsAsMeant`: when nothing moves any more, the threads of each provoked
  deadlock hang where they should. Reader and writer share the barrier inside
  their critical sections, so one of them hangs at the lock *before* it, never
  at the second lock; the "potential conflict" always gets through.
* `MainReturns`: no notification is lost. It holds because the notifier takes
  the mutex first, which main holds until it waits.

Fairness is weak, per thread: the operating system runs what can run. Nothing is
assumed of who gets a mutex. `MaxWakeups = 3` bounds spurious wake-ups: more
than one in a single wait, or one in each of the three waits without a
condition. `CHECK_DEADLOCK FALSE`: threads are meant to hang.

## What is proved

Every theorem is about `Spec` of its module, for all values of the constants
that satisfy the module's named assumptions.

### The running program

`MonitorRuntimeProofs`, for any number of threads, mutexes and cells, any
subset of the hooks, any `MaxOps`, and with stdout breaking at any point. The
assumptions are the two named ones of the constants (`ProgramAssumption`,
`HooksAssumption`).

* `TypeCorrect`: `Spec => []TypeOK`.
* `DisciplineKept`: `Spec => []LockDiscipline`, the inductive invariant.
* `RecordsStayWhole`: `Spec => []RecordsWhole`.
* `PoisonIsForGood`: `Spec => PoisonSilences`.
* `HooksAreTransparent`: as long as stdout works, every step is a step of
  `UserProgram` or leaves all it can see alone. `RefinesUser`: with a stdout
  that does not break, the safety half of `ImplementsUser`.

`RecordsWhole` is not inductive: that a head is followed by its own body depends
on who may print next. `LockDiscipline` adds that `MONITOR_LOCK` is held exactly
by the thread inside a hook (`MonitorHeld`), that this thread is alive and has the
hook still pending (`HookPlace`), that it took the lock unpoisoned
(`HolderFoundItClean`), that between its two prints the last thing in the log is
its head (`HeadOwed`), and that a head at the end of the log is owed or died
with its hook (`HeadLast`). A record's result depends on who owns the mutex and on
whether it is poisoned, so neither may change between the two prints: this needs
that no other thread drops a mutex it does not own (`DropsOwned`), and that a
thread in a hook was not just spawned (`SpawnsUnborn`).

The proof splits the steps in two: those that touch no hook (`QuietStep`; their
thread is outside and they leave every other thread's hook alone) and those of
a hook (`HookStep`; their thread is the only one inside). The lemmas
`PairedHead` and `PairedBody` are about sequences of records alone: what may be
appended to a well-paired log. Transparency needs one more invariant,
`FaultsNeedBreak`: nothing panics in a hook before stdout breaks.

### What the log tells

`MonitorRuntimeProofs` again, on top of `LockDiscipline`:

* `OrderTold` (`LockLogFaithful`), if the library has the after hooks of `lock`
  and `try_lock`;
* `SectionsDisjoint` (`HoldIntervalsDisjoint`), if it also has the hook before
  the drop of a guard;
* `AccessesInOrder` (`AccessLogFaithful`), if it has both memory hooks.

The properties hold at the points where the log can be read. The invariants say
what it tells at every other point. `LocksTold`: the log lacks at most the last
acquisition to be named of a mutex, and only while its owner has still to print
it or died printing it. `SectionsTold`: an acquisition is the last record of a
mutex only while the thread it names owns the mutex and has not yet told that it
drops it; and an open mutex ends with such a record unless it was leaked, or
poisoned before its owner took it. `AccessesTold`: for a cell some thread is
about to access, the log is one part of that access ahead of what was done, and
which part follows from the hooks still pending. All three need `Places`, which
is inductive by itself: the pending hooks are a tail of those of the operation,
a leaked mutex stays with the thread whose hook panicked, a thread tries no mutex
it owns, it owns the one it locked as long as the after hook of `lock` runs (that
hook prints no result), whoever announces an access owns the cell's mutex, and
an unwinding thread does nothing but the drops of its cleanup blocks.

The log is read with `Picked` (`Selection`), which takes the places a
subsequence keeps as a set. `SelectSeq` and `FoldLeft` take an operator, and
nothing about them can be proved for all operators with the provers at hand;
of `Picked`, a recursive function, `OperatorFacts` proves what is needed (an
element appended is picked or not; a selection is as long as its set of places)
by the least number at which it would fail.

### The compile sessions

`CompileSessionProofs`, for any number of crates and bodies, any inlining, any
kind of crate and any flags, from `SessionAssumption` alone (crates are compiled
after what they inline from; what an early body inlines is early too; an entry
fn is in its own crate).

* `TypeCorrect`, `InvariantKept`: type correctness and `SessionInvariant`.
* `NeverDoubled`, `CrashesExplained`, `EntryAlwaysHooked`, `AlwaysLinked`:
  `HooksNotDoubled`, `CrashesOnlyOnForeignEntry`, `EntryHooked`, `HooksLinked`.
* `PromiseKept`: `Spec => KeepsPromise`, the refinement.

`SessionInvariant` has three parts, proved action by action. `StaticsInOrder`
says in which phase each static is set and from what; a crash needs one of them
to be unset, so `CrashesOnlyOnForeignEntry` follows. `QueriesInOrder` says that
queries run in their own crate's session, before the switch only for early
bodies, and past `LoadStart` only once the switch is set. `BodiesInOrder` says
what a body contains at each point of its query: its own operations unhooked
until `Instrument`, and what it inlined as its callees left it. None of the
three is inductive alone.

### One body

`BodyInstrumenterProofs`, for bodies of any size and shape, any library and any
owner. What an edit does to a body of `Mir`, whatever it is made for, is in
`OperatorFacts`; what each instrumenter makes of it is here. Assumed of a body is what rustc guarantees of it (`WellFormed`; part of
it is that a return moves the return place out and dereferences nothing), that
no one has edited it and that a name has one type (`Tagged`), and three facts
about std (`CallsLocksAsUsual`): among the methods with hooks only the waits on
a condition variable take something by value; no cleanup block calls one of
them; and neither these calls nor a drop diverge. The second is more than a
convenience: `CallBefore` and `CallAfter` never create cleanup blocks
(`function_call_instrumenter.rs:177` and `:252`), so a lock call in one would be
left through its hooks; rustc drops values there, and what a `Drop`
implementation calls is in a body of its own. `Names` is a constant because a
record's type needs a set its fields are in.

* `BodyStaysTyped` (`TypeOK`), `PositionsStayFresh` (`PositionsNotStale`),
  `CleanupNeverLeft` (`CleanupStaysClosed`), `CrashesAreUnsupported`
  (`CrashesOnlyWhenUnsupported`), `HooksOwnNothing` (`HooksSeeLiveValues`).
* `FlowKept` (`FlowPreserved`).
* `HooksKept` (`HooksAsPromised`).

Every instrumenter is a composition of three shapes of edit: a terminator moves
to a new block behind a hook (`Moved`), a terminator goes on to a hook in a new
block (`Followed`), statements are added (`Restated`). The inductive invariant
is `IInv`. Its part `Sound` is proved once per shape: targets and unwind blocks
exist and cleanup is left through after-drop hooks only (`Closed`), a
terminator is a hook's or one the original body could have (`GoodTerms`), and a
hook is given nothing its neighbour owns (`Live`). `CleanupStaysClosed` alone is
not inductive: `Followed` makes an edge out of a cleanup block unless the hook
is a drop's, and that a call to be instrumented is not in one has to be carried
along from `CallsLocksAsUsual`.

The positions are `IInv`'s part `Work`. For memory accesses (`Placed`) two
positions in one block are in descending order: a split at the later one leaves
the earlier one where it was, in whatever order the blocks come out of the map.
For calls and drops (`Listed`) each block is listed once, and no edit touches
another block of the body it started from (`Elsewhere`). `Before` says what the
passes to come may rely on: until the accesses are collected each item uses what
the original item used, so a crash is explained by the original body; until the
calls are, no hook stands next to a call.

`FlowPreserved` speaks of the whole control-flow graph and of `Reach`, a
recursive function that follows inserted items to the user's next one. The proof
replaces it by a *projection* of the edited body onto the original one: a
function `h` from locations to locations, with a number `s` that goes down along
inserted items. The user's items are copied, with the successors `h` says; an
inserted item has one successor, and is projected to the item it runs before.
`ReachEquations` shows that the recursion defines what it should on a body with
a projection; `BareEdges`, that two bodies with a projection onto the same one
have the same edges, and `OwnAreAsMany`, that they have as many of the user's
items. It is left to show that projections compose (`ProjectedTwice`) and that
each shape of edit is one (`PaddedProjects`, `CutProjects`, `TrailedProjects`).
The last one, a hook behind a terminator, is a projection only if the terminator
had one target: `OneTarget` finds it in the original body.

`HooksAsPromised` says what the recursion of `Reach` collects on the way. On a
body with a projection that is the only labelling of locations that agrees with
what the items do (`EffectsLabel`, `LabelIsEffects`), so an edit is described by
the labels it changes: it inserts a list of effects in front of one item
(`Inserts`) or behind one (`Trails`), and two such edits in a row insert both
lists (`InsertsTwice`). A body as a whole `Carries` a *front* and a *rear* for
each item of the program and a start: what runs before the item, on its normal
edges, and first of all; `HookedEdges` reads the effects of every edge off
these. The inductive invariant is `HooksIInv`. It says which hooks are in the
body at each point: the front of an item is what the memory, call, drop and
return passes give it, in this order, each as far as it is done, and a pass is
done with exactly the items that are no longer in `todo` (`DoneSoFar`). This
needs that an iteration finds its item where the position says, which is
`Work` of `IInv`; that the collections miss nothing and list nothing twice
(`CollectedComplete`, `CallsCollected`, `DropsCollected`, `PlacedApart`); that
inserted items are never instrumented themselves (`OwnUses`, `NoCallHooks`); and
that the passes do not share items in a way that would change the order
(`PassesApart`: no return has a hook for its own accesses). `AsPromised` is what
is left at the end: the sums of what the passes give are `ExpectedEffects`.

### The input filter and the finder

`InputFilterProofs`: `NothingElse` and `OnlyListsLose`, for any crate names and
lists of any length. The argument is the lemma `Alone` about concatenation: a
piece equals a name only if it has neither bracket nor blank.

`MonitorsFinderProofs`, for any struct, any crates and any attributes:

* `TypeCorrect`, `HooksAreLibrarys` (`OnlyLibraryFunctions`);
* `MacroHandsOn` (`MacroTransparent`);
* `FindsTheMarked` (`FoundAsMarked`).

`Bookkeeping` adds to the types where macro and scan stand and that the fields
still to be expanded are as given. The match made of them is described by
`ArmsMarked`: the first arm with a path is that of the first field that claims
it, and every arm is some field's. `FoundAsMarked` then follows definition by
definition.

### The command line

`CommandLineProofs`, for command lines of any length with any options that are
as `IsOption` says: `TypeCorrect` (`TypeOK`), `KeepsAccepting`
(`StaysAccepted`), `LevelKept` (`LevelOnlyOnRequest`) and `MirAlwaysEncoded`
(`MirEncoded`).

The inductive invariant is `IInv`: at each block the arguments are what the user
wrote, less a first argument taken for the compiler, and what the blocks before
have pushed, and what each pushes depends on the user's arguments alone
(`StagesLook`: no block finds what another one pushed). The rest is about what
rustc reads in such a list. `ValuePlaces` is recursive, since a value is no
option and what follows it is no value; on a list that is sound (every option
that takes a value has one, which looks like no option) it comes down to the
argument before (`ValuesLocal`). So what rustc reads in a list put together of
two sound ones is what it reads in each (`GivenInBoth`, `FilesInBoth`), and a
setting is the one of the second list if that has one (`SettingInBoth`).
`FullFiles`, `FullSettings` and `FullGiven` go through the five pushes with these,
and `FullAccepted` compares rustc's three conditions before and after.

### The test program

`SyncTestcaseProofs`, for any of the functions and any number of wake-ups
without a notify: `TypeCorrect` (`TypeOK`), `NoPanic` (`NobodyPanics`) and
`HangsWhereMeant` (`HangsAsMeant`).

The inductive invariant is `IInv`: a thread's place in its text tells which
locks it holds, at which barrier it waits and which threads it has spawned. It
is a conjunction over groups that share no object and no thread but `main`
(main's own locks, the condition variable, the two threads that lock twice,
reader and writer, each crossing pair, the "potential conflict"), so a step of
one thread has to be looked at in its own group only. `Condvar` is the delicate
part: a notifier `main` still sleeps for has not notified, and, where `main`
waits for the value, has not set it while the value is still false, whichever
notifier of an earlier wait is late. A crossing thread past its first lock holds
it until the end, and both meet at the barrier in between, so neither gets the
second (`NoPanic`). For `HangsWhereMeant` each group is taken at a `Quiet` state:
whoever stands at a lock there finds it taken, the invariant names the owner,
and that owner has to be one of the threads that are meant to hang.

## What is only model-checked, and what is not modelled

Only model-checked:

* `HangsOnlyOnLeak` and `HangsOnlyOnStdout`: they speak of `ENABLED`, which is
  out of the provers' reach.
* `HooksReturn`, `BuildEnds`, `MainReturns` and the liveness half of
  `ImplementsUser`: liveness under fairness, likewise.

Not modelled: the destruction of thread-locals, during which `THREAD.with` in a
hook panics (the panic would take the steps of `BodyFails`); the debug passes
and the `test_target` hooks, which default builds leave out; the atomic memory
hooks, which no pass inserts; the helpers of `utils.rs` that fill in data no
model looks at (generic arguments, spans, fresh locals) or that have no caller;
build scripts, allocator and logging; the test crates other than
`testcase_std_sync`, which are straight-line inputs of the instrumenter. That
the entry function left by unwinding or by `process::exit` runs no after hook is
documented in the code (`entry_fn_handler.rs:107`) and left as it is.
