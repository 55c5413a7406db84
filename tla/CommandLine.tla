---------------------------- MODULE CommandLine ----------------------------
(* main(): the command line of one compile session, from the arguments cargo *)
(* or a user gives to the arguments rustc_driver::RunCompiler gets, and what *)
(* rustc reads in them.  main looks for an option by comparing or prefixing  *)
(* every single argument; rustc knows which arguments are options, which are *)
(* their values, and that an option may be joined with its value.            *)
(*                                                                           *)
(* An argument is a sequence of pieces, cut where one of the two looks:      *)
(* <<"-Z">>, <<"mir-opt-level", 2>>, <<"-Z", "mir-opt-level", 2>>,           *)
(* <<"--sysroot", "there">>, <<"main", ".rs">>.                              *)
EXTENDS Integers, SequencesExt

CONSTANTS
    Options,        \* what may be written: sequences of arguments, files too
    MaxOptions      \* bound: options on a command line

TakesValue == {<<"-Z">>, <<"-L">>, <<"--extern">>, <<"--sysroot">>}
OptionHeads == {Head(o) : o \in TakesValue}
LevelNames == {"mir-opt-level", "mir_opt_level"}

IsSequence(s) == Len(s) \in Nat /\ s = [k \in 1..Len(s) |-> s[k]]
LevelIsNumber(value) == Len(value) > 1 /\ Head(value) \in LevelNames => value[2] \in Nat

(* A file; an option joined with its value; an option and then its value,    *)
(* which does not look like an option itself.                                *)
IsOption(option) ==
    /\ IsSequence(option) /\ \A k \in 1..Len(option) : IsSequence(option[k]) /\ option[k] # <<>>
    /\ \/ Len(option) = 1 /\ Head(option[1]) \notin OptionHeads
       \/ Len(option) = 1 /\ Len(option[1]) > 1 /\ LevelIsNumber(Tail(option[1]))
       \/ /\ Len(option) = 2 /\ option[1] \in TakesValue
          /\ Head(option[2]) \notin OptionHeads /\ LevelIsNumber(option[2])

ASSUME CommandLineAssumption ==
    /\ \A option \in Options : IsOption(option)
    /\ MaxOptions \in Nat

VARIABLES
    user,           \* what the user or cargo wrote, the wrapped rustc aside
    wrapped,        \* does cargo call us as RUSTC_WRAPPER?
    sysrootKnown,   \* find_sysroot finds one
    libAt,          \* where find_our_monitor_lib leads: "there", "nowhere", or
                    \* "missing" when the environment names a file that is not
    release,        \* rustc optimizes: its own default level is 2
    args,           \* rustc_command_line_arguments, without the binary's name
    step,           \* the block of main that is next
    warned          \* has the session warned about MIR optimizations?

vars == <<user, wrapped, sysrootKnown, libAt, release, args, step, warned>>
environment == <<user, wrapped, sysrootKnown, libAt, release>>

Steps == <<"wrapper", "sysroot", "monitor_lib", "always_encode", "level", "unstable",
           "compile", "compiled">>

Written == {FlattenSeq(s) : s \in UNION {[1..n -> Options] : n \in 0..MaxOptions}}

Init ==
    /\ user \in Written
    /\ wrapped \in BOOLEAN /\ sysrootKnown \in BOOLEAN /\ libAt \in {"there", "missing", "nowhere"}
    /\ release \in BOOLEAN
    /\ args = IF wrapped THEN <<<<"rustc">>>> \o user ELSE user
    /\ step = "wrapper"
    /\ warned = FALSE

-----------------------------------------------------------------------------
(* What rustc makes of a command line.                                       *)

NotGiven == -1

(* The positions that hold the value of the argument before them.            *)
ValuePlaces(as) ==
    LET isValue[k \in 1..Len(as)] == k > 1 /\ ~isValue[k - 1] /\ as[k - 1] \in TakesValue
    IN  {k \in 1..Len(as) : isValue[k]}

(* The values given to an option, in order, with their places.               *)
Given(as, option) ==
    LET values == ValuePlaces(as)
    IN  {<<k, as[k]>> : k \in {k \in values : as[k - 1] = <<option>>}} \cup
        {<<k, Tail(as[k])>> : k \in {k \in 1..Len(as) \ values :
                                        Head(as[k]) = option /\ Len(as[k]) > 1}}

(* The last setting of an unstable option, 1 for yes and 0 for no; dashes    *)
(* and underscores are alike.                                                *)
Setting(as, names, unset) ==
    LET settings == {g \in Given(as, "-Z") : Head(g[2]) \in names}
    IN  IF settings = {} THEN unset
        ELSE LET last == CHOOSE g \in settings : \A h \in settings : h[1] <= g[1]
             IN  IF Len(last[2]) = 1 THEN 1 ELSE last[2][2]

LevelIn(as) == Setting(as, LevelNames, NotGiven)
EncodesIn(as) == Setting(as, {"always-encode-mir", "always_encode_mir"}, 0) = 1
UnstableIn(as) == Setting(as, {"unstable-options", "unstable_options"}, 0) = 1

FilePlaces(as) ==
    {k \in 1..Len(as) \ ValuePlaces(as) : Head(as[k]) \notin OptionHeads}
FilesIn(as) == {as[k] : k \in FilePlaces(as)}

(* One file, --sysroot at most once, --extern force: only with               *)
(* -Z unstable-options.                                                      *)
Accepted(as) ==
    /\ \E k \in 1..Len(as) : FilePlaces(as) = {k}
    /\ \A g, h \in Given(as, "--sysroot") : g = h
    /\ (\E g \in Given(as, "--extern") : Head(g[2]) = "force:") => UnstableIn(as)

(* Session::mir_opt_level                                                    *)
EffectiveLevel(as) ==
    IF LevelIn(as) # NotGiven THEN LevelIn(as) ELSE IF release THEN 2 ELSE 1

-----------------------------------------------------------------------------
(* The blocks of main.                                                       *)

Mentions(argument) == argument \in ToSet(args)
MentionsPrefix(piece) == \E k \in 1..Len(args) : Head(args[k]) = piece

Goto(block, pushed) ==
    /\ args' = args \o pushed
    /\ step' = block
    /\ UNCHANGED <<environment, warned>>

EarlyFatal == step' = "fatal" /\ UNCHANGED <<environment, args, warned>>

(* Slip: the wrapped rustc is left in.                                       *)
KeepWrapper ==
    /\ step = "wrapper"
    /\ step' = "sysroot"
    /\ UNCHANGED <<environment, args, warned>>

(* RUSTC_WRAPPER makes cargo pass the path of rustc first; all that is       *)
(* looked at is that its file_stem is "rustc".                               *)
RemoveWrapper ==
    /\ step = "wrapper"
    /\ args' = IF args # <<>> /\ Head(args[1]) = "rustc" THEN Tail(args) ELSE args
    /\ step' = "sysroot"
    /\ UNCHANGED <<environment, warned>>

(* Slip: it is pushed without a look.                                        *)
PushSysrootAnyway ==
    /\ step = "sysroot"
    /\ IF ~sysrootKnown THEN EarlyFatal
       ELSE Goto("monitor_lib", <<<<"--sysroot">>, <<"ours">>>>)

PushSysroot ==
    /\ step = "sysroot"
    /\ IF Mentions(<<"--sysroot">>) THEN Goto("monitor_lib", <<>>)
       ELSE IF ~sysrootKnown THEN EarlyFatal
       ELSE Goto("monitor_lib", <<<<"--sysroot">>, <<"ours">>>>)

PushMonitorLib ==
    /\ step = "monitor_lib"
    /\ IF libAt = "nowhere" THEN EarlyFatal
       ELSE Goto("always_encode",
                 <<<<"--extern">>, <<"force:", "monitors">>>>
                 \o <<<<"-L">>, <<"dependency=", "dir">>>>
                 \o <<<<"-L">>, <<"dependency=", "deps">>>>)

(* Slip: the test looks for the prefix, as its neighbours do.                *)
PushAlwaysEncodeByPrefix ==
    /\ step = "always_encode"
    /\ Goto("level", IF MentionsPrefix("always-encode-mir") THEN <<>>
                     ELSE <<<<"-Z">>, <<"always-encode-mir">>>>)

PushAlwaysEncode ==
    /\ step = "always_encode"
    /\ Goto("level", IF Mentions(<<"always-encode-mir">>) THEN <<>>
                     ELSE <<<<"-Z">>, <<"always-encode-mir">>>>)

(* Slip: the level is left to rustc.                                         *)
PushNoLevel == step = "level" /\ Goto("unstable", <<>>)

PushLevel ==
    /\ step = "level"
    /\ Goto("unstable", IF MentionsPrefix("mir-opt-level") THEN <<>>
                        ELSE <<<<"-Z">>, <<"mir-opt-level", 1>>>>)

PushUnstable ==
    /\ step = "unstable"
    /\ Goto("compile", IF MentionsPrefix("unstable-options") THEN <<>>
                       ELSE <<<<"-Z">>, <<"unstable-options">>>>)

(* RunCompiler, for a file that config and after_analysis do not skip (a     *)
(* skipped session loses the monitor library again and warns of nothing);    *)
(* after_analysis warns of MIR optimizations.                                *)
Compile ==
    /\ step = "compile"
    /\ step' = IF Accepted(args) /\ libAt = "there" THEN "compiled" ELSE "rejected"
    /\ warned' = (step' = "compiled" /\ EffectiveLevel(args) > 0)
    /\ UNCHANGED <<environment, args>>

Over == step \in {"fatal", "rejected", "compiled"} /\ UNCHANGED vars

Next ==
    \/ RemoveWrapper \/ PushSysroot \/ PushMonitorLib
    \/ PushAlwaysEncode \/ PushLevel \/ PushUnstable \/ Compile \/ Over

Spec == Init /\ [][Next]_vars

-----------------------------------------------------------------------------
TypeOK ==
    /\ user \in Written
    /\ step \in ToSet(Steps) \cup {"fatal", "rejected"}
    /\ step # "wrapper" => Len(args) <= Len(user) + 14
    /\ \A k \in 1..Len(args) : args[k] # <<>>
    /\ warned \in BOOLEAN

Done == step \in {"compiled", "rejected"}
Begins(piece) == \E k \in 1..Len(user) : Head(user[k]) = piece

(* What rustc would have compiled it still compiles, the same file against   *)
(* the user's sysroot if one is given and ours otherwise, unless the monitor *)
(* library the environment names does not exist, or the sysroot is joined to *)
(* its option (main does not see it and pushes a second one), or the file is *)
(* named rustc and comes first (main takes it for the wrapped compiler), or  *)
(* an argument begins like the option main then does not push: a file, or    *)
(* the option itself, taken back.                                            *)
JoinedSysroot == \E k \in 1..Len(user) : Head(user[k]) = "--sysroot" /\ Len(user[k]) > 1
SysrootsIn(as) == {g[2] : g \in Given(as, "--sysroot")}
TakenForWrapper == ~wrapped /\ user # <<>> /\ Head(user[1]) = "rustc"
StaysAccepted ==
    Done /\ Accepted(user) =>
        /\ step = "compiled" <=>
             /\ libAt = "there" /\ ~JoinedSysroot /\ ~TakenForWrapper
             /\ Begins("unstable-options") => UnstableIn(user)
        /\ step = "compiled" =>
             /\ FilesIn(args) = FilesIn(user)
             /\ SysrootsIn(args) = IF SysrootsIn(user) = {} THEN {<<"ours">>}
                                                            ELSE SysrootsIn(user)

(* rustc's MIR inliner, which would put hooks inside hooks, is off (level 1  *)
(* at most) unless the user asked for the very level it runs at, or a file   *)
(* or the value of another option begins like the option.                    *)
Mistaken(piece) ==
    \E k \in 1..Len(user) : Head(user[k]) = piece /\ <<k, user[k]>> \notin Given(user, "-Z")
LevelOnlyOnRequest ==
    step = "compiled" /\ ~Mistaken("mir-opt-level") =>
        EffectiveLevel(args) <= 1 \/ EffectiveLevel(args) = LevelIn(user)

(* Every crate encodes the MIR of all its functions, unless the command line *)
(* both asks for it and, later, takes it back, or something else on it has   *)
(* the option's name.                                                        *)
MirEncoded ==
    step = "compiled" =>
        \/ EncodesIn(args)
        \/ <<"always-encode-mir">> \in ToSet(user) /\ ~EncodesIn(user)

(* "Notice: You have explicitly enabled MIR optimizations!"                  *)
WarnsOnlyIfAsked == warned => LevelIn(user) # NotGiven
=============================================================================
