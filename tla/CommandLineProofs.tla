------------------------- MODULE CommandLineProofs -------------------------
(* For command lines of any length, written with any options that look like *)
(* options.  On such a line a value is recognised by the argument before it *)
(* alone, so what rustc reads in a list put together of two is what it      *)
(* reads in each.                                                           *)
EXTENDS CommandLine, OperatorFacts

-----------------------------------------------------------------------------
(* Lists of arguments.                                                      *)

PiecesOf(option) == UNION {{option[k][i] : i \in 1..Len(option[k])} : k \in 1..Len(option)}
Pieces ==
    (UNION {PiecesOf(option) : option \in Options})
    \cup {"rustc", "--sysroot", "ours", "--extern", "force:", "monitors", "-L", "dependency=",
          "dir", "deps", "-Z", "always-encode-mir", "mir-opt-level", 1, "unstable-options"}
Arguments == Seq(Pieces) \ {<<>>}

(* An option that takes a value has one, one that does not look like an     *)
(* option.                                                                  *)
Sound(list, k) ==
    /\ list[k] \in TakesValue => /\ k < Len(list) /\ Head(list[k + 1]) \notin OptionHeads
                               /\ LevelIsNumber(list[k + 1])
    /\ Head(list[k]) \in OptionHeads /\ Len(list[k]) > 1 => LevelIsNumber(Tail(list[k]))
Lists == {list \in Seq(Arguments) : \A k \in 1..Len(list) : Sound(list, k)}

LEMMA ListFacts ==
    ASSUME NEW list \in Lists
    PROVE  /\ list \in Seq(Arguments) /\ Len(list) \in Nat
           /\ \A k \in 1..Len(list) : list[k] \in Arguments /\ Sound(list, k)
<1>1. list \in Seq(Arguments)
  BY DEF Lists
<1>2. \A k \in 1..Len(list) : Sound(list, k)
  BY DEF Lists
<1>3. Len(list) \in Nat /\ \A k \in 1..Len(list) : list[k] \in Arguments
  BY <1>1
<1>4. QED
  BY <1>1, <1>2, <1>3, Zenon

LEMMA ArgumentFacts ==
    ASSUME NEW a \in Arguments
    PROVE  /\ a \in Seq(Pieces) /\ a # <<>> /\ Len(a) \in Nat \ {0} /\ Head(a) = a[1]
           /\ Len(a) > 1 => /\ Tail(a) \in Arguments /\ Len(Tail(a)) = Len(a) - 1
                            /\ \A i \in 1..Len(a) - 1 : Tail(a)[i] = a[i + 1]
BY DEF Arguments

LEMMA OptionsWithValues ==
    /\ OptionHeads = {"-Z", "-L", "--extern", "--sysroot"}
    /\ \A option \in OptionHeads : <<option>> \in TakesValue
    /\ \A a \in Arguments : a \in TakesValue <=> Head(a) \in OptionHeads /\ Len(a) = 1
    /\ \A a \in Arguments, option \in OptionHeads : a = <<option>> <=> Head(a) = option /\ Len(a) = 1
<1>1. OptionHeads = {"-Z", "-L", "--extern", "--sysroot"}
  BY DEF OptionHeads, TakesValue
<1>2. \A option \in OptionHeads : <<option>> \in TakesValue
  BY <1>1 DEF TakesValue
<1>3. ASSUME NEW a \in Arguments, NEW x
      PROVE  a = <<x>> <=> Head(a) = x /\ Len(a) = 1
  BY ArgumentFacts
<1>4. ASSUME NEW a \in Arguments
      PROVE  a \in TakesValue <=> Head(a) \in OptionHeads /\ Len(a) = 1
  <2>1. a \in TakesValue <=> a = <<"-Z">> \/ a = <<"-L">> \/ a = <<"--extern">> \/ a = <<"--sysroot">>
    BY DEF TakesValue
  <2>2. QED
    BY <1>1, <1>3, <2>1
<1>5. QED
  BY <1>1, <1>2, <1>3, <1>4

LEMMA ListsClosed ==
    ASSUME NEW x \in Lists, NEW y \in Lists
    PROVE  x \o y \in Lists
<1> DEFINE xy == x \o y
<1>1. /\ xy \in Seq(Arguments) /\ Len(xy) = Len(x) + Len(y) /\ Len(x) \in Nat /\ Len(y) \in Nat
      /\ \A k \in 1..Len(x) : xy[k] = x[k]
      /\ \A k \in 1..Len(y) : xy[Len(x) + k] = y[k]
  BY ListFacts, ConcatFacts
<1> HIDE DEF xy
<1>2. ASSUME NEW k \in 1..Len(x) PROVE Sound(xy, k)
  <2>1. Sound(x, k) /\ xy[k] = x[k]
    BY <1>1, ListFacts
  <2>2. k < Len(x) => xy[k + 1] = x[k + 1] /\ k < Len(xy)
    BY <1>1
  <2>3. QED
    BY <2>1, <2>2 DEF Sound
<1>3. ASSUME NEW k \in 1..Len(y) PROVE Sound(xy, Len(x) + k)
  <2>1. Sound(y, k) /\ xy[Len(x) + k] = y[k]
    BY <1>1, ListFacts
  <2>2. k < Len(y) => xy[Len(x) + k + 1] = y[k + 1] /\ Len(x) + k < Len(xy)
    BY <1>1
  <2>3. QED
    BY <2>1, <2>2 DEF Sound
<1>4. ASSUME NEW k \in 1..Len(xy) PROVE Sound(xy, k)
  <2>1. k \in 1..Len(x) \/ (k - Len(x) \in 1..Len(y) /\ Len(x) + (k - Len(x)) = k)
    BY <1>1
  <2>2. QED
    BY <1>2, <1>3, <2>1
<1>5. QED
  BY <1>1, <1>4 DEF Lists, xy

(* A single argument that needs no value.                                   *)
LEMMA OneArgument ==
    ASSUME NEW a \in Arguments, Head(a) \notin OptionHeads \/ (Len(a) > 1 /\ LevelIsNumber(Tail(a)))
    PROVE  <<a>> \in Lists
<1>1. <<a>> \in Seq(Arguments) /\ Len(<<a>>) = 1 /\ <<a>>[1] = a
  OBVIOUS
<1>2. a \notin TakesValue
  <2>1. a \in TakesValue => Head(a) \in OptionHeads /\ Len(a) = 1
    BY OptionsWithValues, Zenon
  <2>2. Len(a) \in Nat /\ \A n \in Nat : n > 1 => n # 1
    BY ArgumentFacts
  <2>3. QED
    BY <2>1, <2>2, Zenon
<1>3. Sound(<<a>>, 1)
  BY <1>1, <1>2 DEF Sound
<1>4. QED
  BY <1>1, <1>3 DEF Lists

(* An option and its value.                                                 *)
LEMMA TwoArguments ==
    ASSUME NEW o \in Arguments, NEW v \in Arguments, o \in TakesValue,
           Head(v) \notin OptionHeads, LevelIsNumber(v)
    PROVE  <<o, v>> \in Lists
<1> DEFINE both == <<o, v>>
<1>1. both \in Seq(Arguments) /\ Len(both) = 2 /\ both[1] = o /\ both[2] = v
  OBVIOUS
<1>2. v \notin TakesValue /\ Len(o) = 1
  BY OptionsWithValues
<1> HIDE DEF both
<1>3. Sound(both, 1)
  BY <1>1, <1>2 DEF Sound
<1>4. Sound(both, 2)
  BY <1>1, <1>2 DEF Sound
<1>5. \A k \in 1..2 : k = 1 \/ k = 2
  OBVIOUS
<1>6. both \in Lists
  BY <1>1, <1>3, <1>4, <1>5 DEF Lists
<1>7. QED
  BY <1>6 DEF both

LEMMA SequenceTyped ==
    ASSUME NEW s, IsSequence(s), NEW S, \A k \in 1..Len(s) : s[k] \in S
    PROVE  s \in Seq(S)
<1>1. s \in [1..Len(s) -> S]
  BY DEF IsSequence
<1>2. QED
  BY <1>1 DEF IsSequence

LEMMA OptionsAreLists ==
    ASSUME NEW option \in Options
    PROVE  option \in Lists
<1>1. IsOption(option)
  BY CommandLineAssumption
<1>2. ASSUME NEW k \in 1..Len(option) PROVE option[k] \in Arguments
  <2>1. IsSequence(option[k]) /\ option[k] # <<>>
    BY <1>1 DEF IsOption
  <2>2. ASSUME NEW i \in 1..Len(option[k]) PROVE option[k][i] \in Pieces
    <3>1. option[k][i] \in {option[k][j] : j \in 1..Len(option[k])}
      OBVIOUS
    <3>2. option[k][i] \in PiecesOf(option)
      BY <3>1, Zenon DEF PiecesOf
    <3>3. QED
      BY <3>2, Zenon DEF Pieces
  <2>3. QED
    BY <2>1, <2>2, SequenceTyped DEF Arguments
<1>3. option \in Seq(Arguments)
  BY <1>1, <1>2, SequenceTyped DEF IsOption
<1>4. CASE Len(option) = 1
  <2>1. option = <<option[1]>> /\ option[1] \in Arguments
    BY <1>3, <1>4
  <2>2. \/ Head(option[1]) \notin OptionHeads
        \/ Len(option[1]) > 1 /\ LevelIsNumber(Tail(option[1]))
    BY <1>1, <1>4 DEF IsOption
  <2>3. QED
    BY <2>1, <2>2, OneArgument
<1>5. CASE Len(option) = 2
  <2>1. option = <<option[1], option[2]>> /\ option[1] \in Arguments /\ option[2] \in Arguments
    BY <1>3, <1>5
  <2>2. option[1] \in TakesValue /\ Head(option[2]) \notin OptionHeads /\ LevelIsNumber(option[2])
    BY <1>1, <1>5 DEF IsOption
  <2>3. QED
    BY <2>1, <2>2, TwoArguments
<1>6. QED
  BY <1>1, <1>4, <1>5 DEF IsOption

LEMMA WrittenAreLists ==
    ASSUME NEW list \in Written
    PROVE  list \in Lists
<1>1. PICK n \in 0..MaxOptions : \E s \in [1..n -> Options] : list = FlattenSeq(s)
  BY DEF Written
<1>2. PICK s \in [1..n -> Options] : list = FlattenSeq(s)
  BY <1>1
<1>3. s \in Seq(Lists) /\ Len(s) = n
  <2>1. n \in Nat
    BY <1>1, CommandLineAssumption
  <2>2. s \in [1..n -> Lists]
    BY OptionsAreLists
  <2>3. QED
    BY <2>1, <2>2
<1>4. CASE s = <<>>
  <2>1. <<>> \in Seq(Arguments) /\ Len(<<>>) = 0
    OBVIOUS
  <2>2. <<>> \in Lists
    BY <2>1 DEF Lists
  <2>3. QED
    BY <1>2, <1>4, <2>2, FlattenEmpty
<1>5. CASE s # <<>>
  <2>1. \A x, y \in Lists : x \o y \in Lists
    BY ListsClosed
  <2>2. FlattenSeq(s) \in Lists
    BY <1>3, <1>5, <2>1, FlattenClosed, Zenon
  <2>3. QED
    BY <1>2, <2>2
<1>6. QED
  BY <1>4, <1>5

-----------------------------------------------------------------------------
(* What rustc reads in a list.                                              *)

LEMMA ValuesLocal ==
    ASSUME NEW list \in Lists
    PROVE  ValuePlaces(list) = {k \in 2..Len(list) : list[k - 1] \in TakesValue}
<1> DEFINE f == [k \in 1..Len(list) |-> k > 1 /\ list[k - 1] \in TakesValue]
           F == CHOOSE g : g = [k \in 1..Len(list) |->
                                  k > 1 /\ ~g[k - 1] /\ list[k - 1] \in TakesValue]
<1>1. ASSUME NEW k \in 1..Len(list), k > 1, list[k - 1] \in TakesValue
      PROVE  list[k] \notin TakesValue
  <2>1. k - 1 \in 1..Len(list) /\ (k - 1) + 1 = k
    BY <1>1, ListFacts
  <2>2. Sound(list, k - 1) /\ list[k] \in Arguments
    BY <2>1, ListFacts
  <2>3. Head(list[k]) \notin OptionHeads
    BY <1>1, <2>1, <2>2 DEF Sound
  <2>4. QED
    BY <2>2, <2>3, OptionsWithValues, Zenon
<1>2. f = [k \in 1..Len(list) |-> k > 1 /\ ~f[k - 1] /\ list[k - 1] \in TakesValue]
  <2>1. ASSUME NEW k \in 1..Len(list)
        PROVE  (k > 1 /\ list[k - 1] \in TakesValue)
                 <=> (k > 1 /\ ~f[k - 1] /\ list[k - 1] \in TakesValue)
    <3>1. CASE k > 1 /\ list[k - 1] \in TakesValue
      <4>1. k - 1 \in 1..Len(list)
        BY <3>1
      <4>2. f[k - 1] <=> (k - 1 > 1 /\ list[k - 1 - 1] \in TakesValue)
        BY <4>1
      <4>3. ~f[k - 1]
        BY <1>1, <3>1, <4>1, <4>2
      <4>4. QED
        BY <3>1, <4>3
    <3>2. QED
      BY <3>1
  <2>2. QED
    BY <2>1
<1>3. F = [k \in 1..Len(list) |-> k > 1 /\ ~F[k - 1] /\ list[k - 1] \in TakesValue]
  BY <1>2, Zenon
<1>4. ValuePlaces(list) = {k \in 1..Len(list) : F[k]}
  BY DEF ValuePlaces
<1> HIDE DEF f, F
<1>5. ASSUME NEW k \in 1..Len(list)
      PROVE  F[k] <=> (k > 1 /\ ~F[k - 1] /\ list[k - 1] \in TakesValue)
  BY <1>3
<1>6. ASSUME NEW k \in 1..Len(list)
      PROVE  F[k] <=> (k > 1 /\ list[k - 1] \in TakesValue)
  <2>1. CASE k > 1 /\ list[k - 1] \in TakesValue
    <3>1. k - 1 \in 1..Len(list)
      BY <2>1
    <3>2. ~F[k - 1]
      BY <1>1, <1>5, <2>1, <3>1
    <3>3. QED
      BY <1>5, <2>1, <3>2
  <2>2. QED
    BY <1>5, <2>1
<1>7. Len(list) \in Nat
  BY ListFacts
<1>8. QED
  BY <1>4, <1>6, <1>7

(* A value of an option: the argument behind it, or what it is joined with. *)
IsGiven(list, option, k, v) ==
    \/ k \in 2..Len(list) /\ list[k - 1] = <<option>> /\ v = list[k]
    \/ k \in 1..Len(list) /\ Head(list[k]) = option /\ Len(list[k]) > 1 /\ v = Tail(list[k])

(* A value follows its option and does not look like one.                   *)
LEMMA BehindOption ==
    ASSUME NEW list \in Lists, NEW k \in 2..Len(list), list[k - 1] \in TakesValue
    PROVE  Head(list[k]) \notin OptionHeads /\ LevelIsNumber(list[k]) /\ list[k] \in Arguments
<1>1. k - 1 \in 1..Len(list) /\ (k - 1) + 1 = k /\ k \in 1..Len(list)
  BY ListFacts
<1>2. Sound(list, k - 1) /\ list[k] \in Arguments
  BY <1>1, ListFacts
<1>3. QED
  BY <1>1, <1>2 DEF Sound

LEMMA GivenLocal ==
    ASSUME NEW list \in Lists, NEW option \in OptionHeads
    PROVE  \A g : g \in Given(list, option) <=> \E k, v : g = <<k, v>> /\ IsGiven(list, option, k, v)
<1> DEFINE values == {k \in 2..Len(list) : list[k - 1] \in TakesValue}
           behind == {k \in values : list[k - 1] = <<option>>}
           joined == {k \in 1..Len(list) \ values : Head(list[k]) = option /\ Len(list[k]) > 1}
<1>1. Given(list, option) = {<<k, list[k]>> : k \in behind} \cup {<<k, Tail(list[k])>> : k \in joined}
  BY ValuesLocal DEF Given
<1>2. behind = {k \in 2..Len(list) : list[k - 1] = <<option>>}
  BY OptionsWithValues
<1>3. joined = {k \in 1..Len(list) : Head(list[k]) = option /\ Len(list[k]) > 1}
  <2>1. ASSUME NEW k \in values PROVE Head(list[k]) # option
    <3>1. k \in 2..Len(list) /\ list[k - 1] \in TakesValue
      OBVIOUS
    <3>2. QED
      BY <3>1, BehindOption
  <2>2. QED
    BY <2>1
<1> HIDE DEF values, behind, joined
<1>4. ASSUME NEW g
      PROVE  g \in Given(list, option) <=> \E k, v : g = <<k, v>> /\ IsGiven(list, option, k, v)
  <2>1. ASSUME g \in Given(list, option)
        PROVE  \E k, v : g = <<k, v>> /\ IsGiven(list, option, k, v)
    <3>1. CASE \E k \in behind : g = <<k, list[k]>>
      BY <1>2, <3>1, Zenon DEF IsGiven
    <3>2. CASE \E k \in joined : g = <<k, Tail(list[k])>>
      BY <1>3, <3>2, Zenon DEF IsGiven
    <3>3. QED
      BY <1>1, <2>1, <3>1, <3>2, Zenon
  <2>2. ASSUME NEW k, NEW v, g = <<k, v>>, IsGiven(list, option, k, v)
        PROVE  g \in Given(list, option)
    <3>1. (k \in behind /\ v = list[k]) \/ (k \in joined /\ v = Tail(list[k]))
      BY <1>2, <1>3, <2>2, Zenon DEF IsGiven
    <3>2. QED
      BY <1>1, <2>2, <3>1, Zenon
  <2>3. QED
    BY <2>1, <2>2, Zenon
<1>5. QED
  BY <1>4, Zenon

(* A place has one value at most, and a level is a number.                  *)
LEMMA GivenFacts ==
    ASSUME NEW list \in Lists, NEW option \in OptionHeads, NEW k, NEW v, IsGiven(list, option, k, v)
    PROVE  /\ k \in 1..Len(list) /\ v \in Arguments /\ LevelIsNumber(v)
           /\ \A w : IsGiven(list, option, k, w) => v = w
<1>1. k \in 1..Len(list)
  BY ListFacts DEF IsGiven
<1>2. list[k] \in Arguments /\ Sound(list, k)
  BY <1>1, ListFacts
<1>3. CASE k \in 2..Len(list) /\ list[k - 1] = <<option>>
  <2>1. list[k - 1] \in TakesValue
    BY <1>3, OptionsWithValues
  <2>2. Head(list[k]) \notin OptionHeads /\ LevelIsNumber(list[k])
    BY <1>3, <2>1, BehindOption
  <2>3. \A w : IsGiven(list, option, k, w) => w = list[k]
    BY <2>2, Zenon DEF IsGiven
  <2>4. QED
    BY <1>1, <1>2, <2>2, <2>3, Zenon
<1>4. CASE ~(k \in 2..Len(list) /\ list[k - 1] = <<option>>)
  <2>1. /\ Head(list[k]) = option /\ Len(list[k]) > 1
        /\ \A w : IsGiven(list, option, k, w) => w = Tail(list[k])
    BY <1>4, Zenon DEF IsGiven
  <2>2. LevelIsNumber(Tail(list[k]))
    BY <1>2, <2>1 DEF Sound
  <2>3. Tail(list[k]) \in Arguments
    BY <1>2, <2>1, ArgumentFacts, Zenon
  <2>4. QED
    BY <1>1, <2>1, <2>2, <2>3, Zenon
<1>5. QED
  BY <1>3, <1>4

(* Two lists in a row.                                                      *)
LEMMA GivenInBoth ==
    ASSUME NEW x \in Lists, NEW y \in Lists, NEW option \in OptionHeads
    PROVE  /\ \A k, v : IsGiven(x, option, k, v) => IsGiven(x \o y, option, k, v)
           /\ \A j \in 1..Len(y) : \A v : IsGiven(y, option, j, v) => IsGiven(x \o y, option, Len(x) + j, v)
           /\ \A k, v : IsGiven(x \o y, option, k, v) =>
                \/ IsGiven(x, option, k, v)
                \/ k - Len(x) \in 1..Len(y) /\ IsGiven(y, option, k - Len(x), v)
<1> DEFINE xy == x \o y
<1>1. /\ Len(xy) = Len(x) + Len(y) /\ Len(x) \in Nat /\ Len(y) \in Nat
      /\ \A k \in 1..Len(x) : xy[k] = x[k]
      /\ \A k \in 1..Len(y) : xy[Len(x) + k] = y[k]
  BY ListFacts, ConcatFacts
<1> HIDE DEF xy
<1>2. ASSUME NEW k, NEW v, IsGiven(x, option, k, v) PROVE IsGiven(xy, option, k, v)
  <2>1. k \in 1..Len(x) /\ k \in 1..Len(xy) /\ xy[k] = x[k]
    BY <1>1, <1>2 DEF IsGiven
  <2>2. k \in 2..Len(x) => xy[k - 1] = x[k - 1] /\ k \in 2..Len(xy)
    BY <1>1
  <2>3. QED
    BY <1>2, <2>1, <2>2, Zenon DEF IsGiven
<1>3. ASSUME NEW j \in 1..Len(y), NEW v, IsGiven(y, option, j, v)
      PROVE  IsGiven(xy, option, Len(x) + j, v)
  <2>1. Len(x) + j \in 1..Len(xy) /\ xy[Len(x) + j] = y[j]
    BY <1>1
  <2>2. j \in 2..Len(y) => xy[(Len(x) + j) - 1] = y[j - 1] /\ Len(x) + j \in 2..Len(xy)
    BY <1>1
  <2>3. QED
    BY <1>3, <2>1, <2>2, Zenon DEF IsGiven
<1>4. ASSUME NEW k, NEW v, IsGiven(xy, option, k, v)
      PROVE  \/ IsGiven(x, option, k, v)
             \/ k - Len(x) \in 1..Len(y) /\ IsGiven(y, option, k - Len(x), v)
  <2>1. k \in 1..Len(xy)
    BY <1>1, <1>4 DEF IsGiven
  <2>2. CASE k \in 1..Len(x)
    <3>1. xy[k] = x[k] /\ (k \in 2..Len(xy) => k \in 2..Len(x) /\ xy[k - 1] = x[k - 1])
      BY <1>1, <2>2
    <3>2. QED
      BY <1>4, <2>2, <3>1, Zenon DEF IsGiven
  <2>3. CASE k \notin 1..Len(x)
    <3> DEFINE j == k - Len(x)
    <3>1. j \in 1..Len(y) /\ Len(x) + j = k
      BY <1>1, <2>1, <2>3
    <3>2. xy[k] = y[j]
      BY <1>1, <3>1
    <3>3. j # 1 => j \in 2..Len(y) /\ xy[k - 1] = y[j - 1]
      <4>1. j # 1 => j \in 2..Len(y) /\ j - 1 \in 1..Len(y) /\ Len(x) + (j - 1) = k - 1
        BY <1>1, <3>1
      <4> HIDE DEF j
      <4>2. QED
        BY <1>1, <4>1, Zenon
    <3>4. j = 1 => xy[k - 1] \notin TakesValue \/ k \notin 2..Len(xy)
      <4>1. j = 1 /\ k \in 2..Len(xy) => k - 1 \in 1..Len(x) /\ k - 1 = Len(x) /\ xy[k - 1] = x[k - 1]
        BY <1>1, <3>1
      <4>2. k - 1 \in 1..Len(x) => Sound(x, k - 1)
        BY ListFacts
      <4>3. QED
        BY <1>1, <4>1, <4>2 DEF Sound
    <3>5. <<option>> \in TakesValue
      BY OptionsWithValues
    <3> HIDE DEF j
    <3>6. IsGiven(y, option, j, v)
      BY <1>4, <3>1, <3>2, <3>3, <3>4, <3>5 DEF IsGiven
    <3>7. QED
      BY <3>1, <3>6 DEF j
  <2>4. QED
    BY <2>2, <2>3
<1>5. QED
  BY <1>2, <1>3, <1>4, Zenon DEF xy

LEMMA NoneInBoth ==
    ASSUME NEW x \in Lists, NEW y \in Lists, NEW option \in OptionHeads,
           \A k, v : ~IsGiven(x, option, k, v), \A k, v : ~IsGiven(y, option, k, v)
    PROVE  \A k, v : ~IsGiven(x \o y, option, k, v)
<1>1. \A k, v : IsGiven(x \o y, option, k, v) =>
                \/ IsGiven(x, option, k, v)
                \/ k - Len(x) \in 1..Len(y) /\ IsGiven(y, option, k - Len(x), v)
  BY GivenInBoth
<1>2. QED
  BY <1>1

-----------------------------------------------------------------------------
(* Settings: the last one counts.                                           *)

Sets(list, names, k, v) == IsGiven(list, "-Z", k, v) /\ Head(v) \in names
SetIn(list, names) == \E k, v : Sets(list, names, k, v)
IsLast(list, names, k, v) ==
    Sets(list, names, k, v) /\ \A j, w : Sets(list, names, j, w) => j <= k
ValueOf(v) == IF Len(v) = 1 THEN 1 ELSE v[2]

LEMMA SetFacts ==
    ASSUME NEW list \in Lists, NEW names, NEW k, NEW v, Sets(list, names, k, v)
    PROVE  /\ k \in 1..Len(list) /\ v \in Arguments /\ LevelIsNumber(v) /\ Head(v) \in names
           /\ \A w : Sets(list, names, k, w) => v = w
<1>1. "-Z" \in OptionHeads
  BY OptionsWithValues
<1>2. IsGiven(list, "-Z", k, v) /\ Head(v) \in names
  BY DEF Sets
<1>3. /\ k \in 1..Len(list) /\ v \in Arguments /\ LevelIsNumber(v)
      /\ \A w : IsGiven(list, "-Z", k, w) => v = w
  BY <1>1, <1>2, GivenFacts, Zenon
<1>4. QED
  BY <1>2, <1>3, Zenon DEF Sets

LEMMA SettingIs ==
    ASSUME NEW list \in Lists, NEW names, NEW unset, NEW k, NEW v, IsLast(list, names, k, v)
    PROVE  Setting(list, names, unset) = ValueOf(v)
<1> DEFINE settings == {g \in Given(list, "-Z") : Head(g[2]) \in names}
           last == CHOOSE g \in settings : \A h \in settings : h[1] <= g[1]
<1>1. "-Z" \in OptionHeads
  BY OptionsWithValues
<1>2. \A g : g \in Given(list, "-Z") <=> \E j, w : g = <<j, w>> /\ IsGiven(list, "-Z", j, w)
  BY <1>1, GivenLocal, Zenon
<1>3. \A g : g \in settings <=> \E j, w : g = <<j, w>> /\ Sets(list, names, j, w)
  BY <1>2 DEF Sets
<1>4. Setting(list, names, unset) = IF settings = {} THEN unset ELSE ValueOf(last[2])
  BY Zenon DEF Setting, ValueOf
<1> HIDE DEF settings
<1>5. Sets(list, names, k, v) /\ \A j, w : Sets(list, names, j, w) => j <= k
  BY DEF IsLast
<1>6. <<k, v>> \in settings
  BY <1>3, <1>5, Zenon
<1>7. \A h \in settings : h[1] <= <<k, v>>[1]
  BY <1>3, <1>5
<1>8. last \in settings /\ \A h \in settings : h[1] <= last[1]
  BY <1>6, <1>7, Zenon
<1> HIDE DEF last
<1>9. PICK j, w : last = <<j, w>> /\ Sets(list, names, j, w)
  BY <1>3, <1>8, Zenon
<1>10. j = k
  <2>1. j <= k /\ k <= j
    BY <1>5, <1>6, <1>8, <1>9
  <2>2. j \in 1..Len(list) /\ k \in 1..Len(list)
    BY <1>5, <1>9, SetFacts, Zenon
  <2>3. QED
    BY <2>1, <2>2
<1>11. w = v
  BY <1>5, <1>9, <1>10, SetFacts, Zenon
<1>12. last[2] = v /\ settings # {}
  BY <1>6, <1>9, <1>11
<1>13. QED
  BY <1>4, <1>12

LEMMA SettingNone ==
    ASSUME NEW list \in Lists, NEW names, NEW unset, ~SetIn(list, names)
    PROVE  Setting(list, names, unset) = unset
<1> DEFINE settings == {g \in Given(list, "-Z") : Head(g[2]) \in names}
<1>1. "-Z" \in OptionHeads
  BY OptionsWithValues
<1>2. \A g : g \in Given(list, "-Z") <=> \E j, w : g = <<j, w>> /\ IsGiven(list, "-Z", j, w)
  BY <1>1, GivenLocal, Zenon
<1>3. settings = {}
  BY <1>2 DEF SetIn, Sets
<1>4. QED
  BY <1>3, Zenon DEF Setting

LEMMA LastExists ==
    ASSUME NEW list \in Lists, NEW names, SetIn(list, names)
    PROVE  \E k, v : IsLast(list, names, k, v)
<1> DEFINE T == {n \in 0..Len(list) : \E v : Sets(list, names, Len(list) - n, v)}
<1>1. Len(list) \in Nat
  BY ListFacts
<1>2. \A j, w : Sets(list, names, j, w) => Len(list) - j \in T
  <2>1. ASSUME NEW j, NEW w, Sets(list, names, j, w) PROVE Len(list) - j \in T
    <3>1. j \in 1..Len(list)
      BY <2>1, SetFacts
    <3>2. Len(list) - j \in 0..Len(list) /\ Len(list) - (Len(list) - j) = j
      BY <1>1, <3>1
    <3>3. QED
      BY <2>1, <3>2
  <2>2. QED
    BY <2>1
<1>3. T # {} /\ T \subseteq Nat
  <2>1. \E j, w : Sets(list, names, j, w)
    BY DEF SetIn
  <2>2. QED
    BY <1>1, <1>2, <2>1
<1>4. PICK m \in T : \A n \in T : m <= n
  <2> HIDE DEF T
  <2>1. QED
    BY <1>3, LeastNumber
<1>5. PICK v : Sets(list, names, Len(list) - m, v)
  BY <1>4
<1>6. ASSUME NEW j, NEW w, Sets(list, names, j, w) PROVE j <= Len(list) - m
  <2>1. j \in 1..Len(list) /\ m \in 0..Len(list)
    BY <1>4, <1>6, SetFacts
  <2>2. m <= Len(list) - j
    BY <1>2, <1>4, <1>6
  <2>3. QED
    BY <1>1, <2>1, <2>2
<1>7. IsLast(list, names, Len(list) - m, v)
  BY <1>5, <1>6 DEF IsLast
<1>8. QED
  BY <1>7

LEMMA SetsInBoth ==
    ASSUME NEW x \in Lists, NEW y \in Lists, NEW names
    PROVE  /\ \A k, v : Sets(x, names, k, v) => Sets(x \o y, names, k, v)
           /\ \A k \in 1..Len(y) : \A v : Sets(y, names, k, v) => Sets(x \o y, names, Len(x) + k, v)
           /\ \A k, v : Sets(x \o y, names, k, v) =>
                \/ Sets(x, names, k, v)
                \/ k - Len(x) \in 1..Len(y) /\ Sets(y, names, k - Len(x), v)
<1>1. "-Z" \in OptionHeads
  BY OptionsWithValues
<1>2. /\ \A k, v : IsGiven(x, "-Z", k, v) => IsGiven(x \o y, "-Z", k, v)
      /\ \A j \in 1..Len(y) : \A v : IsGiven(y, "-Z", j, v) => IsGiven(x \o y, "-Z", Len(x) + j, v)
      /\ \A k, v : IsGiven(x \o y, "-Z", k, v) =>
           \/ IsGiven(x, "-Z", k, v)
           \/ k - Len(x) \in 1..Len(y) /\ IsGiven(y, "-Z", k - Len(x), v)
  BY <1>1, GivenInBoth, Zenon
<1>3. QED
  BY <1>2, Zenon DEF Sets

(* What comes behind a list counts if it sets anything.                     *)
LEMMA SettingInBoth ==
    ASSUME NEW x \in Lists, NEW y \in Lists, NEW names, NEW unset
    PROVE  /\ SetIn(x \o y, names) <=> SetIn(x, names) \/ SetIn(y, names)
           /\ SetIn(y, names) => Setting(x \o y, names, unset) = Setting(y, names, unset)
           /\ ~SetIn(y, names) => Setting(x \o y, names, unset) = Setting(x, names, unset)
<1> DEFINE xy == x \o y
<1>1. /\ \A k, v : Sets(x, names, k, v) => Sets(xy, names, k, v)
      /\ \A k \in 1..Len(y) : \A v : Sets(y, names, k, v) => Sets(xy, names, Len(x) + k, v)
      /\ \A k, v : Sets(xy, names, k, v) =>
           \/ Sets(x, names, k, v)
           \/ k - Len(x) \in 1..Len(y) /\ Sets(y, names, k - Len(x), v)
  BY SetsInBoth, Zenon
<1>2. xy \in Lists
  BY ListsClosed
<1>3. Len(x) \in Nat /\ Len(y) \in Nat
  BY ListFacts
<1> HIDE DEF xy
<1>4. \A k, v : Sets(y, names, k, v) => k \in 1..Len(y)
  BY SetFacts, Zenon
<1>5. SetIn(xy, names) <=> SetIn(x, names) \/ SetIn(y, names)
  BY <1>1, <1>4, Zenon DEF SetIn
<1>6. CASE SetIn(y, names)
  <2>1. PICK k, v : IsLast(y, names, k, v)
    BY <1>6, LastExists, Zenon
  <2>2. Sets(y, names, k, v) /\ k \in 1..Len(y)
    BY <1>4, <2>1, Zenon DEF IsLast
  <2>3. ASSUME NEW j, NEW w, Sets(xy, names, j, w) PROVE j <= Len(x) + k
    <3>1. CASE Sets(x, names, j, w)
      <4>1. j \in 1..Len(x)
        BY <3>1, SetFacts, Zenon
      <4>2. QED
        BY <1>3, <2>2, <4>1
    <3>2. CASE j - Len(x) \in 1..Len(y) /\ Sets(y, names, j - Len(x), w)
      <4>1. j - Len(x) <= k
        BY <2>1, <3>2, Zenon DEF IsLast
      <4>2. j \in 1..Len(xy)
        BY <1>2, <2>3, SetFacts, Zenon
      <4>3. QED
        BY <1>3, <2>2, <4>1, <4>2
    <3>3. QED
      BY <1>1, <2>3, <3>1, <3>2, Zenon
  <2>4. IsLast(xy, names, Len(x) + k, v)
    BY <1>1, <2>2, <2>3, Zenon DEF IsLast
  <2>5. Setting(xy, names, unset) = ValueOf(v) /\ Setting(y, names, unset) = ValueOf(v)
    BY <1>2, <2>1, <2>4, SettingIs, Zenon
  <2>6. QED
    BY <1>5, <1>6, <2>5, Zenon DEF xy
<1>7. CASE ~SetIn(y, names)
  <2>1. \A k, v : Sets(xy, names, k, v) <=> Sets(x, names, k, v)
    BY <1>1, <1>7, Zenon DEF SetIn
  <2>2. CASE SetIn(x, names)
    <3>1. PICK k, v : IsLast(x, names, k, v)
      BY <2>2, LastExists, Zenon
    <3>2. IsLast(xy, names, k, v)
      BY <2>1, <3>1, Zenon DEF IsLast
    <3>3. Setting(xy, names, unset) = ValueOf(v) /\ Setting(x, names, unset) = ValueOf(v)
      BY <1>2, <3>1, <3>2, SettingIs, Zenon
    <3>4. QED
      BY <1>5, <1>7, <3>3, Zenon DEF xy
  <2>3. CASE ~SetIn(x, names)
    <3>1. Setting(xy, names, unset) = unset /\ Setting(x, names, unset) = unset
      BY <1>2, <1>5, <1>7, <2>3, SettingNone, Zenon
    <3>2. QED
      BY <1>5, <1>7, <3>1, Zenon DEF xy
  <2>4. QED
    BY <2>2, <2>3
<1>8. QED
  BY <1>6, <1>7

-----------------------------------------------------------------------------
(* Files.                                                                   *)

IsFile(list, k) ==
    /\ k \in 1..Len(list) /\ Head(list[k]) \notin OptionHeads
    /\ k \in 2..Len(list) => list[k - 1] \notin TakesValue

LEMMA FilesLocal ==
    ASSUME NEW list \in Lists
    PROVE  \A k : k \in FilePlaces(list) <=> IsFile(list, k)
<1>1. ValuePlaces(list) = {k \in 2..Len(list) : list[k - 1] \in TakesValue}
  BY ValuesLocal
<1>2. QED
  BY <1>1, Zenon DEF FilePlaces, IsFile

LEMMA FilesInBoth ==
    ASSUME NEW x \in Lists, NEW y \in Lists
    PROVE  /\ \A k : IsFile(x, k) => IsFile(x \o y, k) /\ (x \o y)[k] = x[k]
           /\ \A j : IsFile(y, j) => IsFile(x \o y, Len(x) + j)
           /\ \A k : IsFile(x \o y, k) => IsFile(x, k) \/ IsFile(y, k - Len(x))
<1> DEFINE xy == x \o y
<1>1. /\ Len(xy) = Len(x) + Len(y) /\ Len(x) \in Nat /\ Len(y) \in Nat
      /\ \A k \in 1..Len(x) : xy[k] = x[k]
      /\ \A k \in 1..Len(y) : xy[Len(x) + k] = y[k]
  BY ListFacts, ConcatFacts
<1> HIDE DEF xy
<1>2. ASSUME NEW k, IsFile(x, k) PROVE IsFile(xy, k) /\ xy[k] = x[k]
  <2>1. k \in 1..Len(x) /\ k \in 1..Len(xy) /\ xy[k] = x[k]
    BY <1>1, <1>2 DEF IsFile
  <2>2. k \in 2..Len(xy) => xy[k - 1] = x[k - 1] /\ k \in 2..Len(x)
    BY <1>1, <2>1
  <2>3. QED
    BY <1>2, <2>1, <2>2, Zenon DEF IsFile
<1>3. ASSUME NEW j, IsFile(y, j) PROVE IsFile(xy, Len(x) + j)
  <2>1. j \in 1..Len(y)
    BY <1>3 DEF IsFile
  <2>2. Len(x) + j \in 1..Len(xy) /\ xy[Len(x) + j] = y[j]
    BY <1>1, <2>1
  <2>3. j \in 2..Len(y) => xy[(Len(x) + j) - 1] = y[j - 1]
    BY <1>1
  <2>4. j \notin 2..Len(y) => (Len(x) + j) - 1 = Len(x) /\ (Len(x) + j \in 2..Len(xy) => Len(x) \in 1..Len(x))
    BY <1>1, <2>1
  <2>5. Len(x) \in 1..Len(x) => x[Len(x)] \notin TakesValue
    BY <1>1, ListFacts DEF Sound
  <2>6. QED
    BY <1>1, <1>3, <2>2, <2>3, <2>4, <2>5, Zenon DEF IsFile
<1>4. ASSUME NEW k, IsFile(xy, k) PROVE IsFile(x, k) \/ IsFile(y, k - Len(x))
  <2>1. k \in 1..Len(xy)
    BY <1>4 DEF IsFile
  <2>2. CASE k \in 1..Len(x)
    <3>1. xy[k] = x[k] /\ (k \in 2..Len(x) => k \in 2..Len(xy) /\ xy[k - 1] = x[k - 1])
      BY <1>1, <2>2
    <3>2. QED
      BY <1>4, <2>2, <3>1, Zenon DEF IsFile
  <2>3. CASE k \notin 1..Len(x)
    <3> DEFINE j == k - Len(x)
    <3>1. j \in 1..Len(y) /\ Len(x) + j = k
      BY <1>1, <2>1, <2>3
    <3>2. xy[k] = y[j]
      BY <1>1, <3>1
    <3>3. j \in 2..Len(y) => j - 1 \in 1..Len(y) /\ Len(x) + (j - 1) = k - 1 /\ k \in 2..Len(xy)
      BY <1>1, <3>1
    <3> HIDE DEF j
    <3>4. j \in 2..Len(y) => y[j - 1] \notin TakesValue
      BY <1>1, <1>4, <3>3 DEF IsFile
    <3>5. IsFile(y, j)
      BY <1>4, <3>1, <3>2, <3>4, Zenon DEF IsFile
    <3>6. QED
      BY <3>5 DEF j
  <2>4. QED
    BY <2>2, <2>3
<1>5. QED
  BY <1>2, <1>3, <1>4, Zenon DEF xy

(* Nothing but options and their values.                                    *)
Fileless(list) == list \in Lists /\ \A k : ~IsFile(list, k)

LEMMA FilesKept ==
    ASSUME NEW x \in Lists, NEW y, Fileless(y)
    PROVE  FilePlaces(x \o y) = FilePlaces(x) /\ FilesIn(x \o y) = FilesIn(x)
<1>1. y \in Lists /\ \A k : ~IsFile(y, k)
  BY DEF Fileless
<1>2. x \o y \in Lists
  BY <1>1, ListsClosed
<1>3. \A k : IsFile(x \o y, k) <=> IsFile(x, k)
  BY <1>1, FilesInBoth, Zenon
<1>4. \A k : IsFile(x, k) => (x \o y)[k] = x[k]
  BY <1>1, FilesInBoth, Zenon
<1>5. FilePlaces(x \o y) = FilePlaces(x)
  BY <1>2, <1>3, FilesLocal
<1>6. \A k \in FilePlaces(x) : (x \o y)[k] = x[k]
  BY <1>4, FilesLocal
<1>7. QED
  BY <1>5, <1>6 DEF FilesIn

LEMMA FilelessBoth ==
    ASSUME NEW x, NEW y, Fileless(x), Fileless(y)
    PROVE  Fileless(x \o y)
<1>1. /\ x \in Lists /\ y \in Lists
      /\ \A k : ~IsFile(x, k) /\ ~IsFile(y, k)
  BY DEF Fileless
<1>2. x \o y \in Lists
  BY <1>1, ListsClosed
<1>3. \A k : ~IsFile(x \o y, k)
  BY <1>1, FilesInBoth, Zenon
<1>4. QED
  BY <1>2, <1>3 DEF Fileless

-----------------------------------------------------------------------------
(* What main pushes: nothing, or options with their values.                 *)

Pair(option, value) == <<<<option>>, value>>

LEMMA EmptyFacts ==
    /\ Fileless(<<>>)
    /\ \A option, k, v : ~IsGiven(<<>>, option, k, v)
    /\ \A names : ~SetIn(<<>>, names)
<1> DEFINE none == <<>>
<1>1. none \in Seq(Arguments) /\ Len(none) = 0
  OBVIOUS
<1> HIDE DEF none
<1>2. none \in Lists
  BY <1>1 DEF Lists
<1>3. 1..Len(none) = {} /\ 2..Len(none) = {}
  BY <1>1
<1>4. \A option, k, v : ~IsGiven(none, option, k, v)
  BY <1>3, Zenon DEF IsGiven
<1>5. \A k : ~IsFile(none, k)
  BY <1>3, Zenon DEF IsFile
<1>6. \A names : ~SetIn(none, names)
  BY <1>4, Zenon DEF SetIn, Sets
<1>7. QED
  BY <1>2, <1>4, <1>5, <1>6, Zenon DEF none, Fileless

LEMMA PairFacts ==
    ASSUME NEW o \in OptionHeads, NEW v \in Arguments, <<o>> \in Arguments,
           Head(v) \notin OptionHeads, LevelIsNumber(v)
    PROVE  /\ Fileless(Pair(o, v)) /\ Len(Pair(o, v)) = 2
           /\ Pair(o, v)[1] = <<o>> /\ Pair(o, v)[2] = v
           /\ \A option \in OptionHeads : \A k, w :
                IsGiven(Pair(o, v), option, k, w) <=> option = o /\ k = 2 /\ w = v
<1> DEFINE p == Pair(o, v)
<1>1. Len(p) = 2 /\ p[1] = <<o>> /\ p[2] = v
  BY DEF Pair
<1>2. <<o>> \in TakesValue
  BY OptionsWithValues
<1>3. p \in Lists
  BY <1>2, TwoArguments, Zenon DEF Pair
<1> HIDE DEF p
<1>4. 1..Len(p) = {1, 2} /\ 2..Len(p) = {2} /\ 2 - 1 = 1
  BY <1>1
<1>5. Head(p[1]) = o /\ Len(p[1]) = 1
  BY <1>1
<1>6. \A k : ~IsFile(p, k)
  BY <1>1, <1>2, <1>4, <1>5 DEF IsFile
<1>7. ASSUME NEW option \in OptionHeads, NEW k, NEW w
      PROVE  IsGiven(p, option, k, w) <=> option = o /\ k = 2 /\ w = v
  <2>1. IsGiven(p, option, k, w) <=>
          \/ k = 2 /\ p[1] = <<option>> /\ w = v
          \/ k = 1 /\ o = option /\ 1 > 1 /\ w = Tail(p[1])
          \/ k = 2 /\ Head(v) = option /\ Len(v) > 1 /\ w = Tail(p[2])
    BY <1>1, <1>4, <1>5 DEF IsGiven
  <2>2. p[1] = <<option>> <=> o = option
    BY <1>1
  <2>3. QED
    BY <2>1, <2>2
<1>8. QED
  BY <1>1, <1>3, <1>6, <1>7, Zenon DEF p, Fileless

LEMMA PairSets ==
    ASSUME NEW o \in OptionHeads, NEW v \in Arguments, <<o>> \in Arguments,
           Head(v) \notin OptionHeads, LevelIsNumber(v), NEW names
    PROVE  /\ SetIn(Pair(o, v), names) <=> o = "-Z" /\ Head(v) \in names
           /\ SetIn(Pair(o, v), names) => \A unset : Setting(Pair(o, v), names, unset) = ValueOf(v)
<1> DEFINE p == Pair(o, v)
<1>1. p \in Lists /\ \A k, w : IsGiven(p, "-Z", k, w) <=> o = "-Z" /\ k = 2 /\ w = v
  <2>1. "-Z" \in OptionHeads
    BY OptionsWithValues
  <2>2. QED
    BY <2>1, PairFacts DEF Fileless
<1> HIDE DEF p
<1>2. \A k, w : Sets(p, names, k, w) <=> o = "-Z" /\ Head(v) \in names /\ k = 2 /\ w = v
  BY <1>1 DEF Sets
<1>3. SetIn(p, names) <=> o = "-Z" /\ Head(v) \in names
  BY <1>2 DEF SetIn
<1>4. ASSUME SetIn(p, names), NEW unset PROVE Setting(p, names, unset) = ValueOf(v)
  <2>1. IsLast(p, names, 2, v)
    BY <1>2, <1>3, <1>4 DEF IsLast
  <2>2. QED
    BY <1>1, <2>1, SettingIs, Zenon
<1>5. QED
  BY <1>3, <1>4, Zenon DEF p

(* What main looks for: an argument, or how an argument begins.             *)
Named(list, piece) == \E k \in 1..Len(list) : Head(list[k]) = piece

LEMMA InSet ==
    ASSUME NEW list \in Lists
    PROVE  \A a : a \in ToSet(list) <=> \E k \in 1..Len(list) : list[k] = a
<1>1. DOMAIN list = 1..Len(list)
  BY ListFacts
<1>2. QED
  BY <1>1, Zenon DEF ToSet

LEMMA Looks ==
    ASSUME NEW x \in Lists, NEW y \in Lists
    PROVE  /\ \A piece : Named(x \o y, piece) <=> Named(x, piece) \/ Named(y, piece)
           /\ \A a : a \in ToSet(x \o y) <=> a \in ToSet(x) \/ a \in ToSet(y)
<1> DEFINE xy == x \o y
<1>1. /\ xy \in Lists
      /\ Len(xy) = Len(x) + Len(y) /\ Len(x) \in Nat /\ Len(y) \in Nat
      /\ \A k \in 1..Len(x) : xy[k] = x[k]
      /\ \A k \in 1..Len(y) : xy[Len(x) + k] = y[k]
  BY ListFacts, ConcatFacts, ListsClosed
<1> HIDE DEF xy
<1>2. \A k \in 1..Len(x) : k \in 1..Len(xy) /\ xy[k] = x[k]
  BY <1>1
<1>3. \A k \in 1..Len(y) : Len(x) + k \in 1..Len(xy) /\ xy[Len(x) + k] = y[k]
  BY <1>1
<1>4. ASSUME NEW k \in 1..Len(xy)
      PROVE  (\E j \in 1..Len(x) : xy[k] = x[j]) \/ \E j \in 1..Len(y) : xy[k] = y[j]
  <2>1. CASE k \in 1..Len(x)
    BY <1>2, <2>1, Zenon
  <2>2. CASE k \notin 1..Len(x)
    <3>1. k - Len(x) \in 1..Len(y) /\ Len(x) + (k - Len(x)) = k
      BY <1>1, <2>2
    <3>2. xy[k] = y[k - Len(x)]
      BY <1>3, <3>1
    <3>3. QED
      BY <3>1, <3>2, Zenon
  <2>3. QED
    BY <2>1, <2>2
<1>5. ASSUME NEW piece
      PROVE  Named(xy, piece) <=> Named(x, piece) \/ Named(y, piece)
  <2>1. Named(x, piece) => Named(xy, piece)
    BY <1>2, Zenon DEF Named
  <2>2. Named(y, piece) => Named(xy, piece)
    BY <1>3, Zenon DEF Named
  <2>3. Named(xy, piece) => Named(x, piece) \/ Named(y, piece)
    BY <1>4, Zenon DEF Named
  <2>4. QED
    BY <2>1, <2>2, <2>3
<1>6. ASSUME NEW a
      PROVE  a \in ToSet(xy) <=> a \in ToSet(x) \/ a \in ToSet(y)
  <2>1. /\ a \in ToSet(x) <=> \E k \in 1..Len(x) : x[k] = a
        /\ a \in ToSet(y) <=> \E k \in 1..Len(y) : y[k] = a
        /\ a \in ToSet(xy) <=> \E k \in 1..Len(xy) : xy[k] = a
    BY <1>1, InSet, Zenon
  <2>2. a \in ToSet(x) => a \in ToSet(xy)
    BY <1>2, <2>1, Zenon
  <2>3. a \in ToSet(y) => a \in ToSet(xy)
    BY <1>3, <2>1, Zenon
  <2>4. a \in ToSet(xy) => a \in ToSet(x) \/ a \in ToSet(y)
    BY <1>4, <2>1, Zenon
  <2>5. QED
    BY <2>2, <2>3, <2>4
<1>7. QED
  BY <1>5, <1>6, Zenon DEF xy

LEMMA PairLooks ==
    ASSUME NEW o, NEW v
    PROVE  /\ \A piece : Named(Pair(o, v), piece) <=> piece = o \/ piece = Head(v)
           /\ \A a : a \in ToSet(Pair(o, v)) <=> a = <<o>> \/ a = v
<1> DEFINE p == Pair(o, v)
<1>1. Len(p) = 2 /\ p[1] = <<o>> /\ p[2] = v
  BY DEF Pair
<1> HIDE DEF p
<1>2. 1..Len(p) = {1, 2} /\ Head(<<o>>) = o
  BY <1>1
<1>3. \A piece : Named(p, piece) <=> piece = o \/ piece = Head(v)
  BY <1>1, <1>2 DEF Named
<1>4. ToSet(p) = {p[k] : k \in 1..Len(p)}
  <2>1. DOMAIN p = 1..Len(p)
    BY DEF p, Pair
  <2>2. QED
    BY <2>1, Zenon DEF ToSet
<1>5. \A a : a \in ToSet(p) <=> a = <<o>> \/ a = v
  BY <1>1, <1>2, <1>4
<1>6. QED
  BY <1>3, <1>5, Zenon DEF p

LEMMA EmptyLooks ==
    /\ \A piece : ~Named(<<>>, piece)
    /\ \A a : a \notin ToSet(<<>>)
<1>1. 1..Len(<<>>) = {}
  OBVIOUS
<1>2. ToSet(<<>>) = {}
  BY DEF ToSet
<1>3. QED
  BY <1>1, <1>2, Zenon DEF Named

LEMMA PushedArguments ==
    /\ \A option \in OptionHeads : <<option>> \in Arguments
    /\ \A v \in {<<"ours">>, <<"force:", "monitors">>, <<"dependency=", "dir">>,
                 <<"dependency=", "deps">>, <<"always-encode-mir">>, <<"mir-opt-level", 1>>,
                 <<"unstable-options">>} :
         v \in Arguments /\ Head(v) \notin OptionHeads /\ LevelIsNumber(v)
<1>1. OptionHeads = {"-Z", "-L", "--extern", "--sysroot"}
  BY OptionsWithValues
<1>2. /\ "--sysroot" \in Pieces /\ "ours" \in Pieces /\ "--extern" \in Pieces
      /\ "force:" \in Pieces /\ "monitors" \in Pieces /\ "-L" \in Pieces
      /\ "dependency=" \in Pieces /\ "dir" \in Pieces /\ "deps" \in Pieces
      /\ "-Z" \in Pieces /\ "always-encode-mir" \in Pieces /\ "mir-opt-level" \in Pieces
      /\ 1 \in Pieces /\ "unstable-options" \in Pieces
  BY DEF Pieces
<1>3. \A p \in Pieces : <<p>> \in Arguments /\ Head(<<p>>) = p /\ ~(Len(<<p>>) > 1)
  BY DEF Arguments
<1>4. \A p, q \in Pieces :
        <<p, q>> \in Arguments /\ Head(<<p, q>>) = p /\ (<<p, q>>)[2] = q
  BY DEF Arguments
<1>5. \A option \in OptionHeads : <<option>> \in Arguments
  BY <1>1, <1>2, <1>3
<1>6. \A p \in {"ours", "always-encode-mir", "unstable-options"} :
        <<p>> \in Arguments /\ Head(<<p>>) \notin OptionHeads /\ LevelIsNumber(<<p>>)
  BY <1>1, <1>2, <1>3 DEF LevelIsNumber
<1>7. LevelNames = {"mir-opt-level", "mir_opt_level"}
  BY DEF LevelNames
<1>8. ASSUME NEW p \in {"force:", "dependency="}, NEW q \in {"monitors", "dir", "deps"}
      PROVE  <<p, q>> \in Arguments /\ Head(<<p, q>>) \notin OptionHeads /\ LevelIsNumber(<<p, q>>)
  BY <1>1, <1>2, <1>4, <1>7 DEF LevelIsNumber
<1>9. LET v == <<"mir-opt-level", 1>>
      IN  v \in Arguments /\ Head(v) \notin OptionHeads /\ LevelIsNumber(v)
  BY <1>1, <1>2, <1>4 DEF LevelIsNumber
<1>10. QED
  BY <1>5, <1>6, <1>8, <1>9

-----------------------------------------------------------------------------
(* The arguments after each block, from what the user wrote.                *)

Taken(u, w) == ~w /\ u # <<>> /\ Head(u[1]) = "rustc"
Remaining(u, w) == IF Taken(u, w) THEN Tail(u) ELSE u
OurSysroot(u) == IF <<"--sysroot">> \in ToSet(u) THEN <<>> ELSE Pair("--sysroot", <<"ours">>)
Library ==
    (Pair("--extern", <<"force:", "monitors">>) \o Pair("-L", <<"dependency=", "dir">>))
        \o Pair("-L", <<"dependency=", "deps">>)
OurSetting(given, v) == IF given THEN <<>> ELSE Pair("-Z", v)
OurEncoding(u) == OurSetting(<<"always-encode-mir">> \in ToSet(u), <<"always-encode-mir">>)
OurLevel(u) == OurSetting(Named(u, "mir-opt-level"), <<"mir-opt-level", 1>>)
OurUnstable(u) == OurSetting(Named(u, "unstable-options"), <<"unstable-options">>)

WithSysroot(u, w) == Remaining(u, w) \o OurSysroot(u)
WithLibrary(u, w) == WithSysroot(u, w) \o Library
WithEncoding(u, w) == WithLibrary(u, w) \o OurEncoding(u)
WithLevel(u, w) == WithEncoding(u, w) \o OurLevel(u)
Full(u, w) == WithLevel(u, w) \o OurUnstable(u)

LEMMA LibraryIs ==
    Library = <<<<"--extern">>, <<"force:", "monitors">>>>
              \o <<<<"-L">>, <<"dependency=", "dir">>>>
              \o <<<<"-L">>, <<"dependency=", "deps">>>>
BY Zenon DEF Library, Pair

EncodeNames == {"always-encode-mir", "always_encode_mir"}
UnstableNames == {"unstable-options", "unstable_options"}

(* None of the other arguments main pushes is one it looks for later.       *)
Unseen(list) ==
    /\ <<"always-encode-mir">> \notin ToSet(list)
    /\ ~Named(list, "mir-opt-level") /\ ~Named(list, "unstable-options")

LEMMA SysrootFacts ==
    ASSUME NEW u
    PROVE  /\ Fileless(OurSysroot(u)) /\ Len(OurSysroot(u)) \in 0..2 /\ Unseen(OurSysroot(u))
           /\ \A names : ~SetIn(OurSysroot(u), names)
           /\ \A option \in OptionHeads : \A k, w :
                IsGiven(OurSysroot(u), option, k, w) <=>
                    /\ <<"--sysroot">> \notin ToSet(u)
                    /\ option = "--sysroot" /\ k = 2 /\ w = <<"ours">>
<1> DEFINE p == Pair("--sysroot", <<"ours">>)
<1>1. /\ "--sysroot" \in OptionHeads /\ <<"--sysroot">> \in Arguments /\ <<"ours">> \in Arguments
      /\ Head(<<"ours">>) \notin OptionHeads /\ LevelIsNumber(<<"ours">>)
  BY OptionsWithValues, PushedArguments
<1>2. /\ Fileless(p) /\ Len(p) = 2
      /\ \A option \in OptionHeads : \A k, w :
           IsGiven(p, option, k, w) <=> option = "--sysroot" /\ k = 2 /\ w = <<"ours">>
  BY <1>1, PairFacts
<1>3. \A names : SetIn(p, names) <=> "--sysroot" = "-Z" /\ Head(<<"ours">>) \in names
  BY <1>1, PairSets
<1>4. Unseen(p)
  <2>1. Head(<<"ours">>) = "ours" /\ <<"always-encode-mir">> # <<"--sysroot">>
        /\ <<"always-encode-mir">> # <<"ours">>
    OBVIOUS
  <2>2. QED
    BY <2>1, PairLooks DEF Unseen
<1>5. Unseen(<<>>)
  BY EmptyLooks, Zenon DEF Unseen
<1> HIDE DEF p
<1>6. CASE <<"--sysroot">> \in ToSet(u)
  <2>1. OurSysroot(u) = <<>>
    BY <1>6 DEF OurSysroot
  <2>2. Len(<<>>) \in 0..2
    OBVIOUS
  <2>3. QED
    BY <1>5, <1>6, <2>1, <2>2, EmptyFacts, Zenon
<1>7. CASE <<"--sysroot">> \notin ToSet(u)
  <2>1. OurSysroot(u) = p
    BY <1>7 DEF OurSysroot, p
  <2>2. \A names : ~SetIn(p, names)
    BY <1>3
  <2>3. Len(p) \in 0..2
    BY <1>2
  <2>4. \A option \in OptionHeads : \A k, w :
          IsGiven(OurSysroot(u), option, k, w) <=>
              /\ <<"--sysroot">> \notin ToSet(u)
              /\ option = "--sysroot" /\ k = 2 /\ w = <<"ours">>
    BY <1>2, <1>7, <2>1
  <2>5. QED
    BY <1>2, <1>4, <2>1, <2>2, <2>3, <2>4, Zenon
<1>8. QED
  BY <1>6, <1>7

LEMMA LibraryFacts ==
    /\ Fileless(Library) /\ Len(Library) = 6 /\ Unseen(Library)
    /\ \A names : ~SetIn(Library, names)
    /\ \E k \in 1..Len(Library) : IsGiven(Library, "--extern", k, <<"force:", "monitors">>)
    /\ \A k, w : ~IsGiven(Library, "--sysroot", k, w)
<1> DEFINE force == <<"force:", "monitors">>
           dir == <<"dependency=", "dir">>
           deps == <<"dependency=", "deps">>
           p == Pair("--extern", force)
           q == Pair("-L", dir)
           r == Pair("-L", deps)
<1>1. /\ "--extern" \in OptionHeads /\ "-L" \in OptionHeads /\ "--sysroot" \in OptionHeads
      /\ <<"--extern">> \in Arguments /\ <<"-L">> \in Arguments
  BY OptionsWithValues, PushedArguments
<1>2. /\ force \in Arguments /\ Head(force) \notin OptionHeads /\ LevelIsNumber(force)
      /\ dir \in Arguments /\ Head(dir) \notin OptionHeads /\ LevelIsNumber(dir)
      /\ deps \in Arguments /\ Head(deps) \notin OptionHeads /\ LevelIsNumber(deps)
  BY PushedArguments
<1>3. /\ Head(force) = "force:" /\ Head(dir) = "dependency=" /\ Head(deps) = "dependency="
      /\ <<"always-encode-mir">> \notin {<<"--extern">>, <<"-L">>, force, dir, deps}
  OBVIOUS
<1> HIDE DEF force, dir, deps
<1>4. /\ Fileless(p) /\ Fileless(q) /\ Fileless(r) /\ Len(p) = 2 /\ Len(q) = 2 /\ Len(r) = 2
      /\ \A option \in OptionHeads : \A k, w :
           /\ IsGiven(p, option, k, w) <=> "--extern" = option /\ k = 2 /\ w = force
           /\ IsGiven(q, option, k, w) <=> "-L" = option /\ k = 2 /\ w = dir
           /\ IsGiven(r, option, k, w) <=> "-L" = option /\ k = 2 /\ w = deps
  BY <1>1, <1>2, PairFacts
<1>5. \A names : ~SetIn(p, names) /\ ~SetIn(q, names) /\ ~SetIn(r, names)
  <2>1. ASSUME NEW names PROVE ~SetIn(p, names) /\ ~SetIn(q, names) /\ ~SetIn(r, names)
    <3>1. SetIn(p, names) <=> "--extern" = "-Z" /\ Head(force) \in names
      BY <1>1, <1>2, PairSets, Zenon
    <3>2. SetIn(q, names) <=> "-L" = "-Z" /\ Head(dir) \in names
      BY <1>1, <1>2, PairSets, Zenon
    <3>3. SetIn(r, names) <=> "-L" = "-Z" /\ Head(deps) \in names
      BY <1>1, <1>2, PairSets, Zenon
    <3>4. QED
      BY <3>1, <3>2, <3>3
  <2>2. QED
    BY <2>1
<1>6. Unseen(p) /\ Unseen(q) /\ Unseen(r)
  BY <1>3, PairLooks DEF Unseen
<1> HIDE DEF p, q, r
<1>7. /\ p \in Lists /\ q \in Lists /\ r \in Lists /\ Fileless(p \o q) /\ p \o q \in Lists
      /\ Library = (p \o q) \o r
  BY <1>4, FilelessBoth, Zenon DEF Fileless, Library, p, q, r, force, dir, deps
<1>8. /\ \A names : SetIn((p \o q), names) <=> SetIn(p, names) \/ SetIn(q, names)
      /\ \A names : SetIn((p \o q) \o r, names) <=> SetIn((p \o q), names) \/ SetIn(r, names)
  BY <1>7, SettingInBoth, Zenon
<1>9. Unseen((p \o q) \o r)
  <2>1. Unseen(p \o q)
    BY <1>6, <1>7, Looks, Zenon DEF Unseen
  <2>2. QED
    BY <1>6, <1>7, <2>1, Looks, Zenon DEF Unseen
<1>10. Len((p \o q) \o r) = 6
  <2>1. Len(p \o q) = Len(p) + Len(q)
    BY <1>7, ListFacts, ConcatFacts
  <2>2. Len((p \o q) \o r) = Len(p \o q) + Len(r)
    BY <1>7, ListFacts, ConcatFacts
  <2>3. QED
    BY <1>4, <2>1, <2>2
<1>11. IsGiven((p \o q) \o r, "--extern", 2, force)
  <2>1. IsGiven(p, "--extern", 2, force)
    BY <1>1, <1>4
  <2>2. IsGiven(p \o q, "--extern", 2, force)
    BY <1>1, <1>7, <2>1, GivenInBoth, Zenon
  <2>3. QED
    BY <1>1, <1>7, <2>2, GivenInBoth, Zenon
<1>12. \A k, w : ~IsGiven((p \o q) \o r, "--sysroot", k, w)
  <2>1. \A k, w : ~IsGiven(p, "--sysroot", k, w) /\ ~IsGiven(q, "--sysroot", k, w)
                  /\ ~IsGiven(r, "--sysroot", k, w)
    BY <1>1, <1>4
  <2>2. \A k, w : ~IsGiven(p \o q, "--sysroot", k, w)
    BY <1>1, <1>7, <2>1, NoneInBoth, Zenon
  <2>3. QED
    BY <1>1, <1>7, <2>1, <2>2, NoneInBoth, Zenon
<1>13. 2 \in 1..Len(Library)
  BY <1>7, <1>10
<1>14. Fileless((p \o q) \o r)
  BY <1>4, <1>7, FilelessBoth, Zenon
<1>15. \A names : ~SetIn((p \o q) \o r, names)
  BY <1>5, <1>8, Zenon
<1>16. QED
  BY <1>7, <1>9, <1>10, <1>11, <1>12, <1>13, <1>14, <1>15, Zenon DEF force

SetsUnless(p, given, v) ==
    /\ Fileless(p) /\ Len(p) \in 0..2 /\ \A k, w : ~IsGiven(p, "--sysroot", k, w)
    /\ \A names : SetIn(p, names) <=> ~given /\ Head(v) \in names
    /\ \A names, unset : SetIn(p, names) => Setting(p, names, unset) = ValueOf(v)
    /\ \A piece : Named(p, piece) => piece = "-Z" \/ piece = Head(v)

LEMMA SettingFacts ==
    ASSUME NEW v \in {<<"always-encode-mir">>, <<"mir-opt-level", 1>>, <<"unstable-options">>},
           NEW given \in BOOLEAN
    PROVE  SetsUnless(OurSetting(given, v), given, v)
<1> DEFINE p == OurSetting(given, v)
           q == Pair("-Z", v)
<1>1. "-Z" \in OptionHeads /\ "--sysroot" \in OptionHeads /\ <<"-Z">> \in Arguments
  BY OptionsWithValues, PushedArguments
<1>2. v \in Arguments /\ Head(v) \notin OptionHeads /\ LevelIsNumber(v)
  BY PushedArguments
<1>3. Fileless(q) /\ Len(q) = 2
  BY <1>1, <1>2, PairFacts
<1>4. \A k, w : ~IsGiven(q, "--sysroot", k, w)
  <2>1. \A option \in OptionHeads : \A k, w :
          IsGiven(q, option, k, w) <=> "-Z" = option /\ k = 2 /\ w = v
    BY <1>1, <1>2, PairFacts
  <2>2. QED
    BY <1>1, <2>1
<1>5. ASSUME NEW names
      PROVE  /\ SetIn(q, names) <=> Head(v) \in names
             /\ SetIn(q, names) => \A unset : Setting(q, names, unset) = ValueOf(v)
  <2>1. SetIn(q, names) <=> "-Z" = "-Z" /\ Head(v) \in names
    BY <1>1, <1>2, PairSets, Zenon
  <2>2. SetIn(q, names) => \A unset : Setting(q, names, unset) = ValueOf(v)
    BY <1>1, <1>2, PairSets, Zenon
  <2>3. QED
    BY <2>1, <2>2
<1>6. \A piece : Named(q, piece) => piece = "-Z" \/ piece = Head(v)
  BY PairLooks, Zenon
<1> HIDE DEF p, q
<1>7. CASE given
  <2>1. p = <<>>
    BY <1>7 DEF p, OurSetting
  <2>2. Len(<<>>) \in 0..2
    OBVIOUS
  <2>3. QED
    BY <1>7, <2>1, <2>2, EmptyFacts, EmptyLooks, Zenon DEF SetsUnless, p
<1>8. CASE ~given
  <2>1. p = q
    BY <1>8 DEF p, q, OurSetting
  <2>2. Len(q) \in 0..2
    BY <1>3
  <2>3. QED
    BY <1>3, <1>4, <1>5, <1>6, <1>8, <2>1, <2>2, Zenon DEF SetsUnless, p
<1>9. QED
  BY <1>7, <1>8

LEMMA OurSettings ==
    ASSUME NEW u
    PROVE  /\ LET p == OurEncoding(u)
              IN  /\ Fileless(p) /\ Len(p) \in 0..2 /\ \A k, w : ~IsGiven(p, "--sysroot", k, w)
                  /\ SetIn(p, EncodeNames) <=> <<"always-encode-mir">> \notin ToSet(u)
                  /\ SetIn(p, EncodeNames) => Setting(p, EncodeNames, 0) = 1
                  /\ ~SetIn(p, LevelNames) /\ ~SetIn(p, UnstableNames)
                  /\ ~Named(p, "mir-opt-level") /\ ~Named(p, "unstable-options")
           /\ LET p == OurLevel(u)
              IN  /\ Fileless(p) /\ Len(p) \in 0..2 /\ \A k, w : ~IsGiven(p, "--sysroot", k, w)
                  /\ SetIn(p, LevelNames) <=> ~Named(u, "mir-opt-level")
                  /\ SetIn(p, LevelNames) => Setting(p, LevelNames, NotGiven) = 1
                  /\ ~SetIn(p, EncodeNames) /\ ~SetIn(p, UnstableNames)
                  /\ ~Named(p, "unstable-options")
           /\ LET p == OurUnstable(u)
              IN  /\ Fileless(p) /\ Len(p) \in 0..2 /\ \A k, w : ~IsGiven(p, "--sysroot", k, w)
                  /\ SetIn(p, UnstableNames) <=> ~Named(u, "unstable-options")
                  /\ SetIn(p, UnstableNames) => Setting(p, UnstableNames, 0) = 1
                  /\ ~SetIn(p, EncodeNames) /\ ~SetIn(p, LevelNames)
<1> DEFINE e == <<"always-encode-mir">>
           l == <<"mir-opt-level", 1>>
           t == <<"unstable-options">>
<1>1. /\ Head(e) = "always-encode-mir" /\ Head(l) = "mir-opt-level" /\ Head(t) = "unstable-options"
      /\ ValueOf(e) = 1 /\ ValueOf(l) = 1 /\ ValueOf(t) = 1
  BY DEF ValueOf
<1>2. /\ Head(e) \in EncodeNames /\ Head(e) \notin LevelNames /\ Head(e) \notin UnstableNames
      /\ Head(l) \notin EncodeNames /\ Head(l) \in LevelNames /\ Head(l) \notin UnstableNames
      /\ Head(t) \notin EncodeNames /\ Head(t) \notin LevelNames /\ Head(t) \in UnstableNames
  BY <1>1 DEF EncodeNames, LevelNames, UnstableNames
<1>3. \A piece : piece \in {"mir-opt-level", "unstable-options"} => piece # "-Z" /\ piece # Head(e)
  BY <1>1
<1>4. "unstable-options" # "-Z" /\ "unstable-options" # Head(l)
  BY <1>1
<1>5. SetsUnless(OurEncoding(u), <<"always-encode-mir">> \in ToSet(u), e)
  <2>1. /\ (<<"always-encode-mir">> \in ToSet(u)) \in BOOLEAN
        /\ e \in {<<"always-encode-mir">>, <<"mir-opt-level", 1>>, <<"unstable-options">>}
    BY DEF Named
  <2> HIDE DEF e
  <2>2. SetsUnless(OurSetting(<<"always-encode-mir">> \in ToSet(u), e), <<"always-encode-mir">> \in ToSet(u), e)
    BY <2>1, SettingFacts, Zenon
  <2>3. QED
    BY <2>2, Zenon DEF OurEncoding, e
<1>6. SetsUnless(OurLevel(u), Named(u, "mir-opt-level"), l)
  <2>1. /\ (Named(u, "mir-opt-level")) \in BOOLEAN
        /\ l \in {<<"always-encode-mir">>, <<"mir-opt-level", 1>>, <<"unstable-options">>}
    BY DEF Named
  <2> HIDE DEF l
  <2>2. SetsUnless(OurSetting(Named(u, "mir-opt-level"), l), Named(u, "mir-opt-level"), l)
    BY <2>1, SettingFacts, Zenon
  <2>3. QED
    BY <2>2, Zenon DEF OurLevel, l
<1>7. SetsUnless(OurUnstable(u), Named(u, "unstable-options"), t)
  <2>1. /\ (Named(u, "unstable-options")) \in BOOLEAN
        /\ t \in {<<"always-encode-mir">>, <<"mir-opt-level", 1>>, <<"unstable-options">>}
    BY DEF Named
  <2> HIDE DEF t
  <2>2. SetsUnless(OurSetting(Named(u, "unstable-options"), t), Named(u, "unstable-options"), t)
    BY <2>1, SettingFacts, Zenon
  <2>3. QED
    BY <2>2, Zenon DEF OurUnstable, t
<1> HIDE DEF e, l, t
<1>8. QED
  BY <1>1, <1>2, <1>3, <1>4, <1>5, <1>6, <1>7 DEF SetsUnless

-----------------------------------------------------------------------------
(* A first argument taken for the wrapped compiler is a file.               *)

LEMMA TailIsList ==
    ASSUME NEW u \in Lists, u # <<>>, Head(u[1]) = "rustc"
    PROVE  /\ Tail(u) \in Lists /\ <<u[1]>> \in Lists /\ u = <<u[1]>> \o Tail(u)
           /\ u[1] \in Arguments /\ Len(u) > 0
<1> DEFINE t == Tail(u)
<1>1. u \in Seq(Arguments) /\ \A k \in 1..Len(u) : u[k] \in Arguments /\ Sound(u, k)
  BY ListFacts
<1>2. /\ t \in Seq(Arguments) /\ Len(u) \in Nat /\ Len(u) > 0 /\ Len(t) = Len(u) - 1
      /\ \A k \in 1..Len(t) : t[k] = u[k + 1]
  BY <1>1
<1>3. u = <<u[1]>> \o t
  BY <1>1
<1> HIDE DEF t
<1>4. ASSUME NEW k \in 1..Len(t) PROVE Sound(t, k)
  <2>1. k + 1 \in 1..Len(u) /\ t[k] = u[k + 1] /\ (k + 1 < Len(u) => t[k + 1] = u[(k + 1) + 1])
        /\ (k + 1 < Len(u) => k < Len(t))
    BY <1>2
  <2>2. Sound(u, k + 1)
    BY <1>1, <2>1
  <2>3. QED
    BY <2>1, <2>2 DEF Sound
<1>5. t \in Lists
  BY <1>2, <1>4 DEF Lists
<1>6. u[1] \in Arguments
  BY <1>1, <1>2
<1>7. <<u[1]>> \in Lists
  BY <1>6, OptionsWithValues, OneArgument
<1>8. QED
  BY <1>2, <1>3, <1>5, <1>6, <1>7 DEF t

LEMMA FileAlone ==
    ASSUME NEW a \in Arguments, Head(a) = "rustc"
    PROVE  /\ IsFile(<<a>>, 1) /\ \A names : ~SetIn(<<a>>, names)
           /\ \A piece : Named(<<a>>, piece) <=> piece = "rustc"
           /\ \A b : b \in ToSet(<<a>>) <=> b = a
<1> DEFINE x == <<a>>
<1>1. Len(x) = 1 /\ x[1] = a /\ DOMAIN x = {1}
  OBVIOUS
<1> HIDE DEF x
<1>2. 1..Len(x) = {1} /\ 2..Len(x) = {}
  BY <1>1
<1>3. IsFile(x, 1)
  BY <1>1, <1>2, OptionsWithValues DEF IsFile
<1>4. \A k, v : ~IsGiven(x, "-Z", k, v)
  BY <1>1, <1>2 DEF IsGiven
<1>5. \A names : ~SetIn(x, names)
  BY <1>4 DEF SetIn, Sets
<1>6. \A piece : Named(x, piece) <=> piece = "rustc"
  BY <1>1, <1>2 DEF Named
<1>7. \A b : b \in ToSet(x) <=> b = a
  BY <1>1, Zenon DEF ToSet
<1>8. QED
  BY <1>3, <1>5, <1>6, <1>7 DEF x

LEMMA RemainingFacts ==
    ASSUME NEW u \in Lists, NEW w \in BOOLEAN
    PROVE  /\ Remaining(u, w) \in Lists
           /\ \A names, unset : Setting(Remaining(u, w), names, unset) = Setting(u, names, unset)
           /\ \A piece : piece # "rustc" => (Named(Remaining(u, w), piece) <=> Named(u, piece))
           /\ \A a : Head(a) # "rustc" => (a \in ToSet(Remaining(u, w)) <=> a \in ToSet(u))
           /\ ~Taken(u, w) => Remaining(u, w) = u
           /\ Taken(u, w) => /\ IsFile(u, 1) /\ Len(Remaining(u, w)) + 1 = Len(u)
                             /\ \A k : IsFile(Remaining(u, w), k) => IsFile(u, 1 + k)
<1>1. CASE ~Taken(u, w)
  <2>1. Remaining(u, w) = u
    BY <1>1 DEF Remaining
  <2>2. QED
    BY <1>1, <2>1, Zenon
<1>2. CASE Taken(u, w)
  <2> DEFINE x == <<u[1]>>
             t == Tail(u)
  <2>1. u # <<>> /\ Head(u[1]) = "rustc" /\ Remaining(u, w) = t
    BY <1>2 DEF Taken, Remaining
  <2>2. t \in Lists /\ x \in Lists /\ u = x \o t /\ u[1] \in Arguments /\ Len(x) = 1
    BY <2>1, TailIsList
  <2>3. /\ IsFile(x, 1) /\ \A names : ~SetIn(x, names)
        /\ \A piece : Named(x, piece) <=> piece = "rustc"
        /\ \A b : b \in ToSet(x) <=> b = u[1]
    BY <2>1, <2>2, FileAlone, Zenon
  <2>4. t \in Seq(Arguments) /\ u \in Seq(Arguments) /\ Len(u) = 1 + Len(t) /\ Len(t) \in Nat
    BY <2>2, ListFacts, ConcatFacts
  <2> HIDE DEF x, t
  <2>5. ASSUME NEW names, NEW unset PROVE Setting(t, names, unset) = Setting(u, names, unset)
    <3>1. /\ SetIn(t, names) => Setting(x \o t, names, unset) = Setting(t, names, unset)
          /\ ~SetIn(t, names) => Setting(x \o t, names, unset) = Setting(x, names, unset)
      BY <2>2, SettingInBoth
    <3>2. Setting(x, names, unset) = unset
      BY <2>2, <2>3, SettingNone, Zenon
    <3>3. ~SetIn(t, names) => Setting(t, names, unset) = unset
      BY <2>2, SettingNone, Zenon
    <3>4. QED
      BY <2>2, <3>1, <3>2, <3>3, Zenon
  <2>6. \A piece : Named(u, piece) <=> Named(x, piece) \/ Named(t, piece)
    BY <2>2, Looks, Zenon
  <2>7. \A b : b \in ToSet(u) <=> b \in ToSet(x) \/ b \in ToSet(t)
    BY <2>2, Looks, Zenon
  <2>8. IsFile(u, 1) /\ \A k : IsFile(t, k) => IsFile(u, Len(x) + k)
    BY <2>2, <2>3, FilesInBoth, Zenon
  <2>9. \A piece : piece # "rustc" => (Named(t, piece) <=> Named(u, piece))
    BY <2>3, <2>6, Zenon
  <2>10. \A a : Head(a) # "rustc" => (a \in ToSet(t) <=> a \in ToSet(u))
    BY <2>1, <2>3, <2>7, Zenon
  <2>11. Len(t) + 1 = Len(u) /\ \A k : IsFile(t, k) => IsFile(u, 1 + k)
    BY <2>2, <2>4, <2>8
  <2>12. QED
    BY <1>2, <2>1, <2>2, <2>5, <2>8, <2>9, <2>10, <2>11, Zenon
<1>3. QED
  BY <1>1, <1>2

-----------------------------------------------------------------------------
(* What rustc reads in the arguments main hands over.                       *)

LEMMA PushedBehind ==
    ASSUME NEW x \in Lists, NEW p, Fileless(p)
    PROVE  /\ x \o p \in Lists /\ p \in Lists
           /\ Len(x \o p) = Len(x) + Len(p) /\ Len(x) \in Nat /\ Len(p) \in Nat
           /\ FilePlaces(x \o p) = FilePlaces(x) /\ FilesIn(x \o p) = FilesIn(x)
<1>1. p \in Lists
  BY DEF Fileless
<1>2. x \o p \in Lists
  BY <1>1, ListsClosed
<1>3. Len(x \o p) = Len(x) + Len(p) /\ Len(x) \in Nat /\ Len(p) \in Nat
  BY <1>1, ListFacts, ConcatFacts
<1>4. FilePlaces(x \o p) = FilePlaces(x) /\ FilesIn(x \o p) = FilesIn(x)
  BY FilesKept
<1>5. QED
  BY <1>1, <1>2, <1>3, <1>4

LEMMA StagesAreLists ==
    ASSUME NEW u \in Lists, NEW w \in BOOLEAN
    PROVE  /\ Remaining(u, w) \in Lists /\ WithSysroot(u, w) \in Lists /\ WithLibrary(u, w) \in Lists
           /\ WithEncoding(u, w) \in Lists /\ WithLevel(u, w) \in Lists /\ Full(u, w) \in Lists
           /\ OurSysroot(u) \in Lists /\ Library \in Lists
           /\ OurEncoding(u) \in Lists /\ OurLevel(u) \in Lists /\ OurUnstable(u) \in Lists
<1>1. Remaining(u, w) \in Lists
  BY RemainingFacts
<1>2. /\ Fileless(OurSysroot(u)) /\ Fileless(Library)
      /\ Fileless(OurEncoding(u)) /\ Fileless(OurLevel(u)) /\ Fileless(OurUnstable(u))
  BY SysrootFacts, LibraryFacts, OurSettings
<1>3. WithSysroot(u, w) \in Lists
  BY <1>1, <1>2, PushedBehind DEF WithSysroot
<1>4. WithLibrary(u, w) \in Lists
  BY <1>2, <1>3, PushedBehind DEF WithLibrary
<1>5. WithEncoding(u, w) \in Lists
  BY <1>2, <1>4, PushedBehind DEF WithEncoding
<1>6. WithLevel(u, w) \in Lists
  BY <1>2, <1>5, PushedBehind DEF WithLevel
<1>7. Full(u, w) \in Lists
  BY <1>2, <1>6, PushedBehind DEF Full
<1>8. QED
  BY <1>1, <1>2, <1>3, <1>4, <1>5, <1>6, <1>7 DEF Fileless

LEMMA Longer ==
    ASSUME NEW x \in Lists, NEW p, Fileless(p), NEW n \in Nat
    PROVE  /\ Len(x) <= n /\ Len(p) <= 2 => Len(x \o p) <= n + 2
           /\ Len(x) <= n + 2 /\ Len(p) <= 6 => Len(x \o p) <= n + 8
           /\ Len(x) <= n + 8 /\ Len(p) <= 2 => Len(x \o p) <= n + 10
           /\ Len(x) <= n + 10 /\ Len(p) <= 2 => Len(x \o p) <= n + 12
           /\ Len(x) <= n + 12 /\ Len(p) <= 2 => Len(x \o p) <= n + 14
<1>1. Len(x \o p) = Len(x) + Len(p) /\ Len(x) \in Nat /\ Len(p) \in Nat
  BY PushedBehind
<1>2. QED
  BY <1>1

LEMMA FullLength ==
    ASSUME NEW u \in Lists, NEW w \in BOOLEAN
    PROVE  /\ Len(Remaining(u, w)) <= Len(u) + 14 /\ Len(WithSysroot(u, w)) <= Len(u) + 14
           /\ Len(WithLibrary(u, w)) <= Len(u) + 14 /\ Len(WithEncoding(u, w)) <= Len(u) + 14
           /\ Len(WithLevel(u, w)) <= Len(u) + 14 /\ Len(Full(u, w)) <= Len(u) + 14
<1>1. Len(Remaining(u, w)) <= Len(u) /\ Len(u) \in Nat /\ Len(Remaining(u, w)) \in Nat
  <2>1. Len(u) \in Nat /\ Len(Remaining(u, w)) \in Nat
    BY RemainingFacts, ListFacts
  <2>2. Remaining(u, w) = u \/ Len(Remaining(u, w)) + 1 = Len(u)
    BY RemainingFacts
  <2>3. QED
    BY <2>1, <2>2
<1>2. /\ Fileless(OurSysroot(u)) /\ Len(OurSysroot(u)) <= 2
      /\ Fileless(Library) /\ Len(Library) <= 6
      /\ Fileless(OurEncoding(u)) /\ Len(OurEncoding(u)) <= 2
      /\ Fileless(OurLevel(u)) /\ Len(OurLevel(u)) <= 2
      /\ Fileless(OurUnstable(u)) /\ Len(OurUnstable(u)) <= 2
  <2>1. \A n \in 0..2 : n <= 2
    OBVIOUS
  <2>2. Len(Library) <= 6
    BY LibraryFacts
  <2>3. QED
    BY <2>1, <2>2, SysrootFacts, LibraryFacts, OurSettings, Zenon
<1>3. Len(WithSysroot(u, w)) <= Len(u) + 2
  BY <1>1, <1>2, StagesAreLists, Longer, Zenon DEF WithSysroot
<1>4. Len(WithLibrary(u, w)) <= Len(u) + 8
  BY <1>1, <1>2, <1>3, StagesAreLists, Longer, Zenon DEF WithLibrary
<1>5. Len(WithEncoding(u, w)) <= Len(u) + 10
  BY <1>1, <1>2, <1>4, StagesAreLists, Longer, Zenon DEF WithEncoding
<1>6. Len(WithLevel(u, w)) <= Len(u) + 12
  BY <1>1, <1>2, <1>5, StagesAreLists, Longer, Zenon DEF WithLevel
<1>7. Len(Full(u, w)) <= Len(u) + 14
  BY <1>1, <1>2, <1>6, StagesAreLists, Longer, Zenon DEF Full
<1>8. /\ Len(WithSysroot(u, w)) \in Nat /\ Len(WithLibrary(u, w)) \in Nat
      /\ Len(WithEncoding(u, w)) \in Nat /\ Len(WithLevel(u, w)) \in Nat
  BY StagesAreLists, ListFacts
<1>9. \A n, k \in Nat :
        k <= n \/ k <= n + 2 \/ k <= n + 8 \/ k <= n + 10 \/ k <= n + 12 => k <= n + 14
  OBVIOUS
<1>10. QED
  BY <1>1, <1>3, <1>4, <1>5, <1>6, <1>7, <1>8, <1>9, Zenon

LEMMA FullFiles ==
    ASSUME NEW u \in Lists, NEW w \in BOOLEAN
    PROVE  FilePlaces(Full(u, w)) = FilePlaces(Remaining(u, w)) /\ FilesIn(Full(u, w)) = FilesIn(Remaining(u, w))
<1>1. /\ Fileless(OurSysroot(u)) /\ Fileless(Library)
      /\ Fileless(OurEncoding(u)) /\ Fileless(OurLevel(u)) /\ Fileless(OurUnstable(u))
  BY SysrootFacts, LibraryFacts, OurSettings
<1>2. /\ FilePlaces(WithSysroot(u, w)) = FilePlaces(Remaining(u, w))
      /\ FilesIn(WithSysroot(u, w)) = FilesIn(Remaining(u, w))
  BY <1>1, StagesAreLists, PushedBehind DEF WithSysroot
<1>3. /\ FilePlaces(WithLibrary(u, w)) = FilePlaces(WithSysroot(u, w))
      /\ FilesIn(WithLibrary(u, w)) = FilesIn(WithSysroot(u, w))
  BY <1>1, StagesAreLists, PushedBehind DEF WithLibrary
<1>4. /\ FilePlaces(WithEncoding(u, w)) = FilePlaces(WithLibrary(u, w))
      /\ FilesIn(WithEncoding(u, w)) = FilesIn(WithLibrary(u, w))
  BY <1>1, StagesAreLists, PushedBehind DEF WithEncoding
<1>5. /\ FilePlaces(WithLevel(u, w)) = FilePlaces(WithEncoding(u, w))
      /\ FilesIn(WithLevel(u, w)) = FilesIn(WithEncoding(u, w))
  BY <1>1, StagesAreLists, PushedBehind DEF WithLevel
<1>6. /\ FilePlaces(Full(u, w)) = FilePlaces(WithLevel(u, w))
      /\ FilesIn(Full(u, w)) = FilesIn(WithLevel(u, w))
  BY <1>1, StagesAreLists, PushedBehind DEF Full
<1>7. QED
  BY <1>2, <1>3, <1>4, <1>5, <1>6

(* What main finds when it looks is what the user wrote.                    *)
LEMMA StagesLook ==
    ASSUME NEW u \in Lists, NEW w \in BOOLEAN
    PROVE  /\ <<"--sysroot">> \in ToSet(Remaining(u, w)) <=> <<"--sysroot">> \in ToSet(u)
           /\ <<"always-encode-mir">> \in ToSet(WithLibrary(u, w))
                <=> <<"always-encode-mir">> \in ToSet(u)
           /\ Named(WithEncoding(u, w), "mir-opt-level") <=> Named(u, "mir-opt-level")
           /\ Named(WithLevel(u, w), "unstable-options") <=> Named(u, "unstable-options")
<1> DEFINE r == Remaining(u, w)
<1>1. Head(<<"--sysroot">>) # "rustc" /\ Head(<<"always-encode-mir">>) # "rustc"
  OBVIOUS
<1>2. /\ <<"--sysroot">> \in ToSet(r) <=> <<"--sysroot">> \in ToSet(u)
      /\ <<"always-encode-mir">> \in ToSet(r) <=> <<"always-encode-mir">> \in ToSet(u)
  BY <1>1, RemainingFacts, Zenon
<1>3. /\ Named(r, "mir-opt-level") <=> Named(u, "mir-opt-level")
      /\ Named(r, "unstable-options") <=> Named(u, "unstable-options")
  <2>1. "mir-opt-level" # "rustc" /\ "unstable-options" # "rustc"
    OBVIOUS
  <2>2. QED
    BY <2>1, RemainingFacts, Zenon
<1> DEFINE p1 == OurSysroot(u)
           p2 == OurEncoding(u)
           p3 == OurLevel(u)
           s1 == WithSysroot(u, w)
           s2 == WithLibrary(u, w)
           s3 == WithEncoding(u, w)
           s4 == WithLevel(u, w)
<1>4. /\ Unseen(p1) /\ Unseen(Library)
      /\ ~Named(p2, "mir-opt-level") /\ ~Named(p2, "unstable-options")
      /\ ~Named(p3, "unstable-options")
  BY SysrootFacts, LibraryFacts, OurSettings
<1>5. /\ r \in Lists /\ s1 \in Lists /\ s2 \in Lists /\ s3 \in Lists
      /\ p1 \in Lists /\ Library \in Lists /\ p2 \in Lists /\ p3 \in Lists
  BY StagesAreLists
<1>6. s1 = r \o p1 /\ s2 = s1 \o Library /\ s3 = s2 \o p2 /\ s4 = s3 \o p3
  BY DEF WithSysroot, WithLibrary, WithEncoding, WithLevel
<1> HIDE DEF r, p1, p2, p3, s1, s2, s3, s4
<1>7. \A piece :
        /\ Named(r \o p1, piece) <=> Named(r, piece) \/ Named(p1, piece)
        /\ Named(s1 \o Library, piece) <=> Named(s1, piece) \/ Named(Library, piece)
        /\ Named(s2 \o p2, piece) <=> Named(s2, piece) \/ Named(p2, piece)
        /\ Named(s3 \o p3, piece) <=> Named(s3, piece) \/ Named(p3, piece)
  BY <1>5, Looks
<1>8. \A a :
        /\ a \in ToSet(r \o p1) <=> a \in ToSet(r) \/ a \in ToSet(p1)
        /\ a \in ToSet(s1 \o Library) <=> a \in ToSet(s1) \/ a \in ToSet(Library)
  BY <1>5, Looks
<1>9. <<"always-encode-mir">> \in ToSet(s2) <=> <<"always-encode-mir">> \in ToSet(u)
  BY <1>2, <1>4, <1>6, <1>8, Zenon DEF Unseen
<1>10. /\ Named(s3, "mir-opt-level") <=> Named(u, "mir-opt-level")
       /\ Named(s4, "unstable-options") <=> Named(u, "unstable-options")
  BY <1>3, <1>4, <1>6, <1>7, Zenon DEF Unseen
<1>11. QED
  BY <1>2, <1>9, <1>10 DEF r, s2, s3, s4

LEMMA FullSettings ==
    ASSUME NEW u \in Lists, NEW w \in BOOLEAN
    PROVE  /\ Named(u, "mir-opt-level") => LevelIn(Full(u, w)) = LevelIn(u)
           /\ ~Named(u, "mir-opt-level") => LevelIn(Full(u, w)) = 1
           /\ EncodesIn(Full(u, w)) <=> (<<"always-encode-mir">> \in ToSet(u) => EncodesIn(u))
           /\ UnstableIn(Full(u, w)) <=> (Named(u, "unstable-options") => UnstableIn(u))
<1> DEFINE r == Remaining(u, w)
           p1 == OurSysroot(u)
           p2 == OurEncoding(u)
           p3 == OurLevel(u)
           p4 == OurUnstable(u)
           s1 == WithSysroot(u, w)
           s2 == WithLibrary(u, w)
           s3 == WithEncoding(u, w)
           s4 == WithLevel(u, w)
           s5 == Full(u, w)
<1>1. /\ \A names : ~SetIn(p1, names) /\ ~SetIn(Library, names)
      /\ SetIn(p2, EncodeNames) <=> <<"always-encode-mir">> \notin ToSet(u)
      /\ SetIn(p2, EncodeNames) => Setting(p2, EncodeNames, 0) = 1
      /\ ~SetIn(p2, LevelNames) /\ ~SetIn(p2, UnstableNames)
      /\ SetIn(p3, LevelNames) <=> ~Named(u, "mir-opt-level")
      /\ SetIn(p3, LevelNames) => Setting(p3, LevelNames, NotGiven) = 1
      /\ ~SetIn(p3, EncodeNames) /\ ~SetIn(p3, UnstableNames)
      /\ SetIn(p4, UnstableNames) <=> ~Named(u, "unstable-options")
      /\ SetIn(p4, UnstableNames) => Setting(p4, UnstableNames, 0) = 1
      /\ ~SetIn(p4, EncodeNames) /\ ~SetIn(p4, LevelNames)
  BY SysrootFacts, LibraryFacts, OurSettings
<1>2. /\ r \in Lists /\ s1 \in Lists /\ s2 \in Lists /\ s3 \in Lists /\ s4 \in Lists
      /\ p1 \in Lists /\ Library \in Lists /\ p2 \in Lists /\ p3 \in Lists /\ p4 \in Lists
  BY StagesAreLists
<1>3. s1 = r \o p1 /\ s2 = s1 \o Library /\ s3 = s2 \o p2 /\ s4 = s3 \o p3 /\ s5 = s4 \o p4
  BY DEF WithSysroot, WithLibrary, WithEncoding, WithLevel, Full
<1>4. \A names, unset : Setting(r, names, unset) = Setting(u, names, unset)
  BY RemainingFacts
<1> HIDE DEF r, p1, p2, p3, p4, s1, s2, s3, s4, s5
<1>5. \A x, y \in Lists : \A names, unset :
        /\ SetIn(y, names) => Setting(x \o y, names, unset) = Setting(y, names, unset)
        /\ ~SetIn(y, names) => Setting(x \o y, names, unset) = Setting(x, names, unset)
  BY SettingInBoth
<1>6. \A names, unset : Setting(s2, names, unset) = Setting(u, names, unset)
  BY <1>1, <1>2, <1>3, <1>4, <1>5
<1>7. /\ Setting(s3, LevelNames, NotGiven) = Setting(u, LevelNames, NotGiven)
      /\ Setting(s3, UnstableNames, 0) = Setting(u, UnstableNames, 0)
      /\ SetIn(p2, EncodeNames) => Setting(s3, EncodeNames, 0) = 1
      /\ ~SetIn(p2, EncodeNames) => Setting(s3, EncodeNames, 0) = Setting(u, EncodeNames, 0)
  BY <1>1, <1>2, <1>3, <1>5, <1>6
<1>8. /\ Setting(s4, UnstableNames, 0) = Setting(u, UnstableNames, 0)
      /\ Setting(s4, EncodeNames, 0) = Setting(s3, EncodeNames, 0)
      /\ SetIn(p3, LevelNames) => Setting(s4, LevelNames, NotGiven) = 1
      /\ ~SetIn(p3, LevelNames) => Setting(s4, LevelNames, NotGiven) = Setting(u, LevelNames, NotGiven)
  BY <1>1, <1>2, <1>3, <1>5, <1>7
<1>9. /\ Setting(s5, EncodeNames, 0) = Setting(s3, EncodeNames, 0)
      /\ Setting(s5, LevelNames, NotGiven) = Setting(s4, LevelNames, NotGiven)
      /\ SetIn(p4, UnstableNames) => Setting(s5, UnstableNames, 0) = 1
      /\ ~SetIn(p4, UnstableNames) => Setting(s5, UnstableNames, 0) = Setting(u, UnstableNames, 0)
  BY <1>1, <1>2, <1>3, <1>5, <1>8
<1>10. \A list : /\ LevelIn(list) = Setting(list, LevelNames, NotGiven)
                 /\ EncodesIn(list) <=> Setting(list, EncodeNames, 0) = 1
                 /\ UnstableIn(list) <=> Setting(list, UnstableNames, 0) = 1
  BY Zenon DEF LevelIn, EncodesIn, UnstableIn, EncodeNames, UnstableNames
<1>11. /\ Named(u, "mir-opt-level") => LevelIn(s5) = LevelIn(u)
       /\ ~Named(u, "mir-opt-level") => LevelIn(s5) = 1
  BY <1>1, <1>8, <1>9, <1>10
<1>12. EncodesIn(s5) <=> (<<"always-encode-mir">> \in ToSet(u) => EncodesIn(u))
  BY <1>1, <1>7, <1>9, <1>10
<1>13. UnstableIn(s5) <=> (Named(u, "unstable-options") => UnstableIn(u))
  BY <1>1, <1>9, <1>10
<1>14. QED
  BY <1>11, <1>12, <1>13 DEF s5

(* Sysroots and forced crates.                                              *)
LEMMA FullGiven ==
    ASSUME NEW u \in Lists, NEW w \in BOOLEAN
    PROVE  /\ \A k, v : IsGiven(Remaining(u, w), "--sysroot", k, v) => IsGiven(Full(u, w), "--sysroot", k, v)
           /\ \A k, v : IsGiven(Full(u, w), "--sysroot", k, v) =>
                \/ IsGiven(Remaining(u, w), "--sysroot", k, v)
                \/ <<"--sysroot">> \notin ToSet(u) /\ k = Len(Remaining(u, w)) + 2 /\ v = <<"ours">>
           /\ <<"--sysroot">> \notin ToSet(u) =>
                IsGiven(Full(u, w), "--sysroot", Len(Remaining(u, w)) + 2, <<"ours">>)
           /\ \E k : IsGiven(Full(u, w), "--extern", k, <<"force:", "monitors">>)
<1> DEFINE r == Remaining(u, w)
           p1 == OurSysroot(u)
           p2 == OurEncoding(u)
           p3 == OurLevel(u)
           p4 == OurUnstable(u)
           s1 == WithSysroot(u, w)
           s2 == WithLibrary(u, w)
           s3 == WithEncoding(u, w)
           s4 == WithLevel(u, w)
           s5 == Full(u, w)
           n == Len(r) + 2
<1>1. "--sysroot" \in OptionHeads /\ "--extern" \in OptionHeads
  BY OptionsWithValues
<1>2. /\ \A k, v : ~IsGiven(Library, "--sysroot", k, v) /\ ~IsGiven(p2, "--sysroot", k, v)
                   /\ ~IsGiven(p3, "--sysroot", k, v) /\ ~IsGiven(p4, "--sysroot", k, v)
      /\ \E k \in 1..Len(Library) : IsGiven(Library, "--extern", k, <<"force:", "monitors">>)
  BY LibraryFacts, OurSettings
<1>3. \A k, v : IsGiven(p1, "--sysroot", k, v) <=>
                  <<"--sysroot">> \notin ToSet(u) /\ k = 2 /\ v = <<"ours">>
  BY <1>1, SysrootFacts
<1>4. /\ r \in Lists /\ s1 \in Lists /\ s2 \in Lists /\ s3 \in Lists /\ s4 \in Lists
      /\ p1 \in Lists /\ Library \in Lists /\ p2 \in Lists /\ p3 \in Lists /\ p4 \in Lists
  BY StagesAreLists
<1>5. s1 = r \o p1 /\ s2 = s1 \o Library /\ s3 = s2 \o p2 /\ s4 = s3 \o p3 /\ s5 = s4 \o p4
  BY DEF WithSysroot, WithLibrary, WithEncoding, WithLevel, Full
<1> HIDE DEF r, p1, p2, p3, p4, s1, s2, s3, s4, s5
<1>6. \A x, y \in Lists, option \in OptionHeads :
        /\ \A k, v : IsGiven(x, option, k, v) => IsGiven(x \o y, option, k, v)
        /\ \A j \in 1..Len(y) : \A v : IsGiven(y, option, j, v) => IsGiven(x \o y, option, Len(x) + j, v)
        /\ \A k, v : IsGiven(x \o y, option, k, v) =>
             \/ IsGiven(x, option, k, v)
             \/ k - Len(x) \in 1..Len(y) /\ IsGiven(y, option, k - Len(x), v)
  BY GivenInBoth
<1>7. \A k, v : /\ IsGiven(s5, "--sysroot", k, v) <=> IsGiven(s4, "--sysroot", k, v)
                /\ IsGiven(s4, "--sysroot", k, v) <=> IsGiven(s3, "--sysroot", k, v)
                /\ IsGiven(s3, "--sysroot", k, v) <=> IsGiven(s2, "--sysroot", k, v)
                /\ IsGiven(s2, "--sysroot", k, v) <=> IsGiven(s1, "--sysroot", k, v)
  <2>1. ASSUME NEW x \in Lists, NEW y \in Lists, \A k, v : ~IsGiven(y, "--sysroot", k, v)
        PROVE  \A k, v : IsGiven(x \o y, "--sysroot", k, v) <=> IsGiven(x, "--sysroot", k, v)
    BY <1>1, <1>6, <2>1, Zenon
  <2>2. \A k, v : IsGiven(s5, "--sysroot", k, v) <=> IsGiven(s4, "--sysroot", k, v)
    BY <1>2, <1>4, <1>5, <2>1, Zenon
  <2>3. \A k, v : IsGiven(s4, "--sysroot", k, v) <=> IsGiven(s3, "--sysroot", k, v)
    BY <1>2, <1>4, <1>5, <2>1, Zenon
  <2>4. \A k, v : IsGiven(s3, "--sysroot", k, v) <=> IsGiven(s2, "--sysroot", k, v)
    BY <1>2, <1>4, <1>5, <2>1, Zenon
  <2>5. \A k, v : IsGiven(s2, "--sysroot", k, v) <=> IsGiven(s1, "--sysroot", k, v)
    BY <1>2, <1>4, <1>5, <2>1, Zenon
  <2>6. QED
    BY <2>2, <2>3, <2>4, <2>5, Zenon
<1>8. \A k, v : IsGiven(r, "--sysroot", k, v) => IsGiven(s1, "--sysroot", k, v)
  BY <1>1, <1>4, <1>5, <1>6
<1>9. ASSUME NEW k, NEW v, IsGiven(s1, "--sysroot", k, v), ~IsGiven(r, "--sysroot", k, v)
      PROVE  <<"--sysroot">> \notin ToSet(u) /\ k = n /\ v = <<"ours">>
  <2>1. IsGiven(p1, "--sysroot", k - Len(r), v)
    BY <1>1, <1>4, <1>5, <1>6, <1>9
  <2>2. <<"--sysroot">> \notin ToSet(u) /\ k - Len(r) = 2 /\ v = <<"ours">>
    BY <1>3, <2>1, Zenon
  <2>3. k \in 1..Len(s1) /\ s1 \in Lists /\ Len(r) \in Nat /\ Len(s1) \in Nat
    BY <1>4, <1>9, ListFacts DEF IsGiven
  <2>4. k = n
    BY <2>2, <2>3
  <2>5. QED
    BY <2>2, <2>4
<1>10. ASSUME <<"--sysroot">> \notin ToSet(u) PROVE IsGiven(s1, "--sysroot", n, <<"ours">>)
  <2>1. IsGiven(p1, "--sysroot", 2, <<"ours">>)
    BY <1>3, <1>10
  <2>2. 2 \in 1..Len(p1)
    BY <1>1, <1>4, <2>1, GivenFacts, Zenon
  <2>3. QED
    BY <1>1, <1>4, <1>5, <1>6, <2>1, <2>2
<1>11. \E k : IsGiven(s5, "--extern", k, <<"force:", "monitors">>)
  <2>1. \E k : IsGiven(s2, "--extern", k, <<"force:", "monitors">>)
    BY <1>1, <1>2, <1>4, <1>5, <1>6
  <2>2. \A k, v : IsGiven(s2, "--extern", k, v) => IsGiven(s5, "--extern", k, v)
    BY <1>1, <1>4, <1>5, <1>6
  <2>3. QED
    BY <2>1, <2>2
<1>12. QED
  BY <1>7, <1>8, <1>9, <1>10, <1>11 DEF r, s5

(* rustc accepts a list: one file, one sysroot, a reason to force a crate.  *)
OneSysroot(list) ==
    \A j, k, v, x : IsGiven(list, "--sysroot", j, v) /\ IsGiven(list, "--sysroot", k, x) => j = k
Forces(list) == \E k, v : IsGiven(list, "--extern", k, v) /\ Head(v) = "force:"

LEMMA AcceptedIs ==
    ASSUME NEW list \in Lists
    PROVE  /\ Accepted(list) <=>
                /\ \E k \in 1..Len(list) : FilePlaces(list) = {k}
                /\ OneSysroot(list) /\ (Forces(list) => UnstableIn(list))
           /\ Accepted(list) => \E k : IsFile(list, k) /\ \A j : IsFile(list, j) => j = k
<1>1. "--sysroot" \in OptionHeads /\ "--extern" \in OptionHeads
  BY OptionsWithValues
<1>2. /\ \A g : g \in Given(list, "--sysroot") <=>
                  \E k, v : g = <<k, v>> /\ IsGiven(list, "--sysroot", k, v)
      /\ \A g : g \in Given(list, "--extern") <=>
                  \E k, v : g = <<k, v>> /\ IsGiven(list, "--extern", k, v)
  BY <1>1, GivenLocal, Zenon
<1>3. ASSUME \A g, h \in Given(list, "--sysroot") : g = h
      PROVE  OneSysroot(list)
  <2>1. ASSUME NEW j, NEW k, NEW v, NEW x,
               IsGiven(list, "--sysroot", j, v), IsGiven(list, "--sysroot", k, x)
        PROVE  j = k
    <3>1. <<j, v>> = <<k, x>>
      BY <1>2, <1>3, <2>1, Zenon
    <3>2. QED
      BY <3>1
  <2>2. QED
    BY <2>1 DEF OneSysroot
<1>4. ASSUME OneSysroot(list), NEW g \in Given(list, "--sysroot"), NEW h \in Given(list, "--sysroot")
      PROVE  g = h
  <2>1. PICK j, v : g = <<j, v>> /\ IsGiven(list, "--sysroot", j, v)
    BY <1>2, Zenon
  <2>2. PICK k, x : h = <<k, x>> /\ IsGiven(list, "--sysroot", k, x)
    BY <1>2, Zenon
  <2>3. j = k
    BY <1>4, <2>1, <2>2, Zenon DEF OneSysroot
  <2>4. v = x
    BY <1>1, <2>1, <2>2, <2>3, GivenFacts
  <2>5. QED
    BY <2>1, <2>2, <2>3, <2>4
<1>5. (\A g, h \in Given(list, "--sysroot") : g = h) <=> OneSysroot(list)
  BY <1>3, <1>4, Zenon
<1>6. ASSUME NEW g \in Given(list, "--extern"), Head(g[2]) = "force:" PROVE Forces(list)
  <2>1. PICK k, v : g = <<k, v>> /\ IsGiven(list, "--extern", k, v)
    BY <1>2, Zenon
  <2>2. QED
    BY <1>6, <2>1 DEF Forces
<1>7. ASSUME NEW k, NEW v, IsGiven(list, "--extern", k, v), Head(v) = "force:"
      PROVE  \E g \in Given(list, "--extern") : Head(g[2]) = "force:"
  <2>1. <<k, v>> \in Given(list, "--extern") /\ (<<k, v>>)[2] = v
    BY <1>2, <1>7
  <2>2. QED
    BY <1>7, <2>1, Zenon
<1>8. (\E g \in Given(list, "--extern") : Head(g[2]) = "force:") <=> Forces(list)
  BY <1>6, <1>7, Zenon DEF Forces
<1>9. (\E k \in 1..Len(list) : FilePlaces(list) = {k}) =>
        \E k : IsFile(list, k) /\ \A j : IsFile(list, j) => j = k
  BY FilesLocal
<1>10. QED
  BY <1>5, <1>8, <1>9, Zenon DEF Accepted

SysrootJoined(u) == \E k \in 1..Len(u) : Head(u[k]) = "--sysroot" /\ Len(u[k]) > 1

(* A sysroot is given behind its option or joined with it.                  *)
LEMMA SysrootGiven ==
    ASSUME NEW u \in Lists
    PROVE  /\ <<"--sysroot">> \in ToSet(u) =>
                \E k \in 2..Len(u) : \E v : /\ IsGiven(u, "--sysroot", k, v)
                                        /\ Head(u[k]) \notin OptionHeads
           /\ \A k \in 1..Len(u) : Head(u[k]) = "--sysroot" /\ Len(u[k]) > 1 =>
                IsGiven(u, "--sysroot", k, Tail(u[k]))
           /\ (\E k, v : IsGiven(u, "--sysroot", k, v)) <=> <<"--sysroot">> \in ToSet(u) \/ SysrootJoined(u)
<1>1. "--sysroot" \in OptionHeads /\ <<"--sysroot">> \in TakesValue
  BY OptionsWithValues
<1>2. ASSUME <<"--sysroot">> \in ToSet(u)
      PROVE  \E k \in 2..Len(u) : \E v : IsGiven(u, "--sysroot", k, v) /\ Head(u[k]) \notin OptionHeads
  <2>1. PICK k \in 1..Len(u) : u[k] = <<"--sysroot">>
    BY <1>2, InSet
  <2>2. Sound(u, k) /\ Len(u) \in Nat
    BY ListFacts
  <2>3. k < Len(u) /\ Head(u[k + 1]) \notin OptionHeads
    BY <1>1, <2>1, <2>2 DEF Sound
  <2>4. k + 1 \in 2..Len(u) /\ (k + 1) - 1 = k
    BY <2>2, <2>3
  <2>5. IsGiven(u, "--sysroot", k + 1, u[k + 1])
    BY <2>1, <2>4 DEF IsGiven
  <2>6. QED
    BY <2>3, <2>4, <2>5
<1>3. \A k \in 1..Len(u) : Head(u[k]) = "--sysroot" /\ Len(u[k]) > 1 =>
        IsGiven(u, "--sysroot", k, Tail(u[k]))
  BY Zenon DEF IsGiven
<1>4. ASSUME NEW k, NEW v, IsGiven(u, "--sysroot", k, v)
      PROVE  <<"--sysroot">> \in ToSet(u) \/ SysrootJoined(u)
  <2>1. CASE k \in 2..Len(u) /\ u[k - 1] = <<"--sysroot">>
    <3>1. k - 1 \in 1..Len(u)
      BY <2>1, ListFacts
    <3>2. QED
      BY <2>1, <3>1, InSet
  <2>2. CASE k \in 1..Len(u) /\ Head(u[k]) = "--sysroot" /\ Len(u[k]) > 1
    BY <2>2 DEF SysrootJoined
  <2>3. QED
    BY <1>4, <2>1, <2>2 DEF IsGiven
<1>5. QED
  BY <1>2, <1>3, <1>4 DEF SysrootJoined

LEMMA FullAccepted ==
    ASSUME NEW u \in Lists, NEW w \in BOOLEAN, Accepted(u)
    PROVE  Accepted(Full(u, w)) <=>
             /\ ~SysrootJoined(u) /\ ~Taken(u, w)
             /\ Named(u, "unstable-options") => UnstableIn(u)
<1> DEFINE f == Full(u, w)
           r == Remaining(u, w)
<1>1. f \in Lists /\ r \in Lists /\ Len(u) \in Nat
  BY StagesAreLists, ListFacts
<1>2. FilePlaces(f) = FilePlaces(r)
  BY FullFiles
<1>3. /\ \A k, v : IsGiven(r, "--sysroot", k, v) => IsGiven(f, "--sysroot", k, v)
      /\ \A k, v : IsGiven(f, "--sysroot", k, v) =>
           \/ IsGiven(r, "--sysroot", k, v)
           \/ <<"--sysroot">> \notin ToSet(u) /\ k = Len(r) + 2 /\ v = <<"ours">>
      /\ <<"--sysroot">> \notin ToSet(u) => IsGiven(f, "--sysroot", Len(r) + 2, <<"ours">>)
      /\ \E k : IsGiven(f, "--extern", k, <<"force:", "monitors">>)
  BY FullGiven
<1>4. UnstableIn(f) <=> (Named(u, "unstable-options") => UnstableIn(u))
  BY FullSettings
<1>5. /\ ~Taken(u, w) => r = u
      /\ Taken(u, w) => IsFile(u, 1) /\ \A k : IsFile(r, k) => IsFile(u, 1 + k)
  BY RemainingFacts
<1> HIDE DEF f, r
<1>6. OneSysroot(u)
  BY AcceptedIs, Zenon
<1>7. Forces(f)
  <2>1. Head(<<"force:", "monitors">>) = "force:"
    OBVIOUS
  <2>2. QED
    BY <1>3, <2>1, Zenon DEF Forces
<1>8. Accepted(f) <=>
        /\ \E k \in 1..Len(f) : FilePlaces(f) = {k}
        /\ OneSysroot(f) /\ UnstableIn(f)
  BY <1>1, <1>7, AcceptedIs, Zenon
<1>9. ASSUME Taken(u, w) PROVE ~Accepted(f)
  <2>1. PICK n : IsFile(u, n) /\ \A j : IsFile(u, j) => j = n
    BY AcceptedIs, Zenon
  <2>2. ASSUME NEW k, IsFile(r, k) PROVE FALSE
    <3>1. k \in 1..Len(r) /\ IsFile(u, 1 + k) /\ IsFile(u, 1)
      BY <1>5, <1>9, <2>2 DEF IsFile
    <3>2. 1 + k = 1
      BY <2>1, <3>1
    <3>3. QED
      BY <3>1, <3>2
  <2>3. FilePlaces(f) = {}
    BY <1>1, <1>2, <2>2, FilesLocal
  <2>4. QED
    BY <1>8, <2>3
<1>10. ASSUME ~Taken(u, w), SysrootJoined(u) PROVE ~Accepted(f)
  <2>1. PICK k \in 1..Len(u) : Head(u[k]) = "--sysroot" /\ Len(u[k]) > 1
    BY <1>10 DEF SysrootJoined
  <2>2. IsGiven(u, "--sysroot", k, Tail(u[k]))
    BY <2>1, SysrootGiven
  <2>3. <<"--sysroot">> \notin ToSet(u)
    <3>1. SUFFICES ASSUME <<"--sysroot">> \in ToSet(u) PROVE FALSE
      OBVIOUS
    <3>2. PICK j \in 2..Len(u) : \E v : IsGiven(u, "--sysroot", j, v) /\ Head(u[j]) \notin OptionHeads
      BY <3>1, SysrootGiven
    <3>3. j = k
      BY <1>6, <2>2, <3>2, Zenon DEF OneSysroot
    <3>4. QED
      BY <2>1, <3>2, <3>3, OptionsWithValues
  <2>4. IsGiven(f, "--sysroot", k, Tail(u[k])) /\ IsGiven(f, "--sysroot", Len(r) + 2, <<"ours">>)
    BY <1>3, <1>5, <1>10, <2>2, <2>3
  <2>5. k # Len(r) + 2
    BY <1>1, <1>5, <1>10
  <2>6. QED
    BY <1>8, <2>4, <2>5, Zenon DEF OneSysroot
<1>11. ASSUME ~Taken(u, w), ~SysrootJoined(u)
       PROVE  Accepted(f) <=> (Named(u, "unstable-options") => UnstableIn(u))
  <2>1. r = u
    BY <1>5, <1>11
  <2>2. PICK n \in 1..Len(u) : FilePlaces(u) = {n}
    BY DEF Accepted
  <2>3. \E k \in 1..Len(f) : FilePlaces(f) = {k}
    <3>1. FilePlaces(f) = {n}
      BY <1>2, <2>1, <2>2
    <3>2. n \in 1..Len(f)
      BY <3>1 DEF FilePlaces
    <3>3. QED
      BY <3>1, <3>2
  <2>4. OneSysroot(f)
    <3>1. CASE <<"--sysroot">> \in ToSet(u)
      BY <1>3, <1>6, <2>1, <3>1, Zenon DEF OneSysroot
    <3>2. CASE <<"--sysroot">> \notin ToSet(u)
      <4>1. \A i, y : ~IsGiven(u, "--sysroot", i, y)
        BY <1>11, <3>2, SysrootGiven
      <4>2. QED
        BY <1>3, <2>1, <4>1 DEF OneSysroot
    <3>3. QED
      BY <3>1, <3>2
  <2>5. QED
    BY <1>4, <1>8, <2>3, <2>4, Zenon
<1>12. QED
  BY <1>9, <1>10, <1>11, Zenon DEF f

LEMMA FullReads ==
    ASSUME NEW u \in Lists, NEW w \in BOOLEAN, ~SysrootJoined(u), ~Taken(u, w)
    PROVE  /\ FilesIn(Full(u, w)) = FilesIn(u)
           /\ SysrootsIn(Full(u, w)) = IF SysrootsIn(u) = {} THEN {<<"ours">>} ELSE SysrootsIn(u)
<1> DEFINE f == Full(u, w)
<1>1. f \in Lists /\ Remaining(u, w) = u
  BY StagesAreLists, RemainingFacts
<1>2. FilesIn(f) = FilesIn(u)
  BY <1>1, FullFiles
<1>3. \A list \in Lists : \A v : v \in SysrootsIn(list) <=> \E k : IsGiven(list, "--sysroot", k, v)
  <2>1. ASSUME NEW list \in Lists, NEW v
        PROVE  v \in SysrootsIn(list) <=> \E k : IsGiven(list, "--sysroot", k, v)
    <3>1. \A g : g \in Given(list, "--sysroot") <=>
                   \E k, x : g = <<k, x>> /\ IsGiven(list, "--sysroot", k, x)
      BY GivenLocal, OptionsWithValues
    <3>2. ASSUME v \in SysrootsIn(list) PROVE \E k : IsGiven(list, "--sysroot", k, v)
      <4>1. PICK g \in Given(list, "--sysroot") : v = g[2]
        BY <3>2 DEF SysrootsIn
      <4>2. PICK k, x : g = <<k, x>> /\ IsGiven(list, "--sysroot", k, x)
        BY <3>1, Zenon
      <4>3. QED
        BY <4>1, <4>2
    <3>3. ASSUME NEW k, IsGiven(list, "--sysroot", k, v) PROVE v \in SysrootsIn(list)
      <4>1. <<k, v>> \in Given(list, "--sysroot") /\ (<<k, v>>)[2] = v
        BY <3>1, <3>3
      <4>2. QED
        BY <4>1 DEF SysrootsIn
    <3>4. QED
      BY <3>2, <3>3
  <2>2. QED
    BY <2>1
<1>4. /\ \A k, v : IsGiven(u, "--sysroot", k, v) => IsGiven(f, "--sysroot", k, v)
      /\ \A k, v : IsGiven(f, "--sysroot", k, v) =>
           \/ IsGiven(u, "--sysroot", k, v)
           \/ <<"--sysroot">> \notin ToSet(u) /\ k = Len(u) + 2 /\ v = <<"ours">>
      /\ <<"--sysroot">> \notin ToSet(u) => IsGiven(f, "--sysroot", Len(u) + 2, <<"ours">>)
  BY <1>1, FullGiven
<1>5. (\E k, v : IsGiven(u, "--sysroot", k, v)) <=> <<"--sysroot">> \in ToSet(u)
  BY SysrootGiven
<1> HIDE DEF f
<1>6. \A v : v \in SysrootsIn(u) <=> \E k : IsGiven(u, "--sysroot", k, v)
  BY <1>3
<1>7. \A v : v \in SysrootsIn(f) <=> \E k : IsGiven(f, "--sysroot", k, v)
  BY <1>1, <1>3
<1>8. CASE <<"--sysroot">> \in ToSet(u)
  <2>1. SysrootsIn(f) = SysrootsIn(u)
    BY <1>4, <1>6, <1>7, <1>8
  <2>2. SysrootsIn(u) # {}
    BY <1>5, <1>6, <1>8
  <2>3. QED
    BY <1>2, <2>1, <2>2 DEF f
<1>9. CASE <<"--sysroot">> \notin ToSet(u)
  <2>1. SysrootsIn(u) = {}
    BY <1>5, <1>6, <1>9
  <2>2. SysrootsIn(f) = {<<"ours">>}
    BY <1>4, <1>5, <1>7, <1>9
  <2>3. QED
    BY <1>2, <2>1, <2>2 DEF f
<1>10. QED
  BY <1>8, <1>9

-----------------------------------------------------------------------------
(* The blocks of main.                                                      *)

(* Block by block the arguments are those above; the session ends in Compile *)
(* as rustc decides.                                                        *)
Progress ==
    \/ step = "wrapper" /\ args = IF wrapped THEN <<<<"rustc">>>> \o user ELSE user
    \/ step = "sysroot" /\ args = Remaining(user, wrapped)
    \/ step = "monitor_lib" /\ args = WithSysroot(user, wrapped)
    \/ step = "fatal" /\ args \in {Remaining(user, wrapped), WithSysroot(user, wrapped)}
    \/ step = "always_encode" /\ args = WithLibrary(user, wrapped)
    \/ step = "level" /\ args = WithEncoding(user, wrapped)
    \/ step = "unstable" /\ args = WithLevel(user, wrapped)
    \/ step \in {"compile", "compiled", "rejected"} /\ args = Full(user, wrapped)
Decided ==
    Done => (step = "compiled" <=> Accepted(args) /\ libAt = "there")
IInv ==
    /\ user \in Written /\ wrapped \in BOOLEAN /\ warned \in BOOLEAN
    /\ Progress /\ Decided

LEMMA InitInv == Init => IInv
BY DEF Init, IInv, Progress, Decided, Done

LEMMA WrapperRemoved ==
    ASSUME IInv, RemoveWrapper
    PROVE  args' = Remaining(user, wrapped) /\ step' = "sysroot"
<1>1. /\ user \in Lists /\ step' = "sysroot"
      /\ args' = IF args # <<>> /\ Head(args[1]) = "rustc" THEN Tail(args) ELSE args
      /\ args = IF wrapped THEN <<<<"rustc">>>> \o user ELSE user
  BY WrittenAreLists DEF IInv, Progress, RemoveWrapper
<1>2. CASE wrapped
  <2>1. user \in Seq(Arguments)
    BY <1>1, ListFacts
  <2>2. LET list == <<<<"rustc">>>> \o user
        IN  list # <<>> /\ list[1] = <<"rustc">> /\ Tail(list) = user
    BY <2>1
  <2>3. Head(<<"rustc">>) = "rustc"
    OBVIOUS
  <2>4. args' = user
    BY <1>1, <1>2, <2>2, <2>3
  <2>5. Remaining(user, wrapped) = user
    BY <1>2 DEF Remaining, Taken
  <2>6. QED
    BY <1>1, <2>4, <2>5
<1>3. CASE ~wrapped
  BY <1>1, <1>3 DEF Remaining, Taken
<1>4. QED
  BY <1>2, <1>3

LEMMA NextInv == IInv /\ [Next]_vars => IInv'
<1> SUFFICES ASSUME IInv, [Next]_vars PROVE IInv'
  OBVIOUS
<1>1. /\ user \in Written /\ wrapped \in BOOLEAN /\ warned \in BOOLEAN /\ Progress /\ Decided
      /\ user \in Lists
  BY WrittenAreLists DEF IInv
<1>2. /\ <<"--sysroot">> \in ToSet(Remaining(user, wrapped)) <=> <<"--sysroot">> \in ToSet(user)
      /\ <<"always-encode-mir">> \in ToSet(WithLibrary(user, wrapped))
           <=> <<"always-encode-mir">> \in ToSet(user)
      /\ Named(WithEncoding(user, wrapped), "mir-opt-level") <=> Named(user, "mir-opt-level")
      /\ Named(WithLevel(user, wrapped), "unstable-options") <=> Named(user, "unstable-options")
  BY <1>1, StagesLook
<1>3. ASSUME user' = user, wrapped' = wrapped
      PROVE  /\ step' = "sysroot" /\ args' = Remaining(user, wrapped) => Progress' /\ Decided'
             /\ step' = "monitor_lib" /\ args' = WithSysroot(user, wrapped) => Progress' /\ Decided'
             /\ step' = "fatal" /\ args' \in {Remaining(user, wrapped), WithSysroot(user, wrapped)}
                  => Progress' /\ Decided'
             /\ step' = "always_encode" /\ args' = WithLibrary(user, wrapped) => Progress' /\ Decided'
             /\ step' = "level" /\ args' = WithEncoding(user, wrapped) => Progress' /\ Decided'
             /\ step' = "unstable" /\ args' = WithLevel(user, wrapped) => Progress' /\ Decided'
             /\ step' = "compile" /\ args' = Full(user, wrapped) => Progress' /\ Decided'
  BY <1>3 DEF Progress, Decided, Done
<1>4. CASE RemoveWrapper
  <2>1. args' = Remaining(user, wrapped) /\ step' = "sysroot"
    BY <1>4, WrapperRemoved
  <2>2. UNCHANGED <<environment, warned>>
    BY <1>4 DEF RemoveWrapper
  <2>3. QED
    BY <1>1, <1>3, <2>1, <2>2 DEF IInv, environment
<1>5. CASE PushSysroot
  <2>1. step = "sysroot" /\ args = Remaining(user, wrapped)
    BY <1>1, <1>5 DEF PushSysroot, Progress
  <2>2. CASE EarlyFatal
    BY <1>1, <1>3, <2>1, <2>2 DEF EarlyFatal, IInv, environment
  <2>3. CASE ~EarlyFatal
    <3>1. Mentions(<<"--sysroot">>) <=> <<"--sysroot">> \in ToSet(user)
      BY <1>2, <2>1 DEF Mentions
    <3>2. Goto("monitor_lib", OurSysroot(user))
      BY <1>5, <2>3, <3>1 DEF PushSysroot, OurSysroot, Pair
    <3>3. step' = "monitor_lib" /\ args' = WithSysroot(user, wrapped)
      BY <2>1, <3>2 DEF Goto, WithSysroot
    <3>4. UNCHANGED <<environment, warned>>
      BY <3>2 DEF Goto
    <3>5. QED
      BY <1>1, <1>3, <3>3, <3>4 DEF IInv, environment
  <2>4. QED
    BY <2>2, <2>3
<1>6. CASE PushMonitorLib
  <2>1. step = "monitor_lib" /\ args = WithSysroot(user, wrapped)
    BY <1>1, <1>6 DEF PushMonitorLib, Progress
  <2>2. CASE EarlyFatal
    BY <1>1, <1>3, <2>1, <2>2 DEF EarlyFatal, IInv, environment
  <2>3. CASE ~EarlyFatal
    <3>1. Goto("always_encode", Library)
      BY <1>6, <2>3, LibraryIs, Zenon DEF PushMonitorLib
    <3>2. step' = "always_encode" /\ args' = WithLibrary(user, wrapped)
      BY <2>1, <3>1 DEF Goto, WithLibrary
    <3>3. UNCHANGED <<environment, warned>>
      BY <3>1 DEF Goto
    <3>4. QED
      BY <1>1, <1>3, <3>2, <3>3 DEF IInv, environment
  <2>4. QED
    BY <2>2, <2>3
<1>7. CASE PushAlwaysEncode
  <2>1. step = "always_encode" /\ args = WithLibrary(user, wrapped)
    BY <1>1, <1>7 DEF PushAlwaysEncode, Progress
  <2>2. Mentions(<<"always-encode-mir">>) <=> <<"always-encode-mir">> \in ToSet(user)
    BY <1>2, <2>1 DEF Mentions
  <2>3. Goto("level", OurEncoding(user))
    BY <1>7, <2>2 DEF PushAlwaysEncode, OurEncoding, OurSetting, Pair
  <2>4. step' = "level" /\ args' = WithEncoding(user, wrapped)
    BY <2>1, <2>3 DEF Goto, WithEncoding
  <2>5. UNCHANGED <<environment, warned>>
    BY <2>3 DEF Goto
  <2>6. QED
    BY <1>1, <1>3, <2>4, <2>5 DEF IInv, environment
<1>8. CASE PushLevel
  <2>1. step = "level" /\ args = WithEncoding(user, wrapped)
    BY <1>1, <1>8 DEF PushLevel, Progress
  <2>2. MentionsPrefix("mir-opt-level") <=> Named(user, "mir-opt-level")
    BY <1>2, <2>1 DEF MentionsPrefix, Named
  <2>3. Goto("unstable", OurLevel(user))
    BY <1>8, <2>2 DEF PushLevel, OurLevel, OurSetting, Pair
  <2>4. step' = "unstable" /\ args' = WithLevel(user, wrapped)
    BY <2>1, <2>3 DEF Goto, WithLevel
  <2>5. UNCHANGED <<environment, warned>>
    BY <2>3 DEF Goto
  <2>6. QED
    BY <1>1, <1>3, <2>4, <2>5 DEF IInv, environment
<1>9. CASE PushUnstable
  <2>1. step = "unstable" /\ args = WithLevel(user, wrapped)
    BY <1>1, <1>9 DEF PushUnstable, Progress
  <2>2. MentionsPrefix("unstable-options") <=> Named(user, "unstable-options")
    BY <1>2, <2>1 DEF MentionsPrefix, Named
  <2>3. Goto("compile", OurUnstable(user))
    BY <1>9, <2>2 DEF PushUnstable, OurUnstable, OurSetting, Pair
  <2>4. step' = "compile" /\ args' = Full(user, wrapped)
    BY <2>1, <2>3 DEF Goto, Full
  <2>5. UNCHANGED <<environment, warned>>
    BY <2>3 DEF Goto
  <2>6. QED
    BY <1>1, <1>3, <2>4, <2>5 DEF IInv, environment
<1>10. CASE Compile
  <2>1. step = "compile" /\ args = Full(user, wrapped)
    BY <1>1, <1>10 DEF Compile, Progress
  <2>2. /\ step' = IF Accepted(args) /\ libAt = "there" THEN "compiled" ELSE "rejected"
        /\ warned' \in BOOLEAN /\ UNCHANGED <<environment, args>>
    BY <1>10 DEF Compile
  <2>3. Progress'
    BY <2>1, <2>2 DEF Progress, environment
  <2>4. Accepted(args)' <=> Accepted(args)
    BY <2>2
  <2>5. Decided'
    BY <2>2, <2>4 DEF Decided, Done, environment
  <2>6. QED
    BY <1>1, <2>2, <2>3, <2>5 DEF IInv, environment
<1>11. CASE UNCHANGED vars
  <2>1. UNCHANGED <<user, wrapped, libAt, args, step, warned>>
    BY <1>11 DEF vars
  <2>2. Accepted(args)' <=> Accepted(args)
    BY <2>1
  <2>3. QED
    BY <1>1, <2>1, <2>2 DEF IInv, Progress, Decided, Done
<1>12. QED
  BY <1>4, <1>5, <1>6, <1>7, <1>8, <1>9, <1>10, <1>11 DEF Next, Over

LEMMA Inductive == Spec => []IInv
BY InitInv, NextInv, PTL DEF Spec

-----------------------------------------------------------------------------

LEMMA StepTyped ==
    Progress => step \in ToSet(Steps) \cup {"fatal", "rejected"}
<1>1. /\ DOMAIN Steps = 1..8
      /\ Steps[1] = "wrapper" /\ Steps[2] = "sysroot" /\ Steps[3] = "monitor_lib"
      /\ Steps[4] = "always_encode" /\ Steps[5] = "level" /\ Steps[6] = "unstable"
      /\ Steps[7] = "compile" /\ Steps[8] = "compiled"
  BY DEF Steps
<1>2. ToSet(Steps) = {Steps[k] : k \in DOMAIN Steps}
  BY Zenon DEF ToSet
<1>3. \A k \in 1..8 : Steps[k] \in ToSet(Steps)
  BY <1>1, <1>2, Zenon
<1>4. {"wrapper", "sysroot", "monitor_lib", "always_encode", "level", "unstable", "compile",
       "compiled"} \subseteq ToSet(Steps)
  BY <1>1, <1>3
<1>5. QED
  BY <1>4 DEF Progress

LEMMA ArgumentsTyped ==
    IInv => (step # "wrapper" => Len(args) <= Len(user) + 14) /\ \A k \in 1..Len(args) : args[k] # <<>>
<1> SUFFICES ASSUME IInv
             PROVE  /\ step # "wrapper" => Len(args) <= Len(user) + 14
                    /\ \A k \in 1..Len(args) : args[k] # <<>>
  OBVIOUS
<1>1. user \in Lists /\ wrapped \in BOOLEAN /\ Progress
  BY WrittenAreLists DEF IInv
<1>2. step # "wrapper" => Len(args) <= Len(user) + 14
  BY <1>1, FullLength DEF Progress
<1>3. args \in Lists
  <2>1. <<<<"rustc">>>> \o user \in Lists
    <3>1. "rustc" \in Pieces
      BY DEF Pieces
    <3>2. <<"rustc">> \in Arguments /\ Head(<<"rustc">>) = "rustc"
      BY <3>1 DEF Arguments
    <3>3. <<<<"rustc">>>> \in Lists
      BY <3>2, OneArgument, OptionsWithValues
    <3>4. QED
      BY <1>1, <3>3, ListsClosed, Zenon
  <2>2. QED
    BY <1>1, <2>1, StagesAreLists DEF Progress
<1>4. \A k \in 1..Len(args) : args[k] # <<>>
  BY <1>3, ListFacts DEF Arguments
<1>5. QED
  BY <1>2, <1>4

(* main hands a list of non-empty arguments over, at most fourteen longer   *)
(* than what the user wrote, however long that is.                          *)
THEOREM TypeCorrect == Spec => []TypeOK
<1>1. IInv => TypeOK
  BY StepTyped, ArgumentsTyped, Zenon DEF IInv, TypeOK
<1>2. QED
  BY Inductive, <1>1, PTL

LEMMA EndsFull ==
    ASSUME IInv, Done
    PROVE  /\ user \in Lists /\ wrapped \in BOOLEAN /\ args = Full(user, wrapped)
           /\ step = "compiled" <=> Accepted(args) /\ libAt = "there"
BY WrittenAreLists DEF IInv, Progress, Decided, Done

LEMMA UsersWords ==
    /\ JoinedSysroot <=> SysrootJoined(user)
    /\ TakenForWrapper <=> Taken(user, wrapped)
    /\ \A piece : Begins(piece) <=> Named(user, piece)
BY Zenon DEF JoinedSysroot, SysrootJoined, TakenForWrapper, Taken, Begins, Named

(* A command line of any length rustc would have compiled it still          *)
(* compiles, the same file against the same sysroot, but for the exceptions *)
(* StaysAccepted names, each of which makes rustc reject it.                *)
THEOREM KeepsAccepting == Spec => []StaysAccepted
<1>1. ASSUME IInv, Done, Accepted(user)
      PROVE  /\ step = "compiled" <=>
                  /\ libAt = "there" /\ ~JoinedSysroot /\ ~TakenForWrapper
                  /\ Begins("unstable-options") => UnstableIn(user)
             /\ step = "compiled" =>
                  /\ FilesIn(args) = FilesIn(user)
                  /\ SysrootsIn(args) = IF SysrootsIn(user) = {} THEN {<<"ours">>}
                                                                 ELSE SysrootsIn(user)
  <2>1. /\ user \in Lists /\ wrapped \in BOOLEAN /\ args = Full(user, wrapped)
        /\ step = "compiled" <=> Accepted(args) /\ libAt = "there"
    BY <1>1, EndsFull
  <2>2. Accepted(args) <=>
          /\ ~JoinedSysroot /\ ~TakenForWrapper
          /\ Begins("unstable-options") => UnstableIn(user)
    BY <1>1, <2>1, FullAccepted, UsersWords
  <2>3. ASSUME ~JoinedSysroot, ~TakenForWrapper
        PROVE  /\ FilesIn(args) = FilesIn(user)
               /\ SysrootsIn(args) = IF SysrootsIn(user) = {} THEN {<<"ours">>}
                                                              ELSE SysrootsIn(user)
    BY <2>1, <2>3, FullReads, UsersWords
  <2>4. QED
    BY <2>1, <2>2, <2>3
<1>2. IInv => StaysAccepted
  BY <1>1 DEF StaysAccepted
<1>3. QED
  BY Inductive, <1>2, PTL

LEMMA LevelAsked ==
    ASSUME NEW u \in Lists, NEW k \in 1..Len(u), Head(u[k]) = "mir-opt-level",
           <<k, u[k]>> \in Given(u, "-Z")
    PROVE  LevelIn(u) # NotGiven
<1>1. IsGiven(u, "-Z", k, u[k])
  <2>1. "-Z" \in OptionHeads
    BY OptionsWithValues
  <2>2. PICK j, v : <<k, u[k]>> = <<j, v>> /\ IsGiven(u, "-Z", j, v)
    BY <2>1, GivenLocal
  <2>3. QED
    BY <2>2
<1>2. SetIn(u, LevelNames)
  BY <1>1 DEF SetIn, Sets, LevelNames
<1>3. PICK j, v : IsLast(u, LevelNames, j, v)
  BY <1>2, LastExists
<1>4. v \in Arguments /\ LevelIsNumber(v) /\ Head(v) \in LevelNames
  BY <1>3, SetFacts DEF IsLast
<1>5. ValueOf(v) \in Nat
  <2>1. Len(v) = 1 \/ Len(v) > 1
    <3>1. Len(v) \in Nat \ {0}
      BY <1>4, ArgumentFacts, Zenon
    <3>2. \A n \in Nat \ {0} : n = 1 \/ n > 1
      OBVIOUS
    <3>3. QED
      BY <3>1, <3>2, Zenon
  <2>2. QED
    BY <1>4, <2>1 DEF ValueOf, LevelIsNumber
<1>6. LevelIn(u) = ValueOf(v)
  BY <1>3, SettingIs, Zenon DEF LevelIn
<1>7. QED
  BY <1>5, <1>6 DEF NotGiven

(* The MIR inliner runs only at the very level the user asked for, on a     *)
(* command line of any length on which nothing else begins like that        *)
(* option: otherwise main pushes level 1, which is then the last one.       *)
THEOREM LevelKept == Spec => []LevelOnlyOnRequest
<1>1. ASSUME IInv, step = "compiled", ~Mistaken("mir-opt-level")
      PROVE  EffectiveLevel(args) <= 1 \/ EffectiveLevel(args) = LevelIn(user)
  <2>1. user \in Lists /\ wrapped \in BOOLEAN /\ args = Full(user, wrapped)
    BY <1>1, EndsFull DEF Done
  <2>2. /\ Named(user, "mir-opt-level") => LevelIn(args) = LevelIn(user)
        /\ ~Named(user, "mir-opt-level") => LevelIn(args) = 1
    BY <2>1, FullSettings
  <2>3. CASE Named(user, "mir-opt-level")
    <3>1. PICK k \in 1..Len(user) : Head(user[k]) = "mir-opt-level"
      BY <2>3 DEF Named
    <3>2. <<k, user[k]>> \in Given(user, "-Z")
      BY <1>1, <3>1, Zenon DEF Mistaken
    <3>3. LevelIn(user) # NotGiven
      BY <2>1, <3>1, <3>2, LevelAsked
    <3>4. QED
      BY <2>2, <2>3, <3>3 DEF EffectiveLevel
  <2>4. CASE ~Named(user, "mir-opt-level")
    BY <2>2, <2>4 DEF EffectiveLevel, NotGiven
  <2>5. QED
    BY <2>3, <2>4
<1>2. IInv => LevelOnlyOnRequest
  BY <1>1 DEF LevelOnlyOnRequest
<1>3. QED
  BY Inductive, <1>2, PTL

(* Every crate main compiles encodes the MIR of all its functions, however  *)
(* long the command line, unless the user both wrote the option's name and  *)
(* left it switched off.                                                    *)
THEOREM MirAlwaysEncoded == Spec => []MirEncoded
<1>1. ASSUME IInv, step = "compiled"
      PROVE  EncodesIn(args) \/ (<<"always-encode-mir">> \in ToSet(user) /\ ~EncodesIn(user))
  <2>1. user \in Lists /\ wrapped \in BOOLEAN /\ args = Full(user, wrapped)
    BY <1>1, EndsFull DEF Done
  <2>2. EncodesIn(args) <=> (<<"always-encode-mir">> \in ToSet(user) => EncodesIn(user))
    BY <2>1, FullSettings
  <2>3. QED
    BY <2>2
<1>2. IInv => MirEncoded
  BY <1>1 DEF MirEncoded
<1>3. QED
  BY Inductive, <1>2, PTL

=============================================================================
