------------------------- MODULE InputFilterProofs -------------------------
(* Theorems about InputFilter, for any crates and any value of the variable. *)
EXTENDS InputFilter, SequenceTheorems, TLAPS

(* What the variable is written with.                                       *)
Texts == Crates \cup {" ", "[", "]"}

(* One element is all of a concatenation only if the rest of it is empty.   *)
LEMMA Alone ==
    \A pre, mid, post \in Seq(Texts), x \in Texts :
        mid # <<>> =>
          (pre \o mid \o post = <<x>> <=> pre = <<>> /\ post = <<>> /\ mid = <<x>>)
<1> SUFFICES ASSUME NEW pre \in Seq(Texts), NEW mid \in Seq(Texts), NEW post \in Seq(Texts),
                    NEW x \in Texts, mid # <<>>
             PROVE  pre \o mid \o post = <<x>> <=> pre = <<>> /\ post = <<>> /\ mid = <<x>>
  BY Zenon
<1>1. Len(pre \o mid \o post) = Len(pre) + Len(mid) + Len(post)
  BY ConcatProperties
<1>2. Len(mid) # 0 /\ Len(pre) \in Nat /\ Len(mid) \in Nat /\ Len(post) \in Nat
  BY EmptySeq, LenProperties
<1>3. Len(<<x>>) = 1
  OBVIOUS
<1>4. ASSUME pre \o mid \o post = <<x>> PROVE pre = <<>> /\ post = <<>>
  <2>1. Len(pre) = 0 /\ Len(post) = 0
    BY <1>1, <1>2, <1>3, <1>4
  <2> QED BY <2>1, EmptySeq
<1>5. ASSUME pre = <<>>, post = <<>> PROVE pre \o mid \o post = mid
  <2>1. pre \o mid = mid
    BY <1>5, ConcatEmptySeq
  <2>2. mid \o post = mid
    BY <1>5, ConcatEmptySeq
  <2> QED BY <2>1, <2>2
<1> QED BY <1>4, <1>5, Zenon

LEMMA ShortSequences ==
    ASSUME NEW x \in Texts, NEW y \in Texts
    PROVE  /\ <<>> \in Seq(Texts)
           /\ <<x>> \in Seq(Texts) /\ <<x>> # <<>>
           /\ <<x, y>> \in Seq(Texts) /\ <<x, y>> # <<>>
OBVIOUS

(* A piece is a bare name only if there was no bracket on it.               *)
LEMMA BarePiece ==
    ASSUME NEW entry \in Entries, NEW c \in Crates,
           NEW first \in BOOLEAN, NEW last \in BOOLEAN
    PROVE  (IF first THEN <<"[">> ELSE <<>>) \o entry \o (IF last THEN <<"]">> ELSE <<>>) = <<c>>
             <=> entry = <<c>> /\ ~first /\ ~last
<1>2. PICK pre : pre = IF first THEN <<"[">> ELSE <<>>
  BY Zenon
<1>3. PICK post : post = IF last THEN <<"]">> ELSE <<>>
  BY Zenon
<1>4. c \in Texts /\ Crates \subseteq Texts /\ " " \in Texts /\ "[" \in Texts /\ "]" \in Texts
  BY Zenon DEF Texts
<1>5. entry \in Seq(Texts) /\ entry # <<>>
  <2>1. PICK d \in Crates : entry = <<d>> \/ entry = <<" ", d>>
    BY Zenon DEF Entries
  <2>2. d \in Texts
    BY <1>4, Zenon
  <2>3. CASE entry = <<d>>
    BY <1>4, <2>2, <2>3, ShortSequences, Zenon
  <2>4. CASE entry = <<" ", d>>
    BY <1>4, <2>2, <2>4, ShortSequences, Zenon
  <2> QED BY <2>1, <2>3, <2>4, Zenon
<1>6. pre \in Seq(Texts) /\ (pre = <<>> <=> ~first)
  BY <1>2, <1>4, ShortSequences, Zenon
<1>7. post \in Seq(Texts) /\ (post = <<>> <=> ~last)
  BY <1>3, <1>4, ShortSequences, Zenon
<1>8. pre \o entry \o post = <<c>> <=> pre = <<>> /\ post = <<>> /\ entry = <<c>>
  <2>1. /\ pre \in Seq(Texts) /\ entry \in Seq(Texts) /\ post \in Seq(Texts)
        /\ c \in Texts /\ entry # <<>>
    BY <1>4, <1>5, <1>6, <1>7, Zenon
  <2> QED BY <2>1, Alone
<1> QED BY <1>2, <1>3, <1>6, <1>7, <1>8, Zenon

(* Where a bare name can come from: an entry in the middle of the list.     *)
LEMMA BareNames ==
    ASSUME NEW entries \in Seq(Entries), NEW c \in Crates
    PROVE  <<c>> \in Pieces(entries) <=>
             \E k \in 1..Len(entries) : entries[k] = <<c>> /\ k \notin {1, Len(entries)}
<1> DEFINE Piece(k) == (IF k = 1 THEN <<"[">> ELSE <<>>) \o entries[k] \o
                       (IF k = Len(entries) THEN <<"]">> ELSE <<>>)
<1>1. ASSUME NEW k \in 1..Len(entries)
      PROVE  Piece(k) = <<c>> <=> entries[k] = <<c>> /\ k \notin {1, Len(entries)}
  <2>1. entries[k] \in Entries /\ (k = 1) \in BOOLEAN /\ (k = Len(entries)) \in BOOLEAN
    OBVIOUS
  <2> QED BY <2>1, BarePiece, Zenon
<1> HIDE DEF Piece
<1>2. Pieces(entries) = {Piece(k) : k \in 1..Len(entries)}
  BY DEF Pieces, Piece
<1> QED BY <1>1, <1>2

(* FILTER is built from the variable; every decision was made by it.        *)
Decided(c) == \/ FilterOf(value)[1] = "All"
              \/ FilterOf(value)[1] = "WhiteList" /\ <<c>> \in FilterOf(value)[2]
              \/ FilterOf(value)[1] = "Regexp" /\ c \in FilterOf(value)[2]
DecidedByFilter ==
    /\ value \in Values
    /\ FILTER \in {<<"lazy">>, FilterOf(value)}
    /\ current \in Crates \cup {"none"}
    /\ admitted \subseteq Crates /\ rejected \subseteq Crates
    /\ \A c \in admitted : Decided(c)
    /\ \A c \in rejected : ~Decided(c)

(* What FilterOf lets through, in terms of what was asked for.              *)
LEMMA DecidedMeans ==
    ASSUME value \in Values, NEW c \in Crates
    PROVE  /\ Decided(c) => AskedFor(c)
           /\ ~Decided(c) /\ AskedFor(c) =>
                /\ value.form = "list"
                /\ \A k \in 1..Len(value.entries) :
                     value.entries[k] = <<c>> => k \in {1, Len(value.entries)}
<1>1. value \in ValueForms
  BY FilterAssumption
<1>2. CASE value \in [form : {"unset", "invalid"}]
  BY <1>2 DEF Decided, AskedFor, FilterOf
<1>3. CASE value \in [form : {"regex"}, matches : SUBSET Crates]
  BY <1>3 DEF Decided, AskedFor, FilterOf
<1>4. CASE value \in [form : {"list"}, entries : Seq(Entries)]
  <2>1. value.form = "list" /\ value.entries \in Seq(Entries)
    BY <1>4
  <2>2. Decided(c) <=> <<c>> \in Pieces(value.entries)
    BY <2>1 DEF Decided, FilterOf
  <2>3. Decided(c) <=> \E k \in 1..Len(value.entries) :
                         value.entries[k] = <<c>> /\ k \notin {1, Len(value.entries)}
    BY <2>1, <2>2, BareNames, Zenon
  <2>4. Decided(c) => Listed(c)
    <3> SUFFICES ASSUME Decided(c) PROVE Listed(c)
      OBVIOUS
    <3>1. PICK k \in 1..Len(value.entries) : value.entries[k] = <<c>>
      BY <2>3
    <3>2. Len(<<c>>) = 1 /\ <<c>>[1] = c
      OBVIOUS
    <3>3. value.entries[k][Len(value.entries[k])] = c
      BY <3>1, <3>2
    <3> QED BY <3>3 DEF Listed
  <2>5. AskedFor(c) <=> Listed(c)
    BY <2>1 DEF AskedFor
  <2>6. ~Decided(c) => \A k \in 1..Len(value.entries) :
                         value.entries[k] = <<c>> => k \in {1, Len(value.entries)}
    BY <2>3
  <2> QED BY <2>1, <2>4, <2>5, <2>6
<1> QED BY <1>1, <1>2, <1>3, <1>4 DEF ValueForms

LEMMA Decisions == Spec => []DecidedByFilter
<1>1. Init => DecidedByFilter
  BY DEF Init, DecidedByFilter
<1>2. DecidedByFilter /\ [Next]_vars => DecidedByFilter'
  <2> SUFFICES ASSUME DecidedByFilter, [Next]_vars PROVE DecidedByFilter'
    OBVIOUS
  <2> USE DEF DecidedByFilter, Decided
  <2>1. ASSUME NEW c \in Crates, StartSession(c) PROVE DecidedByFilter'
    BY <2>1 DEF StartSession
  <2>2. CASE Build
    BY <2>2 DEF Build
  <2>3. CASE ShouldProcess
    <3>1. FILTER = FilterOf(value)
      BY <2>3 DEF ShouldProcess
    <3>2. current \in Crates /\ (Passes(current) <=> Decided(current))
      BY <2>3, <3>1 DEF ShouldProcess, Passes
    <3> QED BY <2>3, <3>2 DEF ShouldProcess
  <2>4. CASE UNCHANGED vars
    BY <2>4 DEF vars
  <2> QED BY <2>1, <2>2, <2>3, <2>4 DEF Next, BuildOver
<1> QED BY <1>1, <1>2, PTL DEF Spec

(* No crate is let through that was not asked for.                          *)
THEOREM NothingElse == Spec => []NothingElseAdmitted
<1>1. DecidedByFilter => NothingElseAdmitted
  BY DecidedMeans, Zenon DEF DecidedByFilter, NothingElseAdmitted
<1> QED BY <1>1, Decisions, PTL

(* Only the ends of a list and its padded entries are lost.                 *)
THEOREM OnlyListsLose == Spec => []RejectedByListOnly
<1>1. DecidedByFilter => RejectedByListOnly
  BY DecidedMeans DEF DecidedByFilter, RejectedByListOnly
<1> QED BY <1>1, Decisions, PTL
=============================================================================
