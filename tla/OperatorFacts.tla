--------------------------- MODULE OperatorFacts ---------------------------
(* Facts about the operators the models are built from, of no component in  *)
(* particular.  First, what Picked and FlattenSeq do with a sequence that   *)
(* grows at its end: both are recursive functions, and what they compute is *)
(* proved by looking at the least number at which it would not hold.  Then, *)
(* what an edit does to a body of Mir: what stays of the user's program,    *)
(* and what runs in between.                                                *)
EXTENDS Mir, Selection, FiniteSetTheorems, SequenceTheorems, TLAPS, WellFoundedInduction

-----------------------------------------------------------------------------
(* Least numbers.                                                           *)

Less == {pair \in Nat \X Nat : pair[1] < pair[2]}

LEMMA LessWellFounded == IsWellFoundedOn(Less, Nat)
<1>1. OpToRel(<, Nat) = Less
  BY Zenon DEF OpToRel, Less
<1>2. QED
  BY <1>1, NatLessThanWellFounded, Zenon

LEMMA LeastNumber ==
    ASSUME NEW T, T \subseteq Nat, T # {}
    PROVE  \E m \in T : \A k \in T : m <= k
<1>1. PICK m \in T : \A k \in T : <<k, m>> \notin Less
  BY WFMin, LessWellFounded, Zenon
<1>2. ASSUME NEW k \in T PROVE m <= k
  <2>1. m \in Nat /\ k \in Nat
    OBVIOUS
  <2>2. <<k, m>> \in Nat \X Nat /\ <<k, m>>[1] = k /\ <<k, m>>[2] = m
    BY <2>1
  <2>3. ~(k < m)
    BY <1>1, <2>2 DEF Less
  <2>4. QED
    BY <2>1, <2>3
<1>3. QED
  BY <1>2

(* Induction, for a property given as the set of numbers that have it.      *)
LEMMA SetInduction ==
    ASSUME NEW N \in Nat, NEW T, 0 \in T, \A n \in 1..N : n - 1 \in T => n \in T
    PROVE  0..N \subseteq T
<1> DEFINE bad == {n \in 0..N : n \notin T}
<1>1. SUFFICES ASSUME bad # {} PROVE FALSE
  OBVIOUS
<1>2. bad \subseteq Nat
  OBVIOUS
<1>3. PICK m \in bad : \A k \in bad : m <= k
  BY <1>1, <1>2, LeastNumber, Zenon
<1>4. m \in 1..N
  BY <1>3
<1>5. m - 1 \notin bad
  BY <1>3, <1>4
<1>6. m - 1 \in T
  BY <1>4, <1>5
<1>7. QED
  BY <1>3, <1>4, <1>6

-----------------------------------------------------------------------------
(* Picked.                                                                  *)

PickedStep(seq, places, f, n) ==
    IF n = 0 THEN <<>>
    ELSE IF n \in places THEN Append(f[n - 1], seq[n])
    ELSE f[n - 1]

LEMMA PickedExists ==
    ASSUME NEW seq, NEW places, NEW N \in Nat
    PROVE  \E f : f = [n \in 0..N |-> PickedStep(seq, places, f, n)]
<1> DEFINE Good == {k \in 0..N : \E f : f = [n \in 0..k |-> PickedStep(seq, places, f, n)]}
<1>1. 0 \in Good
  <2>1. [n \in 0..0 |-> <<>>] = [n \in 0..0 |-> PickedStep(seq, places, [i \in 0..0 |-> <<>>], n)]
    BY DEF PickedStep
  <2>2. QED
    BY <2>1
<1>2. ASSUME NEW k \in 1..N, k - 1 \in Good PROVE k \in Good
  <2>1. PICK f : f = [n \in 0..k - 1 |-> PickedStep(seq, places, f, n)]
    BY <1>2
  <2> DEFINE g == [n \in 0..k |-> IF n = k THEN PickedStep(seq, places, f, k) ELSE f[n]]
  <2>2. ASSUME NEW n \in 0..k PROVE g[n] = PickedStep(seq, places, g, n)
    <3>1. CASE n = k
      <4>1. g[k - 1] = f[k - 1] /\ g[k] = PickedStep(seq, places, f, k)
        OBVIOUS
      <4>2. QED
        BY <3>1, <4>1 DEF PickedStep
    <3>2. CASE n # k
      <4>1. n \in 0..k - 1 /\ g[n] = f[n]
        BY <3>2
      <4>2. f[n] = PickedStep(seq, places, f, n)
        BY <2>1, <4>1
      <4>3. n # 0 => g[n - 1] = f[n - 1]
        BY <4>1
      <4>4. QED
        BY <4>1, <4>2, <4>3 DEF PickedStep
    <3>3. QED
      BY <3>1, <3>2
  <2>3. g = [n \in 0..k |-> PickedStep(seq, places, g, n)]
    BY <2>2
  <2>4. \E h : h = [n \in 0..k |-> PickedStep(seq, places, h, n)]
    BY <2>3, Zenon
  <2>5. QED
    BY <2>4
<1> HIDE DEF Good
<1>3. 0..N \subseteq Good
  BY <1>1, <1>2, SetInduction
<1>4. N \in Good
  BY <1>3
<1>5. QED
  BY <1>4 DEF Good

(* The recursive function behind Picked, as equations.                      *)
LEMMA PickedEquations ==
    ASSUME NEW R, NEW seq \in Seq(R), NEW places
    PROVE  \E f : /\ f[0] = <<>>
                  /\ \A n \in 1..Len(seq) :
                       f[n] = IF n \in places THEN Append(f[n - 1], seq[n]) ELSE f[n - 1]
                  /\ Picked(seq, places) = f[Len(seq)]
<1> DEFINE F == CHOOSE f : f = [n \in 0..Len(seq) |->
                    IF n = 0 THEN <<>>
                    ELSE IF n \in places THEN Append(f[n - 1], seq[n]) ELSE f[n - 1]]
<1>1. Len(seq) \in Nat
  OBVIOUS
<1>2. \E f : f = [n \in 0..Len(seq) |->
                    IF n = 0 THEN <<>>
                    ELSE IF n \in places THEN Append(f[n - 1], seq[n]) ELSE f[n - 1]]
  <2>1. \E f : f = [n \in 0..Len(seq) |-> PickedStep(seq, places, f, n)]
    BY <1>1, PickedExists, Zenon
  <2>2. QED
    BY <2>1, Zenon DEF PickedStep
<1>3. F = [n \in 0..Len(seq) |->
                    IF n = 0 THEN <<>>
                    ELSE IF n \in places THEN Append(F[n - 1], seq[n]) ELSE F[n - 1]]
  BY <1>2, Zenon
<1>4. Picked(seq, places) = F[Len(seq)]
  BY DEF Picked
<1> HIDE DEF F
<1>5. F[0] = <<>>
  BY <1>1, <1>3
<1>6. ASSUME NEW n \in 1..Len(seq)
      PROVE  F[n] = IF n \in places THEN Append(F[n - 1], seq[n]) ELSE F[n - 1]
  <2>1. n \in 0..Len(seq) /\ n # 0
    BY <1>1
  <2>2. QED
    BY <1>3, <2>1, Zenon
<1>7. QED
  BY <1>4, <1>5, <1>6

LEMMA PickedType ==
    ASSUME NEW R, NEW seq \in Seq(R), NEW places
    PROVE  Picked(seq, places) \in Seq(R)
<1>1. PICK f : /\ f[0] = <<>>
               /\ \A n \in 1..Len(seq) :
                    f[n] = IF n \in places THEN Append(f[n - 1], seq[n]) ELSE f[n - 1]
               /\ Picked(seq, places) = f[Len(seq)]
  BY PickedEquations
<1> DEFINE Good == {n \in 0..Len(seq) : f[n] \in Seq(R)}
<1>0. Len(seq) \in Nat
  OBVIOUS
<1>2. 0 \in Good
  <2>1. <<>> \in Seq(R)
    OBVIOUS
  <2>2. f[0] \in Seq(R)
    BY <1>1, <2>1
  <2>3. QED
    BY <1>0, <2>2
<1>3. ASSUME NEW n \in 1..Len(seq), n - 1 \in Good PROVE n \in Good
  <2>1. f[n - 1] \in Seq(R) /\ seq[n] \in R
    BY <1>3
  <2> DEFINE before == f[n - 1]
  <2>2. Append(before, seq[n]) \in Seq(R) /\ before \in Seq(R)
    BY <2>1
  <2>3. f[n] = IF n \in places THEN Append(before, seq[n]) ELSE before
    BY <1>1
  <2> HIDE DEF before
  <2>4. f[n] \in Seq(R)
    BY <2>2, <2>3
  <2>5. QED
    BY <2>4
<1> HIDE DEF Good
<1>4. 0..Len(seq) \subseteq Good
  BY <1>0, <1>2, <1>3, SetInduction, Zenon
<1>5. QED
  BY <1>1, <1>4 DEF Good

(* Places beyond the end do not count.                                      *)
LEMMA PickedSame ==
    ASSUME NEW R, NEW s \in Seq(R), NEW t \in Seq(R), NEW p, NEW q,
           Len(s) <= Len(t),
           \A n \in 1..Len(s) : s[n] = t[n] /\ (n \in p <=> n \in q),
           \A n \in Len(s) + 1..Len(t) : n \notin q
    PROVE  Picked(s, p) = Picked(t, q)
<1>1. PICK f : /\ f[0] = <<>>
               /\ \A n \in 1..Len(s) :
                    f[n] = IF n \in p THEN Append(f[n - 1], s[n]) ELSE f[n - 1]
               /\ Picked(s, p) = f[Len(s)]
  BY PickedEquations
<1>2. PICK g : /\ g[0] = <<>>
               /\ \A n \in 1..Len(t) :
                    g[n] = IF n \in q THEN Append(g[n - 1], t[n]) ELSE g[n - 1]
               /\ Picked(t, q) = g[Len(t)]
  BY PickedEquations
<1> DEFINE Good == {n \in 0..Len(t) : g[n] = f[IF n <= Len(s) THEN n ELSE Len(s)]}
<1>3. 0 \in Good
  BY <1>1, <1>2
<1>4. ASSUME NEW n \in 1..Len(t), n - 1 \in Good PROVE n \in Good
  <2>1. CASE n <= Len(s)
    <3>1. n \in 1..Len(s) /\ g[n - 1] = f[n - 1]
      BY <1>4, <2>1
    <3>2. QED
      BY <1>1, <1>2, <3>1
  <2>2. CASE n > Len(s)
    <3>1. n \in Len(s) + 1..Len(t) /\ n \notin q
      BY <2>2
    <3>2. g[n] = g[n - 1]
      BY <1>2, <3>1
    <3>3. g[n - 1] = f[Len(s)]
      BY <1>4, <2>2
    <3>4. QED
      BY <2>2, <3>2, <3>3
  <2>3. QED
    BY <2>1, <2>2
<1> HIDE DEF Good
<1>5. 0..Len(t) \subseteq Good
  <2>1. Len(t) \in Nat
    OBVIOUS
  <2>2. QED
    BY <1>3, <1>4, <2>1, SetInduction, Zenon
<1>6. g[Len(t)] = f[Len(s)]
  BY <1>5 DEF Good
<1>7. QED
  BY <1>1, <1>2, <1>6

(* One more element at the end is picked last, or not at all.               *)
LEMMA PickedAppend ==
    ASSUME NEW R, NEW seq \in Seq(R), NEW e \in R, NEW p, NEW q,
           \A n \in 1..Len(seq) : n \in p <=> n \in q
    PROVE  Picked(Append(seq, e), q) =
             IF Len(seq) + 1 \in q THEN Append(Picked(seq, p), e) ELSE Picked(seq, p)
<1> DEFINE new == Append(seq, e)
<1>1. /\ new \in Seq(R) /\ Len(new) = Len(seq) + 1 /\ new[Len(seq) + 1] = e
      /\ \A n \in 1..Len(seq) : new[n] = seq[n]
  OBVIOUS
<1> HIDE DEF new
<1>2. PICK g : /\ g[0] = <<>>
               /\ \A n \in 1..Len(new) :
                    g[n] = IF n \in q THEN Append(g[n - 1], new[n]) ELSE g[n - 1]
               /\ Picked(new, q) = g[Len(new)]
  BY <1>1, PickedEquations, Zenon
<1>3. PICK f : /\ f[0] = <<>>
               /\ \A n \in 1..Len(seq) :
                    f[n] = IF n \in p THEN Append(f[n - 1], seq[n]) ELSE f[n - 1]
               /\ Picked(seq, p) = f[Len(seq)]
  BY PickedEquations
<1> DEFINE Good == {n \in 0..Len(seq) : g[n] = f[n]}
<1>4. 0 \in Good
  BY <1>2, <1>3
<1>5. ASSUME NEW n \in 1..Len(seq), n - 1 \in Good PROVE n \in Good
  BY <1>1, <1>2, <1>3, <1>5
<1> HIDE DEF Good
<1>6. 0..Len(seq) \subseteq Good
  <2>1. Len(seq) \in Nat
    OBVIOUS
  <2>2. QED
    BY <1>4, <1>5, <2>1, SetInduction, Zenon
<1>7. g[Len(seq)] = f[Len(seq)]
  BY <1>6 DEF Good
<1>8. QED
  BY <1>1, <1>2, <1>3, <1>7 DEF new

(* The elements that belong to a set, when one more comes.                  *)
LEMMA PickedMembers ==
    ASSUME NEW R, NEW seq \in Seq(R), NEW e \in R, NEW Good
    PROVE  LET new == Append(seq, e)
               old == Picked(seq, {k \in DOMAIN seq : seq[k] \in Good})
           IN  Picked(new, {k \in DOMAIN new : new[k] \in Good}) =
                 IF e \in Good THEN Append(old, e) ELSE old
<1> DEFINE new == Append(seq, e)
           p == {k \in DOMAIN seq : seq[k] \in Good}
           q == {k \in DOMAIN new : new[k] \in Good}
<1>1. /\ DOMAIN seq = 1..Len(seq) /\ DOMAIN new = 1..Len(seq) + 1 /\ Len(seq) \in Nat
      /\ new[Len(seq) + 1] = e /\ \A n \in 1..Len(seq) : new[n] = seq[n]
  OBVIOUS
<1> HIDE DEF new
<1>2. \A n \in 1..Len(seq) : n \in p <=> n \in q
  BY <1>1
<1>3. Len(seq) + 1 \in q <=> e \in Good
  BY <1>1
<1> HIDE DEF p, q
<1>4. Picked(new, q) = IF Len(seq) + 1 \in q THEN Append(Picked(seq, p), e) ELSE Picked(seq, p)
  BY <1>2, PickedAppend DEF new
<1>5. QED
  BY <1>3, <1>4, Zenon DEF new, p, q

(* As many are picked as there are places.                                  *)
LEMMA PickedLength ==
    ASSUME NEW R, NEW seq \in Seq(R), NEW places, places \subseteq 1..Len(seq)
    PROVE  /\ IsFiniteSet(places) /\ Cardinality(places) \in Nat
           /\ Len(Picked(seq, places)) = Cardinality(places)
<1>1. PICK f : /\ f[0] = <<>>
               /\ \A n \in 1..Len(seq) :
                    f[n] = IF n \in places THEN Append(f[n - 1], seq[n]) ELSE f[n - 1]
               /\ Picked(seq, places) = f[Len(seq)]
  BY PickedEquations, ZenonT(60)
<1> DEFINE Upto(n) == places \cap 1..n
           Fits(n) == /\ f[n] \in Seq(R) /\ IsFiniteSet(Upto(n))
                      /\ Cardinality(Upto(n)) = Len(f[n])
           Good == {n \in 0..Len(seq) : Fits(n)}
<1>0. Len(seq) \in Nat
  OBVIOUS
<1>2. 0 \in Good
  <2>1. <<>> \in Seq(R) /\ Len(<<>>) = 0 /\ Upto(0) = {}
    OBVIOUS
  <2>2. Fits(0)
    BY <1>1, <2>1, FS_EmptySet
  <2>3. QED
    BY <1>0, <2>2
<1>3. ASSUME NEW n \in 1..Len(seq), n - 1 \in Good PROVE n \in Good
  <2> DEFINE before == f[n - 1]
  <2>1. /\ before \in Seq(R) /\ seq[n] \in R /\ IsFiniteSet(Upto(n - 1))
        /\ Cardinality(Upto(n - 1)) = Len(before)
    BY <1>3
  <2>2. /\ Append(before, seq[n]) \in Seq(R)
        /\ Len(Append(before, seq[n])) = Len(before) + 1
    BY <2>1
  <2>3. f[n] = IF n \in places THEN Append(before, seq[n]) ELSE before
    BY <1>1
  <2>4. n \notin Upto(n - 1) /\ Upto(n) = IF n \in places THEN Upto(n - 1) \cup {n}
                                          ELSE Upto(n - 1)
    OBVIOUS
  <2> HIDE DEF before, Upto
  <2>5. /\ IsFiniteSet(Upto(n - 1) \cup {n})
        /\ Cardinality(Upto(n - 1) \cup {n}) = Cardinality(Upto(n - 1)) + 1
    BY <2>1, <2>4, FS_AddElement
  <2>6. Fits(n)
    BY <2>1, <2>2, <2>3, <2>4, <2>5
  <2>7. QED
    BY <1>0, <2>6
<1>4. places = Upto(Len(seq))
  BY Zenon
<1> HIDE DEF Good
<1>5. 0..Len(seq) \subseteq Good
  BY <1>0, <1>2, <1>3, SetInduction, Zenon
<1>6. Fits(Len(seq))
  <2>1. Len(seq) \in Good
    BY <1>0, <1>5
  <2> HIDE DEF Fits
  <2>2. QED
    BY <2>1 DEF Good
<1>7. QED
  BY <1>1, <1>4, <1>6, FS_CardinalityType, Zenon

LEMMA PickedEmpty ==
    ASSUME NEW places
    PROVE  Picked(<<>>, places) = <<>>
<1>1. <<>> \in Seq({}) /\ Len(<<>>) = 0
  OBVIOUS
<1>2. \E f : f[0] = <<>> /\ Picked(<<>>, places) = f[Len(<<>>)]
  BY <1>1, PickedEquations, ZenonT(60)
<1>3. QED
  BY <1>1, <1>2

-----------------------------------------------------------------------------
(* FlattenSeq.                                                              *)

FlattenStep(seqs, f, n) == IF n = 1 THEN seqs[n] ELSE f[n - 1] \o seqs[n]

LEMMA FlattenExists ==
    ASSUME NEW seqs, NEW N \in Nat
    PROVE  \E f : f = [n \in 1..N |-> FlattenStep(seqs, f, n)]
<1> DEFINE Good == {k \in 0..N : \E f : f = [n \in 1..k |-> FlattenStep(seqs, f, n)]}
<1>1. 0 \in Good
  <2> DEFINE f == [n \in 1..0 |-> <<>>]
  <2>1. f = [n \in 1..0 |-> FlattenStep(seqs, f, n)]
    OBVIOUS
  <2> HIDE DEF f
  <2>2. \E h : h = [n \in 1..0 |-> FlattenStep(seqs, h, n)]
    BY <2>1
  <2>3. 0 \in 0..N
    OBVIOUS
  <2>4. QED
    BY <2>2, <2>3, Zenon
<1>2. ASSUME NEW k \in 1..N, k - 1 \in Good PROVE k \in Good
  <2>1. PICK f : f = [n \in 1..k - 1 |-> FlattenStep(seqs, f, n)]
    BY <1>2
  <2> DEFINE g == [n \in 1..k |-> IF n = k THEN FlattenStep(seqs, f, k) ELSE f[n]]
  <2>2. ASSUME NEW n \in 1..k PROVE g[n] = FlattenStep(seqs, g, n)
    <3>1. CASE n = k
      <4>1. g[k] = FlattenStep(seqs, f, k) /\ (k # 1 => g[k - 1] = f[k - 1])
        OBVIOUS
      <4>2. QED
        BY <3>1, <4>1 DEF FlattenStep
    <3>2. CASE n # k
      <4>1. n \in 1..k - 1 /\ g[n] = f[n]
        BY <3>2
      <4>2. f[n] = FlattenStep(seqs, f, n)
        BY <2>1, <4>1
      <4>3. n # 1 => g[n - 1] = f[n - 1]
        BY <4>1
      <4>4. QED
        BY <4>1, <4>2, <4>3 DEF FlattenStep
    <3>3. QED
      BY <3>1, <3>2
  <2>3. g = [n \in 1..k |-> FlattenStep(seqs, g, n)]
    BY <2>2
  <2>4. \E h : h = [n \in 1..k |-> FlattenStep(seqs, h, n)]
    BY <2>3, Zenon
  <2>5. QED
    BY <2>4
<1> HIDE DEF Good
<1>3. 0..N \subseteq Good
  BY <1>1, <1>2, SetInduction
<1>4. N \in Good
  BY <1>3
<1>5. QED
  BY <1>4 DEF Good

LEMMA FlattenEquations ==
    ASSUME NEW S, NEW seqs \in Seq(S), seqs # <<>>
    PROVE  \E f : /\ f[1] = seqs[1]
                  /\ \A n \in 2..Len(seqs) : f[n] = f[n - 1] \o seqs[n]
                  /\ FlattenSeq(seqs) = f[Len(seqs)]
<1> DEFINE F == CHOOSE f : f = [n \in 1..Len(seqs) |->
                    IF n = 1 THEN seqs[n] ELSE f[n - 1] \o seqs[n]]
<1>1. Len(seqs) \in Nat /\ Len(seqs) # 0
  OBVIOUS
<1>2. \E f : f = [n \in 1..Len(seqs) |-> IF n = 1 THEN seqs[n] ELSE f[n - 1] \o seqs[n]]
  <2>1. \E f : f = [n \in 1..Len(seqs) |-> FlattenStep(seqs, f, n)]
    BY <1>1, FlattenExists, Zenon
  <2>2. QED
    BY <2>1, Zenon DEF FlattenStep
<1>3. F = [n \in 1..Len(seqs) |-> IF n = 1 THEN seqs[n] ELSE F[n - 1] \o seqs[n]]
  BY <1>2, Zenon
<1>4. FlattenSeq(seqs) = F[Len(seqs)]
  BY <1>1 DEF FlattenSeq
<1> HIDE DEF F
<1>5. F[1] = seqs[1]
  BY <1>1, <1>3
<1>6. ASSUME NEW n \in 2..Len(seqs) PROVE F[n] = F[n - 1] \o seqs[n]
  <2>1. n \in 1..Len(seqs) /\ n # 1
    BY <1>1
  <2>2. QED
    BY <1>3, <2>1, Zenon
<1>7. QED
  BY <1>4, <1>5, <1>6, Zenon

LEMMA FlattenEmpty == FlattenSeq(<<>>) = <<>>
<1>1. Len(<<>>) = 0
  OBVIOUS
<1>2. QED
  BY <1>1 DEF FlattenSeq

LEMMA FlattenClosed ==
    ASSUME NEW S, NEW seqs \in Seq(S), seqs # <<>>, \A x, y \in S : x \o y \in S
    PROVE  FlattenSeq(seqs) \in S
<1>1. PICK f : /\ f[1] = seqs[1]
               /\ \A n \in 2..Len(seqs) : f[n] = f[n - 1] \o seqs[n]
               /\ FlattenSeq(seqs) = f[Len(seqs)]
  BY FlattenEquations, Zenon
<1> DEFINE Good == {n \in 0..Len(seqs) : n = 0 \/ f[n] \in S}
<1>2. Len(seqs) \in Nat /\ Len(seqs) # 0
  OBVIOUS
<1>3. 0 \in Good
  BY <1>2
<1>4. ASSUME NEW n \in 1..Len(seqs), n - 1 \in Good PROVE n \in Good
  <2>1. seqs[n] \in S /\ n \in 0..Len(seqs)
    BY <1>2
  <2>2. CASE n = 1
    BY <1>1, <2>1, <2>2
  <2>3. CASE n # 1
    <3>1. n \in 2..Len(seqs) /\ f[n - 1] \in S
      BY <1>2, <1>4, <2>3
    <3>2. f[n] = f[n - 1] \o seqs[n]
      BY <1>1, <3>1, Zenon
    <3>3. f[n] \in S
      BY <2>1, <3>1, <3>2, Zenon
    <3>4. QED
      BY <2>1, <3>3
  <2>4. QED
    BY <2>2, <2>3
<1> HIDE DEF Good
<1>5. 0..Len(seqs) \subseteq Good
  BY <1>2, <1>3, <1>4, SetInduction, Zenon
<1>6. f[Len(seqs)] \in S
  BY <1>2, <1>5 DEF Good
<1>7. QED
  BY <1>1, <1>6

LEMMA FlattenType ==
    ASSUME NEW R, NEW seqs \in Seq(Seq(R))
    PROVE  FlattenSeq(seqs) \in Seq(R)
<1>1. <<>> \in Seq(R) /\ \A x, y \in Seq(R) : x \o y \in Seq(R)
  OBVIOUS
<1>2. QED
  BY <1>1, FlattenEmpty, FlattenClosed, Zenon

LEMMA AppendFacts ==
    ASSUME NEW S, NEW seq \in Seq(S), NEW e \in S
    PROVE  /\ Append(seq, e) \in Seq(S) /\ Append(seq, e) # <<>>
           /\ Len(Append(seq, e)) = Len(seq) + 1 /\ Append(seq, e)[Len(seq) + 1] = e
           /\ \A n \in 1..Len(seq) : Append(seq, e)[n] = seq[n]
           /\ Len(seq) \in Nat
OBVIOUS

(* Where the elements of a selection come from.                             *)
Sources(seq, places, picked, bound, from) ==
    /\ from \in [1..Len(picked) -> 1..bound]
    /\ \A k \in 1..Len(picked) : picked[k] = seq[from[k]] /\ from[k] \in places
    /\ \A j, k \in 1..Len(picked) : j < k => from[j] < from[k]

LEMMA PickedSources ==
    ASSUME NEW R, NEW seq \in Seq(R), NEW places
    PROVE  \E from : Sources(seq, places, Picked(seq, places), Len(seq), from)
<1>1. PICK f : /\ f[0] = <<>>
               /\ \A n \in 1..Len(seq) :
                    f[n] = IF n \in places THEN Append(f[n - 1], seq[n]) ELSE f[n - 1]
               /\ Picked(seq, places) = f[Len(seq)]
  BY PickedEquations
<1> DEFINE Good == {n \in 0..Len(seq) : /\ f[n] \in Seq(R)
                                        /\ \E from : Sources(seq, places, f[n], n, from)}
<1>2. Len(seq) \in Nat
  OBVIOUS
<1>3. 0 \in Good
  <2>1. Sources(seq, places, <<>>, 0, [k \in 1..0 |-> 0])
    BY DEF Sources
  <2>2. f[0] \in Seq(R)
    <3>1. <<>> \in Seq(R)
      OBVIOUS
    <3>2. QED
      BY <1>1, <3>1, Zenon
  <2>3. \E from : Sources(seq, places, f[0], 0, from)
    BY <1>1, <2>1, Zenon
  <2>4. 0 \in 0..Len(seq)
    BY <1>2
  <2>5. QED
    BY <2>2, <2>3, <2>4, Zenon
<1>4. ASSUME NEW n \in 1..Len(seq), n - 1 \in Good PROVE n \in Good
  <2>1. f[n - 1] \in Seq(R) /\ n - 1 \in Nat /\ n \in 0..Len(seq)
    BY <1>2, <1>4
  <2>2. PICK from : Sources(seq, places, f[n - 1], n - 1, from)
    BY <1>4
  <2>3. f[n] = IF n \in places THEN Append(f[n - 1], seq[n]) ELSE f[n - 1]
    BY <1>1
  <2>4. CASE n \notin places
    <3>1. f[n] = f[n - 1]
      BY <2>3, <2>4
    <3>2. Sources(seq, places, f[n - 1], n, from)
      BY <2>1, <2>2 DEF Sources
    <3>3. QED
      BY <2>1, <3>1, <3>2
  <2>5. CASE n \in places
    <3> DEFINE old == f[n - 1]
               len == Len(old)
               new == Append(old, seq[n])
               more == [k \in 1..len + 1 |-> IF k = len + 1 THEN n ELSE from[k]]
    <3>1. f[n] = new
      BY <2>3, <2>5
    <3>2. seq[n] \in R
      BY <1>2
    <3>3. /\ new \in Seq(R) /\ Len(new) = len + 1 /\ new[len + 1] = seq[n]
          /\ \A k \in 1..len : new[k] = old[k]
          /\ len \in Nat
      BY <2>1, <3>2, AppendFacts
    <3> HIDE DEF new
    <3>4. /\ from \in [1..len -> 1..n - 1]
          /\ \A k \in 1..len : old[k] = seq[from[k]] /\ from[k] \in places
          /\ \A j, k \in 1..len : j < k => from[j] < from[k]
      BY <2>2 DEF Sources
    <3> HIDE DEF len, old
    <3>5. /\ more \in [1..len + 1 -> 1..n] /\ more[len + 1] = n
          /\ \A k \in 1..len : more[k] = from[k]
      BY <2>1, <3>3, <3>4
    <3> HIDE DEF more
    <3>6. \A k \in 1..len + 1 : new[k] = seq[more[k]] /\ more[k] \in places
      <4>1. \A k \in 1..len + 1 : k = len + 1 \/ k \in 1..len
        BY <3>3
      <4>2. QED
        BY <2>5, <3>3, <3>4, <3>5, <4>1, Zenon
    <3>7. ASSUME NEW j \in 1..len + 1, NEW k \in 1..len + 1, j < k
          PROVE  more[j] < more[k]
      <4>1. j \in 1..len /\ more[j] = from[j] /\ from[j] \in 1..n - 1
        <5>1. j \in 1..len
          BY <3>3, <3>7
        <5>2. more[j] = from[j] /\ from[j] \in 1..n - 1
          BY <3>4, <3>5, <5>1, Zenon
        <5>3. QED
          BY <5>1, <5>2
      <4>2. CASE k = len + 1
        BY <2>1, <3>5, <4>1, <4>2
      <4>3. CASE k \in 1..len
        BY <3>4, <3>5, <3>7, <4>1, <4>3
      <4>4. QED
        BY <3>3, <4>2, <4>3
    <3>8. Sources(seq, places, new, n, more)
      BY <3>3, <3>5, <3>6, <3>7 DEF Sources
    <3>9. QED
      BY <2>1, <3>1, <3>3, <3>8
  <2>6. QED
    BY <2>4, <2>5
<1> HIDE DEF Good
<1>5. Len(seq) \in Good
  <2>1. 0..Len(seq) \subseteq Good
    BY <1>2, <1>3, <1>4, SetInduction, Zenon
  <2>2. QED
    BY <1>2, <2>1
<1>6. QED
  BY <1>1, <1>5 DEF Good

LEMMA AppendAsFunction ==
    ASSUME NEW S, NEW seq \in Seq(S), NEW e \in S
    PROVE  Append(seq, e) = [k \in 1..Len(seq) + 1 |-> IF k = Len(seq) + 1 THEN e ELSE seq[k]]
<1> DEFINE g == [k \in 1..Len(seq) + 1 |-> IF k = Len(seq) + 1 THEN e ELSE seq[k]]
           new == Append(seq, e)
<1>1. /\ new \in Seq(S) /\ Len(new) = Len(seq) + 1 /\ new[Len(seq) + 1] = e
      /\ \A n \in 1..Len(seq) : new[n] = seq[n]
      /\ Len(seq) \in Nat
  BY AppendFacts
<1> HIDE DEF new
<1>2. new = [n \in 1..Len(new) |-> new[n]]
  BY <1>1
<1>3. \A n \in 1..Len(seq) + 1 : new[n] = IF n = Len(seq) + 1 THEN e ELSE seq[n]
  BY <1>1
<1>4. QED
  BY <1>1, <1>2, <1>3 DEF new

LEMMA SameSequence ==
    ASSUME NEW S, NEW s \in Seq(S), NEW t \in Seq(S), Len(s) = Len(t),
           \A k \in 1..Len(s) : s[k] = t[k]
    PROVE  s = t
OBVIOUS

LEMMA ShortAppends ==
    ASSUME NEW S, NEW x \in S, NEW y \in S
    PROVE  /\ <<>> \in Seq(S) /\ <<x>> \in Seq(S) /\ <<x, y>> \in Seq(S)
           /\ Append(<<>>, x) = <<x>> /\ Append(<<x>>, y) = <<x, y>>
<1>1. <<>> \in Seq(S) /\ <<x>> \in Seq(S) /\ <<x, y>> \in Seq(S)
  OBVIOUS
<1>2. Append(<<>>, x) = <<x>>
  <2>1. /\ Append(<<>>, x) \in Seq(S) /\ Len(Append(<<>>, x)) = 1 /\ Append(<<>>, x)[1] = x
    BY <1>1, AppendFacts
  <2>2. Len(<<x>>) = 1 /\ <<x>>[1] = x
    OBVIOUS
  <2>3. QED
    BY <1>1, <2>1, <2>2, SameSequence
<1>3. Append(<<x>>, y) = <<x, y>>
  <2>1. Len(<<x>>) = 1 /\ <<x>>[1] = x
    OBVIOUS
  <2>2. /\ Append(<<x>>, y) \in Seq(S) /\ Len(Append(<<x>>, y)) = 2
        /\ Append(<<x>>, y)[1] = x /\ Append(<<x>>, y)[2] = y
    BY <1>1, <2>1, AppendFacts
  <2>3. Len(<<x, y>>) = 2 /\ <<x, y>>[1] = x /\ <<x, y>>[2] = y
    OBVIOUS
  <2> DEFINE one == Append(<<x>>, y)
             two == <<x, y>>
  <2>4. one \in Seq(S) /\ two \in Seq(S) /\ Len(one) = 2 /\ Len(two) = 2
    BY <1>1, <2>2, <2>3
  <2>5. one[1] = two[1] /\ one[2] = two[2]
    BY <2>2, <2>3
  <2> HIDE DEF one, two
  <2>6. \A k \in 1..Len(one) : one[k] = two[k]
    <3> SUFFICES ASSUME NEW k \in 1..2 PROVE one[k] = two[k]
      BY <2>4
    <3>1. k = 1 \/ k = 2
      OBVIOUS
    <3>2. QED
      BY <2>5, <3>1
  <2>7. one = two
    BY <2>4, <2>6, SameSequence
  <2>8. QED
    BY <2>7 DEF one, two
<1>4. QED
  BY <1>1, <1>2, <1>3

(* Of one place, what is there.                                             *)
LEMMA PickedSingle ==
    ASSUME NEW R, NEW seq \in Seq(R), NEW i \in 1..Len(seq)
    PROVE  Picked(seq, {i}) = <<seq[i]>>
<1>1. PICK f : /\ f[0] = <<>>
               /\ \A n \in 1..Len(seq) :
                    f[n] = IF n \in {i} THEN Append(f[n - 1], seq[n]) ELSE f[n - 1]
               /\ Picked(seq, {i}) = f[Len(seq)]
  BY PickedEquations
<1> DEFINE single == <<seq[i]>>
           Good == {n \in 0..Len(seq) : f[n] = IF n < i THEN <<>> ELSE single}
<1>0. Len(seq) \in Nat /\ Append(<<>>, seq[i]) = single
  <2>1. seq[i] \in R /\ Len(seq) \in Nat
    OBVIOUS
  <2>2. \A e \in R : Append(<<>>, e) = <<e>>
    BY ShortAppends, Zenon
  <2>3. QED
    BY <2>1, <2>2, Zenon
<1> HIDE DEF single
<1>2. 0 \in Good
  BY <1>0, <1>1
<1>3. ASSUME NEW n \in 1..Len(seq), n - 1 \in Good PROVE n \in Good
  <2>1. CASE n < i
    BY <1>1, <1>3, <2>1
  <2>2. CASE n = i
    <3>1. f[n - 1] = <<>>
      BY <1>3, <2>2
    <3>2. f[n] = Append(f[n - 1], seq[n])
      BY <1>1, <2>2, Zenon
    <3>3. f[n] = single
      BY <1>0, <2>2, <3>1, <3>2, Zenon
    <3>4. QED
      BY <1>0, <2>2, <3>3
  <2>3. CASE n > i
    BY <1>1, <1>3, <2>3
  <2>4. QED
    BY <2>1, <2>2, <2>3
<1> HIDE DEF Good
<1>4. 0..Len(seq) \subseteq Good
  BY <1>0, <1>2, <1>3, SetInduction, Zenon
<1>5. QED
  BY <1>0, <1>1, <1>4 DEF Good, single

LEMMA ConcatFacts ==
    ASSUME NEW S, NEW x \in Seq(S), NEW y \in Seq(S)
    PROVE  /\ x \o y \in Seq(S) /\ Len(x \o y) = Len(x) + Len(y)
           /\ \A k \in 1..Len(x) : (x \o y)[k] = x[k]
           /\ \A k \in 1..Len(y) : (x \o y)[Len(x) + k] = y[k]
           /\ Len(x) \in Nat /\ Len(y) \in Nat
OBVIOUS

LEMMA ConcatEmpty ==
    ASSUME NEW S, NEW x \in Seq(S)
    PROVE  x \o <<>> = x
OBVIOUS

LEMMA ShortPrefixes ==
    ASSUME NEW S, NEW x \in S, NEW y \in S
    PROVE  /\ SubSeq(<<x>>, 1, 1) = <<x>>
           /\ SubSeq(<<x, y>>, 1, 1) = <<x>>
           /\ SubSeq(<<x, y>>, 1, 2) = <<x, y>>
<1>1. /\ <<x>> \in Seq(S) /\ Len(<<x>>) = 1 /\ <<x>>[1] = x
      /\ <<x, y>> \in Seq(S) /\ Len(<<x, y>>) = 2 /\ <<x, y>>[1] = x /\ <<x, y>>[2] = y
  OBVIOUS
<1>2. ASSUME NEW s \in Seq(S), NEW n \in 1..Len(s)
      PROVE  /\ SubSeq(s, 1, n) \in Seq(S) /\ Len(SubSeq(s, 1, n)) = n
             /\ \A k \in 1..n : SubSeq(s, 1, n)[k] = s[k]
  OBVIOUS
<1>3. SubSeq(<<x>>, 1, 1) = <<x>>
  <2>1. 1 \in 1..Len(<<x>>)
    BY <1>1
  <2>2. /\ SubSeq(<<x>>, 1, 1) \in Seq(S) /\ Len(SubSeq(<<x>>, 1, 1)) = 1
        /\ \A k \in 1..1 : SubSeq(<<x>>, 1, 1)[k] = <<x>>[k]
    BY <1>1, <1>2, <2>1
  <2>3. QED
    BY <1>1, <2>2, SameSequence, Zenon
<1>4. ASSUME NEW two \in Seq(S), Len(two) = 2, two[1] = x, two[2] = y
      PROVE  SubSeq(two, 1, 1) = <<x>> /\ SubSeq(two, 1, 2) = two
  <2>1. /\ SubSeq(two, 1, 1) \in Seq(S) /\ Len(SubSeq(two, 1, 1)) = 1
        /\ SubSeq(two, 1, 1)[1] = x
    BY <1>2, <1>4
  <2>2. /\ SubSeq(two, 1, 2) \in Seq(S) /\ Len(SubSeq(two, 1, 2)) = 2
        /\ \A k \in 1..2 : SubSeq(two, 1, 2)[k] = two[k]
    BY <1>2, <1>4
  <2>3. SubSeq(two, 1, 2) = two
    BY <1>4, <2>2, SameSequence
  <2>4. SubSeq(two, 1, 1) = <<x>>
    <3> DEFINE one == SubSeq(two, 1, 1)
               single == <<x>>
    <3>1. /\ one \in Seq(S) /\ single \in Seq(S) /\ Len(one) = 1 /\ Len(single) = 1
          /\ one[1] = x /\ single[1] = x
      BY <1>1, <2>1
    <3> HIDE DEF one, single
    <3>2. \A k \in 1..Len(one) : one[k] = single[k]
      BY <3>1
    <3>3. one = single
      BY <3>1, <3>2, SameSequence
    <3>4. QED
      BY <3>3 DEF one, single
  <2>5. QED
    BY <2>3, <2>4
<1>5. QED
  BY <1>1, <1>3, <1>4, Zenon

LEMMA FlattenLast ==
    ASSUME NEW S, NEW seqs \in Seq(S), NEW e \in S, <<>> \o e = e
    PROVE  FlattenSeq(Append(seqs, e)) = FlattenSeq(seqs) \o e
<1> DEFINE new == Append(seqs, e)
<1>1. /\ new \in Seq(S) /\ new # <<>> /\ Len(new) = Len(seqs) + 1
      /\ new[Len(seqs) + 1] = e
      /\ \A n \in 1..Len(seqs) : new[n] = seqs[n]
      /\ Len(seqs) \in Nat
  BY AppendFacts
<1> HIDE DEF new
<1>2. PICK g : /\ g[1] = new[1]
               /\ \A n \in 2..Len(new) : g[n] = g[n - 1] \o new[n]
               /\ FlattenSeq(new) = g[Len(new)]
  BY <1>1, FlattenEquations, Zenon
<1>3. CASE seqs = <<>>
  <2>1. Len(seqs) = 0 /\ FlattenSeq(seqs) = <<>>
    BY <1>3, FlattenEmpty
  <2>2. FlattenSeq(new) = e
    BY <1>1, <1>2, <2>1
  <2>3. QED
    BY <2>1, <2>2 DEF new
<1>4. CASE seqs # <<>>
  <2>1. PICK f : /\ f[1] = seqs[1]
                 /\ \A n \in 2..Len(seqs) : f[n] = f[n - 1] \o seqs[n]
                 /\ FlattenSeq(seqs) = f[Len(seqs)]
    BY <1>4, FlattenEquations, Zenon
  <2>2. Len(seqs) # 0
    BY <1>4
  <2> DEFINE Good == {n \in 0..Len(seqs) : n = 0 \/ g[n] = f[n]}
  <2>3. 0 \in Good
    BY <1>1
  <2>4. ASSUME NEW n \in 1..Len(seqs), n - 1 \in Good PROVE n \in Good
    <3>1. CASE n = 1
      BY <1>1, <1>2, <2>1, <3>1
    <3>2. CASE n # 1
      <4>1. g[n - 1] = f[n - 1] /\ new[n] = seqs[n]
        BY <1>1, <2>4, <3>2
      <4>2. n \in 2..Len(seqs) /\ n \in 2..Len(new) /\ n \in 0..Len(seqs)
        BY <1>1, <3>2
      <4>3. g[n] = g[n - 1] \o new[n] /\ f[n] = f[n - 1] \o seqs[n]
        BY <1>2, <2>1, <4>2, Zenon
      <4>4. g[n] = f[n]
        BY <4>1, <4>3, Zenon
      <4>5. QED
        BY <4>2, <4>4, Zenon
    <3>3. QED
      BY <3>1, <3>2
  <2> HIDE DEF Good
  <2>5. 0..Len(seqs) \subseteq Good
    BY <1>1, <2>3, <2>4, SetInduction, Zenon
  <2>6. g[Len(seqs)] = f[Len(seqs)]
    BY <1>1, <2>2, <2>5 DEF Good
  <2>7. g[Len(new)] = g[Len(seqs)] \o e
    <3>1. Len(new) \in 2..Len(new) /\ Len(new) - 1 = Len(seqs)
      BY <1>1, <2>2
    <3>2. g[Len(new)] = g[Len(new) - 1] \o new[Len(new)]
      BY <1>2, <3>1, Zenon
    <3>3. QED
      BY <1>1, <3>1, <3>2, Zenon
  <2>8. QED
    BY <1>2, <2>1, <2>6, <2>7 DEF new
<1>5. QED
  BY <1>3, <1>4

LEMMA FlattenAppend ==
    ASSUME NEW R, NEW seqs \in Seq(Seq(R)), NEW e \in Seq(R)
    PROVE  FlattenSeq(Append(seqs, e)) = FlattenSeq(seqs) \o e
<1>1. <<>> \o e = e
  OBVIOUS
<1>2. QED
  BY <1>1, FlattenLast

-----------------------------------------------------------------------------
(* Selections are complete, and so are sequences put one after another.     *)

LEMMA PickedComplete ==
    ASSUME NEW R, NEW seq \in Seq(R), NEW places, NEW p \in 1..Len(seq), p \in places
    PROVE  \E k \in 1..Len(Picked(seq, places)) : Picked(seq, places)[k] = seq[p]
<1>1. PICK f : /\ f[0] = <<>>
               /\ \A n \in 1..Len(seq) :
                    f[n] = IF n \in places THEN Append(f[n - 1], seq[n]) ELSE f[n - 1]
               /\ Picked(seq, places) = f[Len(seq)]
  BY PickedEquations
<1> DEFINE Has(n) == \A q \in 1..n : q \in places => \E k \in 1..Len(f[n]) : f[n][k] = seq[q]
           Good == {n \in 0..Len(seq) : f[n] \in Seq(R) /\ Has(n)}
<1>2. Len(seq) \in Nat
  OBVIOUS
<1>3. 0 \in Good
  <2>1. <<>> \in Seq(R) /\ 1..0 = {}
    OBVIOUS
  <2>2. f[0] \in Seq(R)
    BY <1>1, <2>1
  <2>3. Has(0)
    BY <2>1
  <2>4. 0 \in 0..Len(seq)
    BY <1>2
  <2> HIDE DEF Has
  <2>5. QED
    BY <2>2, <2>3, <2>4
<1>4. ASSUME NEW n \in 1..Len(seq), n - 1 \in Good PROVE n \in Good
  <2>1. f[n - 1] \in Seq(R) /\ Has(n - 1) /\ seq[n] \in R /\ n \in 0..Len(seq)
    BY <1>2, <1>4
  <2>2. CASE n \in places
    <3>1. f[n] = Append(f[n - 1], seq[n])
      BY <1>1, <2>2, Zenon
    <3> DEFINE old == f[n - 1]
    <3>2. /\ f[n] \in Seq(R) /\ Len(f[n]) = Len(old) + 1 /\ f[n][Len(old) + 1] = seq[n]
          /\ \A m \in 1..Len(old) : f[n][m] = old[m]
          /\ Len(old) \in Nat
      BY <2>1, <3>1, AppendFacts
    <3>3. ASSUME NEW q \in 1..n, q \in places PROVE \E k \in 1..Len(f[n]) : f[n][k] = seq[q]
      <4>1. CASE q = n
        <5>1. Len(old) + 1 \in 1..Len(f[n])
          BY <3>2
        <5>2. QED
          BY <3>2, <4>1, <5>1, Zenon
      <4>2. CASE q # n
        <5>1. q \in 1..n - 1
          BY <4>2
        <5>2. PICK k \in 1..Len(old) : old[k] = seq[q]
          BY <2>1, <3>3, <5>1
        <5> HIDE DEF old
        <5>3. k \in 1..Len(f[n]) /\ f[n][k] = seq[q]
          BY <3>2, <5>2
        <5>4. QED
          BY <5>3
      <4>3. QED
        BY <4>1, <4>2
    <3>4. QED
      BY <2>1, <3>2, <3>3
  <2>3. CASE n \notin places
    <3>1. f[n] = f[n - 1]
      BY <1>1, <2>3
    <3>2. \A q \in 1..n : q \in places => q \in 1..n - 1
      BY <2>3
    <3>3. QED
      BY <2>1, <3>1, <3>2, Zenon
  <2>4. QED
    BY <2>2, <2>3
<1> HIDE DEF Good
<1>5. 0..Len(seq) \subseteq Good
  BY <1>2, <1>3, <1>4, SetInduction, Zenon
<1>6. Len(seq) \in Good
  BY <1>2, <1>5
<1>7. QED
  BY <1>1, <1>6 DEF Good

(* What is in one sequence is in the other.                                 *)
Among(x, s) == \E k \in 1..Len(s) : s[k] = x

LEMMA AmongConcat ==
    ASSUME NEW R, NEW s \in Seq(R), NEW t \in Seq(R), NEW x
    PROVE  Among(x, s \o t) <=> Among(x, s) \/ Among(x, t)
<1> DEFINE u == s \o t
<1>1. /\ Len(u) = Len(s) + Len(t) /\ Len(s) \in Nat /\ Len(t) \in Nat
      /\ \A k \in 1..Len(s) : u[k] = s[k]
      /\ \A k \in 1..Len(t) : u[Len(s) + k] = t[k]
  BY ConcatFacts
<1> HIDE DEF u
<1>2. ASSUME NEW k \in 1..Len(s), s[k] = x PROVE Among(x, u)
  <2>1. k \in 1..Len(u) /\ u[k] = x
    BY <1>1, <1>2
  <2>2. QED
    BY <2>1 DEF Among
<1>3. ASSUME NEW k \in 1..Len(t), t[k] = x PROVE Among(x, u)
  <2>1. Len(s) + k \in 1..Len(u) /\ u[Len(s) + k] = x
    BY <1>1, <1>3
  <2>2. QED
    BY <2>1 DEF Among
<1>4. ASSUME NEW k \in 1..Len(u), u[k] = x PROVE Among(x, s) \/ Among(x, t)
  <2>1. CASE k \in 1..Len(s)
    BY <1>1, <1>4, <2>1 DEF Among
  <2>2. CASE k \notin 1..Len(s)
    <3> DEFINE j == k - Len(s)
    <3>1. j \in 1..Len(t) /\ Len(s) + j = k
      BY <1>1, <2>2
    <3> HIDE DEF j
    <3>2. t[j] = x
      BY <1>1, <1>4, <3>1
    <3>3. QED
      BY <3>1, <3>2 DEF Among
  <2>3. QED
    BY <2>1, <2>2
<1>5. QED
  BY <1>2, <1>3, <1>4 DEF Among, u

LEMMA FlattenMembers ==
    ASSUME NEW R, NEW seqs \in Seq(Seq(R)), NEW x
    PROVE  Among(x, FlattenSeq(seqs)) <=> \E n \in 1..Len(seqs) : Among(x, seqs[n])
<1>1. CASE seqs = <<>>
  <2>1. FlattenSeq(seqs) = <<>> /\ 1..Len(seqs) = {} /\ 1..Len(<<>>) = {}
    BY <1>1, FlattenEmpty
  <2>2. QED
    BY <2>1 DEF Among
<1>2. CASE seqs # <<>>
  <2>1. PICK S : S = Seq(R)
    OBVIOUS
  <2>2. seqs \in Seq(S) /\ Len(seqs) \in Nat /\ Len(seqs) # 0
    BY <1>2, <2>1
  <2>3. PICK f : /\ f[1] = seqs[1]
                 /\ \A n \in 2..Len(seqs) : f[n] = f[n - 1] \o seqs[n]
                 /\ FlattenSeq(seqs) = f[Len(seqs)]
    BY <1>2, <2>2, FlattenEquations, Zenon
  <2> DEFINE Has(n) == Among(x, f[n]) <=> \E m \in 1..n : Among(x, seqs[m])
             Good == {n \in 0..Len(seqs) : n = 0 \/ (f[n] \in S /\ Has(n))}
  <2>4. 0 \in Good
    BY <2>2
  <2>5. ASSUME NEW n \in 1..Len(seqs), n - 1 \in Good PROVE n \in Good
    <3>1. seqs[n] \in S /\ n \in 0..Len(seqs)
      BY <2>2
    <3>2. CASE n = 1
      <4>1. 1..1 = {1} /\ f[1] = seqs[1]
        BY <2>3
      <4>2. Has(1)
        BY <4>1
      <4>3. QED
        BY <3>1, <3>2, <4>1, <4>2
    <3>3. CASE n # 1
      <4>1. /\ n \in 2..Len(seqs) /\ n - 1 # 0
            /\ \A m : m \in 1..n <=> m \in 1..n - 1 \/ m = n
        BY <2>2, <3>3
      <4>2. f[n] = f[n - 1] \o seqs[n]
        BY <2>3, <4>1, Zenon
      <4>3. f[n - 1] \in S /\ Has(n - 1)
        BY <2>5, <4>1
      <4>4. f[n] \in S
        BY <2>1, <3>1, <4>2, <4>3
      <4>5. Among(x, f[n]) <=> Among(x, f[n - 1]) \/ Among(x, seqs[n])
        BY <2>1, <3>1, <4>2, <4>3, AmongConcat
      <4>6. Has(n)
        BY <4>1, <4>3, <4>5
      <4>7. QED
        BY <3>1, <4>4, <4>6
    <3>4. QED
      BY <3>2, <3>3
  <2> HIDE DEF Good
  <2>6. 0..Len(seqs) \subseteq Good
    BY <2>2, <2>4, <2>5, SetInduction, Zenon
  <2>7. Len(seqs) \in Good
    BY <2>2, <2>6
  <2>8. Has(Len(seqs))
    BY <2>2, <2>7 DEF Good
  <2>9. QED
    BY <2>3, <2>8
<1>3. QED
  BY <1>1, <1>2

-----------------------------------------------------------------------------
(* Sequences that change at one place and grow by one.                      *)

LEMMA GrownSequence ==
    ASSUME NEW S, NEW seq \in Seq(S), NEW b \in 1..Len(seq), NEW x \in S, NEW y \in S
    PROVE  LET new == Append([seq EXCEPT ![b] = x], y) IN
           /\ new \in Seq(S) /\ Len(new) = Len(seq) + 1
           /\ new[b] = x /\ new[Len(seq) + 1] = y
           /\ \A c \in 1..Len(seq) : c # b => new[c] = seq[c]
<1> DEFINE changed == [seq EXCEPT ![b] = x]
<1>1. /\ changed \in Seq(S) /\ Len(changed) = Len(seq) /\ changed[b] = x
      /\ \A c \in 1..Len(seq) : c # b => changed[c] = seq[c]
  OBVIOUS
<1> HIDE DEF changed
<1>2. /\ Append(changed, y) \in Seq(S) /\ Len(Append(changed, y)) = Len(changed) + 1
      /\ Append(changed, y)[Len(changed) + 1] = y
      /\ \A n \in 1..Len(changed) : Append(changed, y)[n] = changed[n]
  BY <1>1, AppendFacts
<1>3. QED
  BY <1>1, <1>2 DEF changed

LEMMA ConcatSingle ==
    ASSUME NEW S, NEW x \in Seq(S), NEW y \in S
    PROVE  x \o <<y>> = Append(x, y)
OBVIOUS

LEMMA CutFacts ==
    ASSUME NEW S, NEW seq \in Seq(S), NEW i \in 1..Len(seq) + 1
    PROVE  /\ SubSeq(seq, 1, i - 1) \in Seq(S) /\ Len(SubSeq(seq, 1, i - 1)) = i - 1
           /\ \A k \in 1..i - 1 : SubSeq(seq, 1, i - 1)[k] = seq[k]
           /\ SubSeq(seq, i, Len(seq)) \in Seq(S)
           /\ Len(SubSeq(seq, i, Len(seq))) = Len(seq) - (i - 1)
           /\ \A k \in 1..Len(seq) - (i - 1) : SubSeq(seq, i, Len(seq))[k] = seq[i - 1 + k]
OBVIOUS

(* The items of a block, statements and terminator.                         *)
LEMMA ItemFacts ==
    ASSUME NEW blk \in BasicBlock
    PROVE  /\ blk.stmts \in Seq(Statement) /\ blk.term \in Terminator /\ blk.cleanup \in BOOLEAN
           /\ Len(blk.stmts) \in Nat
           /\ Len(ItemsOf(blk)) = Len(blk.stmts) + 1
           /\ DOMAIN ItemsOf(blk) = 1..Len(blk.stmts) + 1
           /\ \A i \in 1..Len(blk.stmts) : ItemsOf(blk)[i] = blk.stmts[i]
           /\ ItemsOf(blk)[Len(blk.stmts) + 1] = blk.term
<1> DEFINE stmts == blk.stmts
           term == blk.term
<1>1. stmts \in Seq(Statement) /\ term \in Terminator /\ blk.cleanup \in BOOLEAN
  BY DEF BasicBlock
<1>2. ItemsOf(blk) = Append(stmts, term)
  BY DEF ItemsOf
<1> HIDE DEF stmts, term
<1>3. /\ Len(stmts) \in Nat
      /\ Append(stmts, term) \in Seq(Statement \cup Terminator)
      /\ Len(Append(stmts, term)) = Len(stmts) + 1
      /\ \A i \in 1..Len(stmts) : Append(stmts, term)[i] = stmts[i]
      /\ Append(stmts, term)[Len(stmts) + 1] = term
  <2>1. stmts \in Seq(Statement \cup Terminator) /\ term \in Statement \cup Terminator
    BY <1>1
  <2>2. QED
    BY <2>1, AppendFacts
<1>4. DOMAIN Append(stmts, term) = 1..Len(stmts) + 1
  BY <1>3
<1>5. QED
  BY <1>1, <1>2, <1>3, <1>4 DEF stmts, term

-----------------------------------------------------------------------------
(* What one edit does.                                                      *)

HookNames == {"entry_before", "entry_after", "mem_read", "mem_write", "before", "after"}

(* A call of a hook that goes on to the blocks `to`.                        *)
IsHook(term, to) ==
    /\ term.at = Nowhere /\ term.kind = "call" /\ term.fn \in HookNames
    /\ term.to = to /\ term.uses = <<>>

(* new is bd with block b changed and one more block.                       *)
GrownAt(bd, new, b) ==
    /\ new \in Body /\ Len(new) = Len(bd) + 1
    /\ \A c \in 1..Len(bd) : c # b => new[c] = bd[c]
    /\ new[b].cleanup = bd[b].cleanup

(* The terminator of b moves to the new block, a hook takes its place.      *)
Moved(bd, new, b) ==
    LET n == Len(bd) + 1 IN
    /\ GrownAt(bd, new, b)
    /\ IsHook(new[b].term, {n}) /\ new[b].term.fn # "after"
    /\ new[b].term.unwind \in {Continue, Terminate, bd[b].term.unwind}
    /\ new[n].term = bd[b].term /\ new[n].cleanup = bd[b].cleanup

(* The terminator of b goes to a hook in the new block, and from there on.  *)
Followed(bd, new, b) ==
    LET n == Len(bd) + 1 IN
    /\ GrownAt(bd, new, b)
    /\ new[b].term = [bd[b].term EXCEPT !.to = {n}]
    /\ IsHook(new[n].term, bd[b].term.to) /\ new[n].term.fn = "after"
    /\ new[n].term.unwind = bd[b].term.unwind
    /\ ~new[n].cleanup

(* Only statements of b have changed.                                       *)
Restated(bd, new, b) ==
    /\ new \in Body /\ Len(new) = Len(bd)
    /\ \A c \in 1..Len(bd) : c # b => new[c] = bd[c]
    /\ new[b].term = bd[b].term /\ new[b].cleanup = bd[b].cleanup

(* The patches the instrumenters apply.                                     *)
Joined(x, y) == x \o y
Patch(bd, b, stmts, term, blk) == Apply(bd, b, stmts, term, <<blk>>)
InFront(bd, b, stmts, of, args, blk) ==
    Patch(bd, b, stmts, HookCall("before", of, args, {Len(bd) + 1}, bd[b].term.unwind), blk)
Behind(bd, b, stmts, of, args, refs) ==
    Patch(bd, b, stmts, [bd[b].term EXCEPT !.to = {Len(bd) + 1}],
          [stmts   |-> refs,
           term    |-> HookCall("after", of, args, bd[b].term.to, bd[b].term.unwind),
           cleanup |-> FALSE])

LEMMA HookCallFacts ==
    ASSUME NEW fn \in HookNames, NEW of \in Names, NEW args \in Operands,
           NEW to \in SUBSET Nat, NEW unwind \in UnwindAction
    PROVE  LET hook == HookCall(fn, of, args, to, unwind) IN
           /\ hook \in Terminator /\ IsHook(hook, to) /\ hook.fn = fn /\ hook.of = of
           /\ hook.args = args /\ hook.unwind = unwind /\ hook.uses = <<>>
<1>1. <<>> \in Seq(Nat) /\ <<>> \in Operands
  BY DEF Operands
<1>2. "call" \in Names /\ fn \in Names
  BY NamesAssumption, Zenon DEF HookNames, Words
<1> DEFINE hook == HookCall(fn, of, args, to, unwind)
<1>3. hook = [at |-> Nowhere, kind |-> "call", fn |-> fn, of |-> of, args |-> args,
              to |-> to, unwind |-> unwind, uses |-> <<>>]
  BY DEF HookCall
<1>4. Nowhere \in Seq(Nat)
  BY <1>1 DEF Nowhere
<1>5. hook \in Terminator
  BY <1>1, <1>2, <1>3, <1>4 DEF Terminator
<1>6. QED
  BY <1>3, <1>5 DEF IsHook

LEMMA ApplyFacts ==
    ASSUME NEW bd \in Body, NEW b \in 1..Len(bd), NEW stmts \in Seq(Statement),
           NEW term \in Terminator, NEW blk \in BasicBlock
    PROVE  LET new == Patch(bd, b, stmts, term, blk) IN
           /\ GrownAt(bd, new, b)
           /\ new[b].stmts = Joined(bd[b].stmts, stmts)
           /\ new[b].term = term
           /\ new[Len(bd) + 1] = blk
<1> DEFINE x == [bd[b] EXCEPT !.stmts = @ \o stmts, !.term = term]
           new == Append([bd EXCEPT ![b] = x], blk)
<1>1. bd[b] \in BasicBlock
  BY DEF Body
<1>2. bd[b].stmts \o stmts \in Seq(Statement)
  BY <1>1, ItemFacts, ConcatFacts
<1>3. /\ x \in BasicBlock /\ x.stmts = bd[b].stmts \o stmts /\ x.term = term
      /\ x.cleanup = bd[b].cleanup
  BY <1>1, <1>2, Zenon DEF BasicBlock
<1> HIDE DEF x
<1>4. [bd EXCEPT ![b] = x] \in Seq(BasicBlock)
  BY <1>3 DEF Body
<1>5. Patch(bd, b, stmts, term, blk) = new
  <2>1. Patch(bd, b, stmts, term, blk) = [bd EXCEPT ![b] = x] \o <<blk>>
    BY DEF Apply, Patch, x
  <2>2. QED
    BY <1>4, <2>1, ConcatSingle
<1>6. /\ new \in Seq(BasicBlock) /\ Len(new) = Len(bd) + 1
      /\ new[b] = x /\ new[Len(bd) + 1] = blk
      /\ \A c \in 1..Len(bd) : c # b => new[c] = bd[c]
  BY <1>3, GrownSequence DEF Body
<1> HIDE DEF new
<1>7. bd[b].stmts \o stmts = Joined(bd[b].stmts, stmts)
  BY DEF Joined
<1>8. QED
  BY <1>3, <1>5, <1>6, <1>7 DEF GrownAt, Body

-----------------------------------------------------------------------------
(* The types of what is inserted.                                           *)

LEMMA TermFacts ==
    ASSUME NEW bd \in Body, NEW b \in 1..Len(bd)
    PROVE  /\ bd[b] \in BasicBlock /\ bd[b].term \in Terminator
           /\ bd[b].stmts \in Seq(Statement) /\ bd[b].cleanup \in BOOLEAN
           /\ bd[b].term.of \in Names /\ bd[b].term.fn \in Names
           /\ bd[b].term.args \in Operands /\ bd[b].term.unwind \in UnwindAction
           /\ bd[b].term.uses \in Operands /\ bd[b].term.to \in SUBSET Nat
           /\ bd[b].term.kind \in Names
           /\ Len(bd) \in Nat /\ {Len(bd) + 1} \in SUBSET Nat
<1>1. bd[b] \in BasicBlock /\ Len(bd) \in Nat
  BY DEF Body
<1>2. bd[b].term \in Terminator
  BY <1>1 DEF BasicBlock
<1>3. QED
  BY <1>1, <1>2 DEF BasicBlock, Terminator

-----------------------------------------------------------------------------
(* Statements in place, a hook in front of a terminator, a hook behind it.  *)

LEMMA ApplyInPlace ==
    ASSUME NEW bd \in Body, NEW b \in 1..Len(bd), NEW stmts \in Seq(Statement)
    PROVE  LET new == Apply(bd, b, stmts, bd[b].term, <<>>) IN
           /\ Restated(bd, new, b)
           /\ Len(new[b].stmts) >= Len(bd[b].stmts)
           /\ \A j \in 1..Len(bd[b].stmts) : new[b].stmts[j] = bd[b].stmts[j]
           /\ new[b].stmts = Joined(bd[b].stmts, stmts)
<1> DEFINE x == [bd[b] EXCEPT !.stmts = @ \o stmts, !.term = bd[b].term]
           new == [bd EXCEPT ![b] = x]
<1>1. bd[b] \in BasicBlock /\ bd[b].stmts \in Seq(Statement)
  BY TermFacts
<1>2. bd[b].stmts \o stmts \in Seq(Statement)
  BY <1>1, ConcatFacts
<1>3. /\ x \in BasicBlock /\ x.stmts = bd[b].stmts \o stmts /\ x.term = bd[b].term
      /\ x.cleanup = bd[b].cleanup
  BY <1>1, <1>2, Zenon DEF BasicBlock
<1>4. Apply(bd, b, stmts, bd[b].term, <<>>) = new \o <<>>
  BY DEF Apply
<1> HIDE DEF x
<1>5. /\ new \in Seq(BasicBlock) /\ Len(new) = Len(bd) /\ new[b] = x
      /\ \A c \in 1..Len(bd) : c # b => new[c] = bd[c]
  BY <1>3 DEF Body
<1> HIDE DEF new
<1>6. new \o <<>> = new
  BY <1>5, ConcatEmpty
<1>7. /\ Len(bd[b].stmts \o stmts) >= Len(bd[b].stmts)
      /\ \A j \in 1..Len(bd[b].stmts) : (bd[b].stmts \o stmts)[j] = bd[b].stmts[j]
  BY <1>1, ConcatFacts
<1>8. new[b].stmts = Joined(bd[b].stmts, stmts)
  BY <1>3, <1>5 DEF Joined
<1>9. QED
  BY <1>3, <1>4, <1>5, <1>6, <1>7, <1>8 DEF Restated, Body

(* A hook in front of a terminator: CallBefore and DropBefore.              *)
LEMMA HookInFront ==
    ASSUME NEW bd \in Body, NEW b \in 1..Len(bd), NEW stmts \in Seq(Statement),
           NEW of \in Names, NEW args \in Operands, NEW blk \in BasicBlock,
           blk.term = bd[b].term, blk.cleanup = bd[b].cleanup
    PROVE  LET new == InFront(bd, b, stmts, of, args, blk)
           IN  /\ Moved(bd, new, b)
               /\ new[b].term.fn = "before" /\ new[b].term.args = args
<1> DEFINE n == Len(bd) + 1
           hook == HookCall("before", of, args, {n}, bd[b].term.unwind)
           new == Patch(bd, b, stmts, hook, blk)
<1>1. {n} \in SUBSET Nat /\ bd[b].term.unwind \in UnwindAction /\ "before" \in HookNames
  BY TermFacts DEF HookNames
<1>2. /\ hook.fn = "before" /\ hook.args = args /\ hook.unwind = bd[b].term.unwind
  BY DEF HookCall
<1>3. hook \in Terminator /\ IsHook(hook, {n})
  <2> HIDE DEF n
  <2>1. QED
    BY <1>1, HookCallFacts
<1> HIDE DEF hook
<1>4. GrownAt(bd, new, b) /\ new[b].term = hook /\ new[n] = blk
  BY <1>3, ApplyFacts
<1> HIDE DEF new, n
<1>5. Moved(bd, new, b)
  BY <1>2, <1>3, <1>4 DEF Moved, n
<1>6. InFront(bd, b, stmts, of, args, blk) = new
  BY DEF InFront, new, hook, n
<1>7. QED
  BY <1>2, <1>4, <1>5, <1>6

(* A hook behind a terminator: CallAfter and DropAfter.                     *)
LEMMA HookBehind ==
    ASSUME NEW bd \in Body, NEW b \in 1..Len(bd), NEW stmts \in Seq(Statement),
           NEW of \in Names, NEW args \in Operands, NEW refs \in Seq(Statement)
    PROVE  LET n == Len(bd) + 1
               new == Behind(bd, b, stmts, of, args, refs)
           IN  /\ Followed(bd, new, b)
               /\ new[n].term.of = of /\ new[n].term.args = args
<1> DEFINE n == Len(bd) + 1
           term == [bd[b].term EXCEPT !.to = {n}]
           hook == HookCall("after", of, args, bd[b].term.to, bd[b].term.unwind)
           blk == [stmts |-> refs, term |-> hook, cleanup |-> FALSE]
           new == Patch(bd, b, stmts, term, blk)
<1>1. /\ {n} \in SUBSET Nat /\ bd[b].term.unwind \in UnwindAction /\ "after" \in HookNames
      /\ bd[b].term \in Terminator /\ bd[b].term.to \in SUBSET Nat
  BY TermFacts DEF HookNames
<1>2. /\ hook.fn = "after" /\ hook.args = args /\ hook.unwind = bd[b].term.unwind
      /\ hook.of = of
  BY DEF HookCall
<1>3. hook \in Terminator /\ IsHook(hook, bd[b].term.to)
  <2> HIDE DEF n
  <2>1. QED
    BY <1>1, HookCallFacts
<1> HIDE DEF hook
<1>4. term \in Terminator
  <2> HIDE DEF n
  <2>1. QED
    BY <1>1, Zenon DEF Terminator
<1>5. blk \in BasicBlock /\ blk.term = hook /\ ~blk.cleanup
  BY <1>3 DEF BasicBlock
<1> HIDE DEF term, blk
<1>6. GrownAt(bd, new, b) /\ new[b].term = term /\ new[n] = blk
  BY <1>4, <1>5, ApplyFacts
<1> HIDE DEF new
<1>7. Followed(bd, new, b)
  BY <1>2, <1>3, <1>5, <1>6 DEF Followed, term
<1>8. Behind(bd, b, stmts, of, args, refs) = new
  BY DEF Behind, new, hook, blk, term
<1>9. QED
  BY <1>2, <1>5, <1>6, <1>7, <1>8 DEF n

-----------------------------------------------------------------------------
(* Blocks and locations.                                                    *)

LEMMA BlocksOf ==
    ASSUME NEW bd \in Body
    PROVE  Blocks(bd) = 1..Len(bd) /\ Len(bd) \in Nat
BY DEF Blocks, Body

(* Where a terminator goes on to does not matter.                           *)
LEMMA Redirected ==
    ASSUME NEW term \in Terminator, NEW to
    PROVE  LET new == [term EXCEPT !.to = to] IN
           /\ new.at = term.at /\ new.kind = term.kind /\ new.fn = term.fn /\ new.of = term.of
           /\ new.args = term.args /\ new.unwind = term.unwind /\ new.uses = term.uses
           /\ new.to = to
BY DEF Terminator

LEMMA PlacesAreLocations ==
    ASSUME NEW bd \in Body, NEW b \in 1..Len(bd), NEW i \in 1..Len(bd[b].stmts) + 1
    PROVE  <<b, i>> \in Locations(bd) /\ ItemAt(bd, <<b, i>>) = ItemsOf(bd[b])[i]
<1>1. DOMAIN ItemsOf(bd[b]) = 1..Len(bd[b].stmts) + 1
  BY TermFacts, ItemFacts
<1>2. i \in DOMAIN ItemsOf(bd[b]) /\ b \in Blocks(bd)
  BY <1>1, BlocksOf
<1>3. <<b, i>> \in {<<b, k>> : k \in DOMAIN ItemsOf(bd[b])}
  BY <1>2
<1>4. <<b, i>> \in Locations(bd)
  BY <1>2, <1>3 DEF Locations
<1>5. QED
  BY <1>4 DEF ItemAt

LEMMA LocationsArePlaces ==
    ASSUME NEW bd \in Body, NEW loc \in Locations(bd)
    PROVE  \E b \in 1..Len(bd) : \E i \in 1..Len(bd[b].stmts) + 1 :
               loc = <<b, i>> /\ ItemAt(bd, loc) = ItemsOf(bd[b])[i]
<1>1. PICK b \in Blocks(bd) : loc \in {<<b, k>> : k \in DOMAIN ItemsOf(bd[b])}
  BY DEF Locations
<1>2. PICK i \in DOMAIN ItemsOf(bd[b]) : loc = <<b, i>>
  BY <1>1
<1>3. b \in 1..Len(bd)
  BY BlocksOf
<1>4. DOMAIN ItemsOf(bd[b]) = 1..Len(bd[b].stmts) + 1
  BY <1>3, TermFacts, ItemFacts
<1>5. ItemAt(bd, loc) = ItemsOf(bd[b])[i]
  BY <1>2 DEF ItemAt
<1>6. QED
  BY <1>2, <1>3, <1>4, <1>5

-----------------------------------------------------------------------------
(* Projections.                                                             *)

Successors(bd, l) ==
    IF IsTerm(bd, l) THEN {<<t, 1>> : t \in ItemAt(bd, l).to} ELSE {<<l[1], l[2] + 1>>}
OneNext(bd, l) == \E x : Successors(bd, l) = {x}

(* An item, wherever it goes on to.                                         *)
Bared(bd, l) == IF IsTerm(bd, l) THEN [ItemAt(bd, l) EXCEPT !.to = {}] ELSE ItemAt(bd, l)
Own(bd, l) == ItemAt(bd, l).at # Nowhere

(* What an inserted item does.                                              *)
EffectAt(bd, l) == IF IsTerm(bd, l) THEN HookEffect(ItemAt(bd, l)) ELSE ItemAt(bd, l).effect

(* Item l of new is item m of bd and goes on to the same items; or it is    *)
(* inserted, and s counts down to the item it runs before.                  *)
Copied(new, l, bd, m, h) ==
    /\ IsTerm(new, l) <=> IsTerm(bd, m)
    /\ Bared(new, l) = Bared(bd, m)
    /\ {h[x] : x \in Successors(new, l)} = Successors(bd, m)
    /\ OneNext(bd, m) => OneNext(new, l)
Added(new, l, h, s) ==
    /\ ~Own(new, l) /\ OneNext(new, l)
    /\ \A x \in Successors(new, l) : h[x] = h[l] /\ s[x] < s[l]

Projects(new, bd, h, s) ==
    /\ h \in [Locations(new) -> Locations(bd)] /\ s \in [Locations(new) -> Nat]
    /\ \A l \in Locations(new) : Successors(new, l) \subseteq Locations(new)
    /\ \A l \in Locations(new) : Copied(new, l, bd, h[l], h) \/ Added(new, l, h, s)
    /\ \A m \in Locations(bd) : \E l \in Locations(new) : h[l] = m /\ Copied(new, l, bd, m, h)
    /\ \A k, l \in Locations(new) : Own(new, k) /\ Own(new, l) /\ h[k] = h[l] => k = l
    /\ Blocks(bd) \subseteq Blocks(new)
    /\ \A t \in Blocks(bd) : h[<<t, 1>>] = <<t, 1>>

LEMMA BaredFacts ==
    ASSUME NEW bd \in Body, NEW l \in Locations(bd)
    PROVE  /\ Bared(bd, l).at = ItemAt(bd, l).at
           /\ IsTerm(bd, l) => /\ ItemAt(bd, l) \in Terminator
                               /\ Bared(bd, l).unwind = ItemAt(bd, l).unwind
                               /\ Bared(bd, l).fn = ItemAt(bd, l).fn
                               /\ Bared(bd, l).of = ItemAt(bd, l).of
                               /\ Bared(bd, l).kind = ItemAt(bd, l).kind
<1> DEFINE item == ItemAt(bd, l)
<1>1. PICK b \in 1..Len(bd) : \E i \in 1..Len(bd[b].stmts) + 1 :
          l = <<b, i>> /\ item = ItemsOf(bd[b])[i]
  BY LocationsArePlaces
<1>2. PICK i \in 1..Len(bd[b].stmts) + 1 : l = <<b, i>> /\ item = ItemsOf(bd[b])[i]
  BY <1>1
<1>3. ASSUME IsTerm(bd, l) PROVE item \in Terminator
  <2>1. i = Len(bd[b].stmts) + 1
    BY <1>2, <1>3 DEF IsTerm
  <2>2. bd[b] \in BasicBlock
    BY TermFacts
  <2>3. QED
    BY <1>2, <2>1, <2>2, ItemFacts
<1> HIDE DEF item
<1>4. ASSUME item \in Terminator
      PROVE  LET new == [item EXCEPT !.to = {}] IN
             /\ new.at = item.at /\ new.unwind = item.unwind /\ new.fn = item.fn
             /\ new.of = item.of /\ new.kind = item.kind
  BY <1>4, Redirected
<1>5. QED
  BY <1>3, <1>4 DEF Bared, item

LEMMA SameOwner ==
    ASSUME NEW new \in Body, NEW bd \in Body, NEW l \in Locations(new), NEW m \in Locations(bd),
           Bared(new, l) = Bared(bd, m)
    PROVE  ItemAt(new, l).at = ItemAt(bd, m).at
BY BaredFacts

LEMMA Scaled ==
    ASSUME NEW K \in Nat, NEW r \in Nat, NEW q \in Nat, NEW a \in Nat, NEW b \in Nat,
           r < q, a < K
    PROVE  r * K + a < q * K + b /\ r * K + a \in Nat
<1>1. PICK d \in Nat : q = r + 1 + d
  <2>1. q - r - 1 \in Nat /\ q = r + 1 + (q - r - 1)
    OBVIOUS
  <2>2. QED
    BY <2>1
<1>2. q * K = r * K + K + d * K
  BY <1>1
<1>3. d * K \in Nat /\ r * K \in Nat
  OBVIOUS
<1>4. QED
  BY <1>2, <1>3

LEMMA Rescaled ==
    ASSUME NEW K \in Nat, NEW q \in Nat, NEW a \in Nat
    PROVE  q * K + a \in Nat
OBVIOUS

LEMMA ProjectsTwice ==
    ASSUME NEW new \in Body, NEW bd \in Body, NEW src \in Body, NEW g, NEW r, NEW h, NEW s,
           Projects(new, bd, g, r), Projects(bd, src, h, s),
           NEW K \in Nat, \A l \in Locations(new) : r[l] < K
    PROVE  Projects(new, src, [l \in Locations(new) |-> h[g[l]]],
                    [l \in Locations(new) |-> s[g[l]] * K + r[l]])
<1> DEFINE f == [l \in Locations(new) |-> h[g[l]]]
           u == [l \in Locations(new) |-> s[g[l]] * K + r[l]]
<1>1. /\ g \in [Locations(new) -> Locations(bd)] /\ r \in [Locations(new) -> Nat]
      /\ h \in [Locations(bd) -> Locations(src)] /\ s \in [Locations(bd) -> Nat]
  BY DEF Projects
<1>2. /\ f \in [Locations(new) -> Locations(src)]
      /\ \A l \in Locations(new) : f[l] = h[g[l]] /\ u[l] = s[g[l]] * K + r[l]
  BY <1>1
<1>3. u \in [Locations(new) -> Nat]
  <2>1. ASSUME NEW l \in Locations(new) PROVE s[g[l]] * K + r[l] \in Nat
    BY <1>1, Rescaled
  <2>2. QED
    BY <2>1
<1> HIDE DEF f, u
<1>4. \A l \in Locations(new) : Successors(new, l) \subseteq Locations(new)
  BY DEF Projects
<1>5. ASSUME NEW l \in Locations(new), Copied(new, l, bd, g[l], g),
             Copied(bd, g[l], src, h[g[l]], h)
      PROVE  Copied(new, l, src, f[l], f)
  <2>1. {f[x] : x \in Successors(new, l)} = {h[y] : y \in {g[x] : x \in Successors(new, l)}}
    BY <1>2, <1>4
  <2>2. {f[x] : x \in Successors(new, l)} = Successors(src, f[l])
    BY <1>2, <1>5, <2>1 DEF Copied
  <2>3. QED
    BY <1>2, <1>5, <2>2 DEF Copied
<1>6. ASSUME NEW l \in Locations(new), Copied(new, l, bd, g[l], g), Added(bd, g[l], h, s)
      PROVE  Added(new, l, f, u)
  <2>1. g[l] \in Locations(bd)
    BY <1>1
  <2>2. ~Own(new, l) /\ OneNext(new, l)
    BY <1>6, <2>1, SameOwner DEF Copied, Added, Own
  <2>3. ASSUME NEW x \in Successors(new, l) PROVE f[x] = f[l] /\ u[x] < u[l]
    <3>1. x \in Locations(new) /\ g[x] \in Locations(bd)
      BY <1>1, <1>4
    <3>2. g[x] \in Successors(bd, g[l])
      BY <1>6 DEF Copied
    <3>3. h[g[x]] = h[g[l]] /\ s[g[x]] < s[g[l]]
      BY <1>6, <3>2 DEF Added
    <3>4. /\ s[g[x]] \in Nat /\ s[g[l]] \in Nat /\ r[x] \in Nat /\ r[l] \in Nat /\ r[x] < K
      BY <1>1, <2>1, <3>1
    <3>5. s[g[x]] * K + r[x] < s[g[l]] * K + r[l]
      BY <3>3, <3>4, Scaled
    <3>6. QED
      BY <1>2, <3>1, <3>3, <3>5
  <2>4. QED
    BY <2>2, <2>3 DEF Added
<1>7. ASSUME NEW l \in Locations(new), Added(new, l, g, r)
      PROVE  Added(new, l, f, u)
  <2>1. ASSUME NEW x \in Successors(new, l) PROVE f[x] = f[l] /\ u[x] < u[l]
    <3>1. x \in Locations(new) /\ g[x] = g[l] /\ r[x] < r[l]
      BY <1>4, <1>7 DEF Added
    <3>2. r[x] \in Nat /\ r[l] \in Nat /\ s[g[l]] * K \in Nat
      <4>1. r[x] \in Nat /\ r[l] \in Nat /\ s[g[l]] \in Nat
        BY <1>1, <3>1
      <4>2. QED
        BY <4>1
    <3>3. QED
      BY <1>2, <3>1, <3>2
  <2>2. QED
    BY <1>7, <2>1 DEF Added
<1>8. \A l \in Locations(new) : Copied(new, l, src, f[l], f) \/ Added(new, l, f, u)
  <2>1. SUFFICES ASSUME NEW l \in Locations(new)
                 PROVE  Copied(new, l, src, f[l], f) \/ Added(new, l, f, u)
    OBVIOUS
  <2>2. g[l] \in Locations(bd)
    BY <1>1
  <2>3. /\ Copied(new, l, bd, g[l], g) \/ Added(new, l, g, r)
        /\ Copied(bd, g[l], src, h[g[l]], h) \/ Added(bd, g[l], h, s)
    BY <2>2 DEF Projects
  <2>4. QED
    BY <1>5, <1>6, <1>7, <2>3
<1>9. ASSUME NEW m \in Locations(src)
      PROVE  \E l \in Locations(new) : f[l] = m /\ Copied(new, l, src, m, f)
  <2>1. PICK k \in Locations(bd) : h[k] = m /\ Copied(bd, k, src, m, h)
    BY DEF Projects
  <2>2. PICK l \in Locations(new) : g[l] = k /\ Copied(new, l, bd, k, g)
    BY DEF Projects
  <2>3. QED
    BY <1>2, <1>5, <2>1, <2>2
<1>10. ASSUME NEW k \in Locations(new), NEW l \in Locations(new), Own(new, k), Own(new, l),
              f[k] = f[l]
       PROVE  k = l
  <2>1. ASSUME NEW x \in Locations(new), Own(new, x) PROVE Own(bd, g[x]) /\ g[x] \in Locations(bd)
    <3>1. g[x] \in Locations(bd) /\ Copied(new, x, bd, g[x], g)
      BY <1>1, <2>1 DEF Projects, Added
    <3>2. QED
      BY <2>1, <3>1, SameOwner DEF Copied, Own
  <2>2. g[k] = g[l]
    BY <1>2, <1>10, <2>1 DEF Projects
  <2>3. QED
    BY <1>10, <2>2 DEF Projects
<1>11. /\ Blocks(src) \subseteq Blocks(new)
       /\ \A t \in Blocks(src) : f[<<t, 1>>] = <<t, 1>>
  <2>1. Blocks(src) \subseteq Blocks(bd) /\ Blocks(bd) \subseteq Blocks(new)
    BY DEF Projects
  <2>2. ASSUME NEW t \in Blocks(src) PROVE f[<<t, 1>>] = <<t, 1>>
    <3>1. <<t, 1>> \in Locations(new)
      <4>1. t \in 1..Len(new)
        BY <2>1, BlocksOf
      <4>2. new[t] \in BasicBlock
        BY <4>1, TermFacts
      <4>3. 1 \in 1..Len(new[t].stmts) + 1
        BY <4>2, ItemFacts
      <4>4. QED
        BY <4>1, <4>3, PlacesAreLocations
    <3>2. t \in Blocks(bd)
      BY <2>1
    <3>3. QED
      BY <1>2, <3>1, <3>2, Zenon DEF Projects
  <2>3. QED
    BY <2>1, <2>2
<1>12. Projects(new, src, f, u)
  BY <1>2, <1>3, <1>4, <1>8, <1>9, <1>10, <1>11 DEF Projects
<1>13. QED
  BY <1>12 DEF f, u

Bounded(new, s) == \E K \in Nat : \A l \in Locations(new) : s[l] < K

(* Every edit, and every sequence of edits, is one of these.                *)
Projected(new, bd) ==
    \E h, s : /\ Projects(new, bd, h, s)
              /\ \E K \in Nat : \A l \in Locations(new) : s[l] < K

LEMMA ProjectedTwice ==
    ASSUME NEW new \in Body, NEW bd \in Body, NEW src \in Body,
           Projected(new, bd), Projected(bd, src)
    PROVE  Projected(new, src)
<1>1. PICK g, r : /\ Projects(new, bd, g, r)
                  /\ \E K \in Nat : \A l \in Locations(new) : r[l] < K
  BY DEF Projected
<1>2. PICK K \in Nat : \A l \in Locations(new) : r[l] < K
  BY <1>1
<1>3. PICK h, s : /\ Projects(bd, src, h, s)
                  /\ \E Q \in Nat : \A l \in Locations(bd) : s[l] < Q
  BY DEF Projected
<1>4. PICK Q \in Nat : \A l \in Locations(bd) : s[l] < Q
  BY <1>3
<1> DEFINE f == [l \in Locations(new) |-> h[g[l]]]
           u == [l \in Locations(new) |-> s[g[l]] * K + r[l]]
<1>5. Projects(new, src, f, u)
  BY <1>1, <1>2, <1>3, ProjectsTwice
<1>6. ASSUME NEW l \in Locations(new) PROVE u[l] < Q * K
  <2>1. g[l] \in Locations(bd) /\ r[l] \in Nat /\ s[g[l]] \in Nat
    BY <1>1, <1>3 DEF Projects
  <2>2. s[g[l]] * K + r[l] < Q * K + 0
    BY <1>2, <1>4, <2>1, Scaled, Zenon
  <2>3. QED
    BY <2>2
<1>7. Q * K \in Nat
  OBVIOUS
<1> HIDE DEF f, u
<1>8. QED
  BY <1>5, <1>6, <1>7 DEF Projected

-----------------------------------------------------------------------------
(* What a projection onto an unedited body says of the user's program.      *)

LEMMA OwnIsCopied ==
    ASSUME NEW bd \in Body, NEW src \in Body, Tagged(src), NEW h, NEW s,
           Projects(bd, src, h, s), NEW l \in Locations(bd)
    PROVE  /\ h[l] \in Locations(src)
           /\ Own(bd, l) <=> Copied(bd, l, src, h[l], h)
           /\ Own(bd, l) => ItemAt(bd, l).at = h[l]
           /\ ~Own(bd, l) => Added(bd, l, h, s)
<1>1. h[l] \in Locations(src) /\ (Copied(bd, l, src, h[l], h) \/ Added(bd, l, h, s))
  BY DEF Projects
<1>2. h[l] # Nowhere
  BY <1>1, LocationsArePlaces, SMTT(30) DEF Nowhere
<1>3. ItemAt(src, h[l]).at = h[l]
  BY <1>1 DEF Tagged
<1>4. ASSUME Copied(bd, l, src, h[l], h) PROVE Own(bd, l) /\ ItemAt(bd, l).at = h[l]
  <2>1. ItemAt(bd, l).at = ItemAt(src, h[l]).at
    BY <1>1, <1>4, SameOwner DEF Copied
  <2>2. QED
    BY <1>2, <1>3, <2>1 DEF Own
<1>5. Added(bd, l, h, s) => ~Own(bd, l)
  BY DEF Added
<1>6. QED
  BY <1>1, <1>4, <1>5

(* Reach of any body, one step of it.                                       *)
After(f, effect, next) == [f[next] EXCEPT !.effects = <<effect>> \o @]
ReachStep(bd, f, loc) ==
    IF ItemAt(bd, loc).at # Nowhere THEN [to |-> ItemAt(bd, loc).at, effects |-> <<>>]
    ELSE IF IsTerm(bd, loc)
      THEN After(f, HookEffect(ItemAt(bd, loc)),
                 <<CHOOSE t \in ItemAt(bd, loc).to : TRUE, 1>>)
    ELSE After(f, ItemAt(bd, loc).effect, <<loc[1], loc[2] + 1>>)

LEMMA ReachIsChosen ==
    ASSUME NEW bd
    PROVE  Reach(bd) = CHOOSE f : f = [loc \in Locations(bd) |-> ReachStep(bd, f, loc)]
BY DEF Reach, ReachStep, After

(* Where ReachStep looks on.                                                *)
Onward(bd, loc) ==
    IF IsTerm(bd, loc) THEN <<CHOOSE t \in ItemAt(bd, loc).to : TRUE, 1>>
                       ELSE <<loc[1], loc[2] + 1>>

LEMMA StepLooksOnward ==
    ASSUME NEW bd, NEW loc, NEW f, NEW g, f[Onward(bd, loc)] = g[Onward(bd, loc)]
    PROVE  ReachStep(bd, f, loc) = ReachStep(bd, g, loc)
<1>1. ASSUME NEW effect
      PROVE  After(f, effect, Onward(bd, loc)) = After(g, effect, Onward(bd, loc))
  BY DEF After
<1>2. CASE ItemAt(bd, loc).at # Nowhere
  BY <1>2 DEF ReachStep
<1>3. CASE ItemAt(bd, loc).at = Nowhere /\ IsTerm(bd, loc)
  BY <1>1, <1>3 DEF ReachStep, Onward
<1>4. CASE ItemAt(bd, loc).at = Nowhere /\ ~IsTerm(bd, loc)
  BY <1>1, <1>4 DEF ReachStep, Onward
<1>5. QED
  BY <1>2, <1>3, <1>4

LEMMA OnwardIsNext ==
    ASSUME NEW bd, NEW loc, OneNext(bd, loc)
    PROVE  Onward(bd, loc) \in Successors(bd, loc)
<1>1. CASE IsTerm(bd, loc)
  <2>1. PICK x : {<<t, 1>> : t \in ItemAt(bd, loc).to} = {x}
    BY <1>1 DEF OneNext, Successors
  <2>2. \E t : t \in ItemAt(bd, loc).to
    BY <2>1
  <2>3. (CHOOSE t \in ItemAt(bd, loc).to : TRUE) \in ItemAt(bd, loc).to
    BY <2>2
  <2>4. QED
    BY <1>1, <2>3 DEF Onward, Successors
<1>2. CASE ~IsTerm(bd, loc)
  BY <1>2 DEF Onward, Successors
<1>3. QED
  BY <1>1, <1>2

(* The recursion is well-founded: s counts down along it.                   *)
Settled(bd, f, s, n) ==
    \A loc \in Locations(bd) : s[loc] < n => f[loc] = ReachStep(bd, f, loc)

LEMMA ReachExists ==
    ASSUME NEW bd \in Body, NEW src \in Body, Tagged(src), NEW h, NEW s,
           Projects(bd, src, h, s), NEW K \in Nat, \A l \in Locations(bd) : s[l] < K
    PROVE  \E f : f = [loc \in Locations(bd) |-> ReachStep(bd, f, loc)]
<1>1. s \in [Locations(bd) -> Nat]
  BY DEF Projects
<1>2. ASSUME NEW loc \in Locations(bd), ~Own(bd, loc)
      PROVE  Onward(bd, loc) \in Locations(bd) /\ s[Onward(bd, loc)] < s[loc]
  <2>1. Added(bd, loc, h, s)
    BY <1>2, OwnIsCopied
  <2>2. Onward(bd, loc) \in Successors(bd, loc)
    BY <2>1, OnwardIsNext DEF Added
  <2>3. QED
    BY <2>1, <2>2 DEF Added, Projects
<1>3. ASSUME NEW loc \in Locations(bd), Own(bd, loc), NEW f, NEW g
      PROVE  ReachStep(bd, f, loc) = ReachStep(bd, g, loc)
  BY <1>3 DEF ReachStep, Own
<1> DEFINE P(n) == \E f : DOMAIN f = Locations(bd) /\ Settled(bd, f, s, n)
           S == {n \in Nat : P(n)}
<1>4. 0 \in S
  <2> DEFINE f == [loc \in Locations(bd) |-> 0]
  <2>1. Settled(bd, f, s, 0)
    <3>1. \A loc \in Locations(bd) : ~(s[loc] < 0)
      BY <1>1
    <3>2. QED
      BY <3>1 DEF Settled
  <2>2. DOMAIN f = Locations(bd)
    OBVIOUS
  <2>3. QED
    BY <2>1, <2>2
<1>5. ASSUME NEW n \in Nat, P(n) PROVE P(n + 1)
  <2>1. PICK f : DOMAIN f = Locations(bd) /\ Settled(bd, f, s, n)
    BY <1>5
  <2> DEFINE g == [loc \in Locations(bd) |->
                     IF s[loc] < n THEN f[loc] ELSE ReachStep(bd, f, loc)]
  <2>2. \A loc \in Locations(bd) :
          g[loc] = IF s[loc] < n THEN f[loc] ELSE ReachStep(bd, f, loc)
    OBVIOUS
  <2>3. DOMAIN g = Locations(bd)
    OBVIOUS
  <2> HIDE DEF g
  <2>4. \A loc \in Locations(bd) : g[loc] = ReachStep(bd, f, loc) \/ ~(s[loc] < n + 1)
    BY <2>1, <2>2 DEF Settled
  <2>5. ASSUME NEW loc \in Locations(bd), s[loc] < n + 1
        PROVE  ReachStep(bd, f, loc) = ReachStep(bd, g, loc)
    <3>1. CASE Own(bd, loc)
      BY <1>3, <3>1
    <3>2. CASE ~Own(bd, loc)
      <4>1. Onward(bd, loc) \in Locations(bd) /\ s[Onward(bd, loc)] < s[loc]
        BY <1>2, <3>2
      <4>2. s[Onward(bd, loc)] \in Nat /\ s[loc] \in Nat
        BY <1>1, <4>1
      <4>3. s[Onward(bd, loc)] < n
        BY <2>5, <4>1, <4>2
      <4>4. g[Onward(bd, loc)] = f[Onward(bd, loc)]
        BY <2>2, <4>1, <4>3
      <4>5. QED
        BY <4>4, StepLooksOnward
    <3>3. QED
      BY <3>1, <3>2
  <2>6. Settled(bd, g, s, n + 1)
    BY <2>4, <2>5 DEF Settled
  <2>7. QED
    BY <2>3, <2>6
<1>6. P(K)
  <2>1. \A n \in Nat : n \in S => n + 1 \in S
    BY <1>5
  <2> HIDE DEF P
  <2>2. S \in SUBSET Nat
    OBVIOUS
  <2> HIDE DEF S
  <2>3. K \in S
    BY <1>4, <2>1, <2>2, SetInduction
  <2>4. QED
    BY <2>3 DEF S
<1>7. PICK f : DOMAIN f = Locations(bd) /\ Settled(bd, f, s, K)
  BY <1>6
<1> DEFINE e == [loc \in Locations(bd) |-> ReachStep(bd, f, loc)]
<1>8. \A loc \in Locations(bd) : e[loc] = f[loc]
  BY <1>7 DEF Settled
<1>9. \A loc \in Locations(bd) : ReachStep(bd, f, loc) = ReachStep(bd, e, loc)
  <2>1. SUFFICES ASSUME NEW loc \in Locations(bd)
                 PROVE  ReachStep(bd, f, loc) = ReachStep(bd, e, loc)
    OBVIOUS
  <2> HIDE DEF e
  <2>2. CASE Own(bd, loc)
    BY <1>3, <2>2
  <2>3. CASE ~Own(bd, loc)
    <3>1. e[Onward(bd, loc)] = f[Onward(bd, loc)]
      BY <1>2, <1>8, <2>3
    <3>2. QED
      BY <3>1, StepLooksOnward
  <2>4. QED
    BY <2>2, <2>3
<1>10. e = [loc \in Locations(bd) |-> ReachStep(bd, e, loc)]
  BY <1>9
<1>11. QED
  BY <1>10, Zenon

LEMMA ReachEquations ==
    ASSUME NEW bd \in Body, NEW src \in Body, Tagged(src), NEW h, NEW s,
           Projects(bd, src, h, s), NEW K \in Nat, \A l \in Locations(bd) : s[l] < K
    PROVE  \A loc \in Locations(bd) : Reach(bd)[loc] = ReachStep(bd, Reach(bd), loc)
<1>1. \E f : f = [loc \in Locations(bd) |-> ReachStep(bd, f, loc)]
  BY ReachExists
<1>2. Reach(bd) = [loc \in Locations(bd) |-> ReachStep(bd, Reach(bd), loc)]
  BY <1>1, ReachIsChosen
<1>3. QED
  BY <1>2

(* What is reached first is the item the location is projected to.          *)
Arrived(reached, to) == DOMAIN reached = {"to", "effects"} /\ reached.to = to

LEMMA AfterArrived ==
    ASSUME NEW f, NEW effect, NEW next, NEW to, Arrived(f[next], to)
    PROVE  Arrived(After(f, effect, next), to)
BY DEF Arrived, After

LEMMA ReachesItem ==
    ASSUME NEW bd \in Body, NEW src \in Body, Tagged(src), NEW h, NEW s,
           Projects(bd, src, h, s), NEW K \in Nat, \A l \in Locations(bd) : s[l] < K
    PROVE  \A l \in Locations(bd) : Arrived(Reach(bd)[l], h[l])
<1> DEFINE reach == Reach(bd)
           S == {n \in Nat : \A l \in Locations(bd) : s[l] < n => Arrived(reach[l], h[l])}
<1>1. s \in [Locations(bd) -> Nat]
  BY DEF Projects
<1>2. \A loc \in Locations(bd) : reach[loc] = ReachStep(bd, reach, loc)
  BY ReachEquations
<1> HIDE DEF reach
<1>3. 0 \in S
  BY <1>1
<1>4. ASSUME NEW n \in Nat, n \in S PROVE n + 1 \in S
  <2>1. SUFFICES ASSUME NEW l \in Locations(bd), s[l] < n + 1
                 PROVE  Arrived(reach[l], h[l])
    OBVIOUS
  <2>2. CASE Own(bd, l)
    <3>1. ItemAt(bd, l).at # Nowhere /\ ItemAt(bd, l).at = h[l]
      BY <2>2, OwnIsCopied DEF Own
    <3>2. reach[l] = [to |-> h[l], effects |-> <<>>]
      BY <1>2, <3>1, Zenon DEF ReachStep
    <3>3. QED
      BY <3>2 DEF Arrived
  <2>3. CASE ~Own(bd, l)
    <3>1. Added(bd, l, h, s) /\ ItemAt(bd, l).at = Nowhere
      BY <2>3, OwnIsCopied DEF Own
    <3>2. Onward(bd, l) \in Successors(bd, l)
      BY <3>1, OnwardIsNext DEF Added
    <3>3. /\ Onward(bd, l) \in Locations(bd)
          /\ h[Onward(bd, l)] = h[l] /\ s[Onward(bd, l)] < s[l]
      BY <3>1, <3>2 DEF Added, Projects
    <3>4. s[Onward(bd, l)] < n
      <4>1. s[Onward(bd, l)] \in Nat /\ s[l] \in Nat
        BY <1>1, <3>3
      <4>2. QED
        BY <2>1, <3>3, <4>1
    <3>5. Arrived(reach[Onward(bd, l)], h[l])
      BY <1>4, <3>3, <3>4
    <3>6. \E effect : reach[l] = After(reach, effect, Onward(bd, l))
      <4>1. reach[l] = ReachStep(bd, reach, l)
        BY <1>2
      <4>2. QED
        BY <3>1, <4>1, Zenon DEF ReachStep, Onward
    <3>7. QED
      BY <3>5, <3>6, AfterArrived
  <2>4. QED
    BY <2>2, <2>3
<1>5. \A n \in Nat : n \in S => n + 1 \in S
  BY <1>4
<1>6. S \in SUBSET Nat
  OBVIOUS
<1>7. K \in S
  <2> HIDE DEF S
  <2>1. QED
    BY <1>3, <1>5, <1>6, SetInduction
<1>8. QED
  BY <1>7 DEF reach

(* The bare edges of a body, from the body alone.                           *)
BareEdge(from, how, to) == [from |-> from, how |-> how, to |-> to]
FlowFrom(src, m) ==
    {BareEdge(m, "normal", x) : x \in Successors(src, m)} \cup
    (IF IsTerm(src, m) /\ ItemAt(src, m).unwind.act = "cleanup"
       THEN {BareEdge(m, "unwind", <<ItemAt(src, m).unwind.block, 1>>)} ELSE {})
Flow(src) ==
    {BareEdge(Nowhere, "start", <<1, 1>>)} \cup UNION {FlowFrom(src, m) : m \in Locations(src)}

(* Those of an edited one, from its locations.                              *)
EdgesAt(bd, loc) ==
    IF ItemAt(bd, loc).at = Nowhere THEN {}
    ELSE IF ~IsTerm(bd, loc)
      THEN {Edge(ItemAt(bd, loc).at, "normal", Reach(bd)[<<loc[1], loc[2] + 1>>])}
    ELSE {Edge(ItemAt(bd, loc).at, "normal", Reach(bd)[<<t, 1>>]) : t \in ItemAt(bd, loc).to} \cup
         (IF ItemAt(bd, loc).unwind.act = "cleanup"
            THEN {Edge(ItemAt(bd, loc).at, "unwind", Reach(bd)[<<ItemAt(bd, loc).unwind.block, 1>>])}
            ELSE {})

LEMMA EdgesFromLocations ==
    ASSUME NEW bd
    PROVE  Edges(bd) = {Edge(Nowhere, "start", Reach(bd)[<<1, 1>>])} \cup
                       UNION {EdgesAt(bd, loc) : loc \in Locations(bd)}
BY DEF Edges, EdgesAt

LEMMA BareOf ==
    ASSUME NEW from, NEW how, NEW reached, NEW to, Arrived(reached, to)
    PROVE  LET e == Edge(from, how, reached) IN
           BareEdge(e.from, e.how, e.to) = BareEdge(from, how, to)
BY DEF Edge, Arrived, BareEdge

LEMMA BareFacts ==
    ASSUME NEW X, NEW Y
    PROVE  /\ Bare(X) = {BareEdge(e.from, e.how, e.to) : e \in X}
           /\ Bare(X \cup Y) = Bare(X) \cup Bare(Y)
           /\ Bare({}) = {}
BY DEF Bare, BareEdge

LEMMA BareEdgesAt ==
    ASSUME NEW bd \in Body, NEW src \in Body, Tagged(src), WellFormed(src), NEW h, NEW s,
           Projects(bd, src, h, s), NEW K \in Nat, \A l \in Locations(bd) : s[l] < K,
           NEW l \in Locations(bd), Own(bd, l)
    PROVE  Bare(EdgesAt(bd, l)) = FlowFrom(src, h[l])
<1> DEFINE m == h[l]
           item == ItemAt(bd, l)
<1>1. /\ m \in Locations(src) /\ Copied(bd, l, src, m, h) /\ item.at = m /\ item.at # Nowhere
  BY OwnIsCopied DEF Own
<1>2. \A x \in Locations(bd) : Arrived(Reach(bd)[x], h[x])
  BY ReachesItem
<1>3. Successors(bd, l) \subseteq Locations(bd)
  BY DEF Projects
<1> HIDE DEF m
<1>4. {h[x] : x \in Successors(bd, l)} = Successors(src, m) /\ (IsTerm(bd, l) <=> IsTerm(src, m))
  BY <1>1 DEF Copied
<1> DEFINE normal == {Edge(m, "normal", Reach(bd)[x]) : x \in Successors(bd, l)}
<1>5. Bare(normal) = {BareEdge(m, "normal", y) : y \in Successors(src, m)}
  <2>1. \A x \in Successors(bd, l) :
          LET e == Edge(m, "normal", Reach(bd)[x])
          IN  BareEdge(e.from, e.how, e.to) = BareEdge(m, "normal", h[x])
    BY <1>2, <1>3, BareOf
  <2>2. Bare(normal) = {LET e == Edge(m, "normal", Reach(bd)[x])
                        IN  BareEdge(e.from, e.how, e.to) : x \in Successors(bd, l)}
    BY BareFacts
  <2>3. Bare(normal) = {BareEdge(m, "normal", h[x]) : x \in Successors(bd, l)}
    BY <2>1, <2>2
  <2>4. QED
    BY <1>4, <2>3
<1>6. CASE ~IsTerm(bd, l)
  <2>1. EdgesAt(bd, l) = normal
    BY <1>1, <1>6 DEF EdgesAt, Successors
  <2>2. FlowFrom(src, m) = {BareEdge(m, "normal", y) : y \in Successors(src, m)}
    BY <1>4, <1>6 DEF FlowFrom
  <2>3. QED
    BY <1>5, <2>1, <2>2 DEF m
<1>7. CASE IsTerm(bd, l)
  <2>1. item.unwind = ItemAt(src, m).unwind
    BY <1>1, <1>7, BaredFacts DEF Copied
  <2> DEFINE unwind == ItemAt(src, m).unwind
             out == IF unwind.act = "cleanup"
                      THEN {Edge(m, "unwind", Reach(bd)[<<unwind.block, 1>>])} ELSE {}
  <2>2. EdgesAt(bd, l) = normal \cup out
    <3>1. {Edge(m, "normal", Reach(bd)[<<t, 1>>]) : t \in item.to} = normal
      BY <1>7, Zenon DEF Successors
    <3>2. QED
      BY <1>1, <1>7, <2>1, <3>1, Zenon DEF EdgesAt
  <2>3. Bare(out) = IF unwind.act = "cleanup"
                      THEN {BareEdge(m, "unwind", <<unwind.block, 1>>)} ELSE {}
    <3>1. CASE unwind.act = "cleanup"
      <4>1. unwind.block \in Blocks(src)
        <5>1. PICK b \in 1..Len(src) : \E i \in 1..Len(src[b].stmts) + 1 :
                  m = <<b, i>> /\ ItemAt(src, m) = ItemsOf(src[b])[i]
          BY <1>1, LocationsArePlaces
        <5>2. PICK i \in 1..Len(src[b].stmts) + 1 :
                  m = <<b, i>> /\ ItemAt(src, m) = ItemsOf(src[b])[i]
          BY <5>1
        <5>3. i = Len(src[b].stmts) + 1
          BY <1>4, <1>7, <5>2 DEF IsTerm
        <5>4. ItemAt(src, m) = src[b].term
          BY <5>2, <5>3, TermFacts, ItemFacts
        <5>5. b \in Blocks(src)
          BY BlocksOf
        <5>6. QED
          BY <3>1, <5>4, <5>5 DEF WellFormed
      <4>2. /\ h[<<unwind.block, 1>>] = <<unwind.block, 1>>
            /\ <<unwind.block, 1>> \in Locations(bd)
        <5>1. unwind.block \in Blocks(bd) /\ h[<<unwind.block, 1>>] = <<unwind.block, 1>>
          BY <4>1 DEF Projects
        <5>2. unwind.block \in 1..Len(bd)
          BY <5>1, BlocksOf
        <5>3. 1 \in 1..Len(bd[unwind.block].stmts) + 1
          BY <5>2, TermFacts, ItemFacts
        <5>4. QED
          BY <5>1, <5>2, <5>3, PlacesAreLocations
      <4>3. Arrived(Reach(bd)[<<unwind.block, 1>>], <<unwind.block, 1>>)
        BY <1>2, <4>2
      <4>4. out = {Edge(m, "unwind", Reach(bd)[<<unwind.block, 1>>])}
        BY <3>1
      <4>5. \A e : Bare({e}) = {BareEdge(e.from, e.how, e.to)}
        BY BareFacts
      <4> HIDE DEF unwind, out
      <4>6. QED
        BY <3>1, <4>3, <4>4, <4>5, BareOf
    <3>2. CASE unwind.act # "cleanup"
      BY <3>2, BareFacts
    <3>3. QED
      BY <3>1, <3>2
  <2>4. FlowFrom(src, m) = {BareEdge(m, "normal", y) : y \in Successors(src, m)} \cup Bare(out)
    BY <1>4, <1>7, <2>3 DEF FlowFrom
  <2> HIDE DEF normal, out
  <2>5. QED
    BY <1>5, <2>2, <2>4, BareFacts DEF m
<1>8. QED
  BY <1>6, <1>7

LEMMA BareEdges ==
    ASSUME NEW bd \in Body, NEW src \in Body, Tagged(src), WellFormed(src), Projected(bd, src)
    PROVE  Bare(Edges(bd)) = Flow(src)
<1>1. PICK h, s : /\ Projects(bd, src, h, s)
                  /\ \E K \in Nat : \A l \in Locations(bd) : s[l] < K
  BY DEF Projected
<1>2. PICK K \in Nat : \A l \in Locations(bd) : s[l] < K
  BY <1>1
<1> DEFINE start == Edge(Nowhere, "start", Reach(bd)[<<1, 1>>])
           rest == UNION {EdgesAt(bd, l) : l \in Locations(bd)}
<1>3. Bare({start}) = {BareEdge(Nowhere, "start", <<1, 1>>)}
  <2>1. 1 \in Blocks(src)
    <3>1. Len(src) # 0
      BY DEF WellFormed, Body
    <3>2. QED
      BY <3>1, BlocksOf
  <2>2. 1 \in Blocks(bd) /\ h[<<1, 1>>] = <<1, 1>>
    BY <1>1, <2>1 DEF Projects
  <2>3. <<1, 1>> \in Locations(bd)
    <3>1. 1 \in 1..Len(bd)
      BY <2>2, BlocksOf
    <3>2. 1 \in 1..Len(bd[1].stmts) + 1
      BY <3>1, TermFacts, ItemFacts
    <3>3. QED
      BY <3>1, <3>2, PlacesAreLocations
  <2>4. Arrived(Reach(bd)[<<1, 1>>], <<1, 1>>)
    BY <1>1, <1>2, <2>2, <2>3, ReachesItem
  <2>5. \A e : Bare({e}) = {BareEdge(e.from, e.how, e.to)}
    BY BareFacts
  <2>6. QED
    BY <2>4, <2>5, BareOf
<1>4. \A l \in Locations(bd) : Own(bd, l) => Bare(EdgesAt(bd, l)) = FlowFrom(src, h[l])
  BY <1>1, <1>2, BareEdgesAt
<1>5. \A l \in Locations(bd) : ~Own(bd, l) => EdgesAt(bd, l) = {}
  BY DEF Own, EdgesAt
<1>6. Bare(rest) = UNION {FlowFrom(src, m) : m \in Locations(src)}
  <2>1. ASSUME NEW e \in rest
        PROVE  \E m \in Locations(src) : BareEdge(e.from, e.how, e.to) \in FlowFrom(src, m)
    <3>1. PICK l \in Locations(bd) : e \in EdgesAt(bd, l)
      BY <2>1
    <3>2. Own(bd, l)
      BY <1>5, <3>1
    <3>3. h[l] \in Locations(src)
      BY <1>1, OwnIsCopied
    <3>4. BareEdge(e.from, e.how, e.to) \in Bare(EdgesAt(bd, l))
      BY <3>1, BareFacts
    <3>5. QED
      BY <1>4, <3>2, <3>3, <3>4
  <2>2. ASSUME NEW m \in Locations(src), NEW x \in FlowFrom(src, m)
        PROVE  \E e \in rest : x = BareEdge(e.from, e.how, e.to)
    <3>1. PICK l \in Locations(bd) : h[l] = m /\ Copied(bd, l, src, m, h)
      BY <1>1 DEF Projects
    <3>2. Own(bd, l)
      BY <1>1, <3>1, OwnIsCopied
    <3>3. x \in Bare(EdgesAt(bd, l))
      BY <1>4, <3>1, <3>2
    <3>4. PICK e \in EdgesAt(bd, l) : x = BareEdge(e.from, e.how, e.to)
      BY <3>3, BareFacts
    <3>5. QED
      BY <3>4
  <2>3. Bare(rest) = {BareEdge(e.from, e.how, e.to) : e \in rest}
    BY BareFacts
  <2> HIDE DEF rest
  <2>4. QED
    BY <2>1, <2>2, <2>3
<1>7. Edges(bd) = {start} \cup rest
  BY EdgesFromLocations
<1> HIDE DEF start, rest
<1>8. Bare(Edges(bd)) = Bare({start}) \cup Bare(rest)
  BY <1>7, BareFacts
<1>9. QED
  BY <1>3, <1>6, <1>8, Zenon DEF Flow

LEMMA FirstItem ==
    ASSUME NEW bd \in Body, NEW t \in Blocks(bd)
    PROVE  <<t, 1>> \in Locations(bd)
<1>1. t \in 1..Len(bd)
  BY BlocksOf
<1>2. 1 \in 1..Len(bd[t].stmts) + 1
  BY <1>1, TermFacts, ItemFacts
<1>3. QED
  BY <1>1, <1>2, PlacesAreLocations

(* The place and the item of a location.                                    *)
LEMMA PlaceOf ==
    ASSUME NEW bd \in Body, NEW l \in Locations(bd)
    PROVE  /\ l = <<l[1], l[2]>> /\ l[1] \in 1..Len(bd) /\ l[2] \in 1..Len(bd[l[1]].stmts) + 1
           /\ Len(bd[l[1]].stmts) \in Nat
           /\ IsTerm(bd, l) => /\ ItemAt(bd, l) = bd[l[1]].term
                               /\ l[2] = Len(bd[l[1]].stmts) + 1
           /\ ~IsTerm(bd, l) => /\ l[2] \in 1..Len(bd[l[1]].stmts)
                                /\ ItemAt(bd, l) = bd[l[1]].stmts[l[2]]
<1>1. PICK b \in 1..Len(bd) : \E i \in 1..Len(bd[b].stmts) + 1 :
          l = <<b, i>> /\ ItemAt(bd, l) = ItemsOf(bd[b])[i]
  BY LocationsArePlaces
<1>2. PICK i \in 1..Len(bd[b].stmts) + 1 : l = <<b, i>> /\ ItemAt(bd, l) = ItemsOf(bd[b])[i]
  BY <1>1
<1>3. l = <<l[1], l[2]>> /\ l[1] = b /\ l[2] = i
  BY <1>2
<1>4. bd[b] \in BasicBlock /\ Len(bd[b].stmts) \in Nat
  BY TermFacts, ItemFacts
<1>5. IsTerm(bd, l) <=> i = Len(bd[b].stmts) + 1
  BY <1>3 DEF IsTerm
<1>6. IsTerm(bd, l) => ItemAt(bd, l) = bd[b].term
  BY <1>2, <1>4, <1>5, ItemFacts
<1>7. ~IsTerm(bd, l) => i \in 1..Len(bd[b].stmts)
  <2>1. i \in 1..Len(bd[b].stmts) + 1 /\ Len(bd[b].stmts) \in Nat
    BY <1>4
  <2>2. QED
    BY <1>5, <2>1
<1>8. ~IsTerm(bd, l) => ItemAt(bd, l) = bd[b].stmts[i]
  BY <1>2, <1>4, <1>7, ItemFacts
<1>9. QED
  BY <1>2, <1>3, <1>4, <1>5, <1>6, <1>7, <1>8

(* Targets are blocks, so what comes next is an item of the body.           *)
Targeted(bd) == \A b \in Blocks(bd) : bd[b].term.to \subseteq Blocks(bd)

LEMMA NextIsThere ==
    ASSUME NEW bd \in Body, Targeted(bd), NEW l \in Locations(bd)
    PROVE  Successors(bd, l) \subseteq Locations(bd)
<1>1. CASE IsTerm(bd, l)
  <2>1. ItemAt(bd, l) = bd[l[1]].term /\ l[1] \in Blocks(bd)
    BY <1>1, PlaceOf, BlocksOf
  <2>2. ItemAt(bd, l).to \subseteq Blocks(bd)
    BY <2>1 DEF Targeted
  <2>3. QED
    BY <1>1, <2>2, FirstItem DEF Successors
<1>2. CASE ~IsTerm(bd, l)
  <2>1. /\ l[1] \in 1..Len(bd) /\ l[2] \in 1..Len(bd[l[1]].stmts)
        /\ Len(bd[l[1]].stmts) \in Nat
    BY <1>2, PlaceOf
  <2>2. l[2] + 1 \in 1..Len(bd[l[1]].stmts) + 1
    BY <2>1
  <2>3. <<l[1], l[2] + 1>> \in Locations(bd)
    BY <2>1, <2>2, PlacesAreLocations
  <2>4. QED
    BY <1>2, <2>3 DEF Successors
<1>3. QED
  BY <1>1, <1>2

LEMMA ProjectedToItself ==
    ASSUME NEW bd \in Body, Targeted(bd)
    PROVE  Projected(bd, bd)
<1> DEFINE h == [l \in Locations(bd) |-> l]
           s == [l \in Locations(bd) |-> 0]
<1>1. /\ h \in [Locations(bd) -> Locations(bd)] /\ s \in [Locations(bd) -> Nat]
      /\ \A l \in Locations(bd) : h[l] = l /\ s[l] = 0
  OBVIOUS
<1> HIDE DEF h, s
<1>2. \A l \in Locations(bd) : Successors(bd, l) \subseteq Locations(bd)
  BY NextIsThere
<1>3. ASSUME NEW l \in Locations(bd) PROVE Copied(bd, l, bd, l, h)
  <2>1. {h[x] : x \in Successors(bd, l)} = Successors(bd, l)
    BY <1>1, <1>2
  <2>2. QED
    BY <2>1 DEF Copied
<1>4. Projects(bd, bd, h, s)
  BY <1>1, <1>2, <1>3, FirstItem DEF Projects
<1>5. \A l \in Locations(bd) : s[l] < 1
  BY <1>1
<1>6. QED
  BY <1>4, <1>5 DEF Projected

LEMMA FinitelyMany ==
    ASSUME NEW bd \in Body
    PROVE  IsFiniteSet(Locations(bd))
<1> DEFINE inBlock(b) == {<<b, i>> : i \in DOMAIN ItemsOf(bd[b])}
           S == {inBlock(b) : b \in Blocks(bd)}
<1>1. IsFiniteSet(S)
  <2> DEFINE f == [b \in 1..Len(bd) |-> inBlock(b)]
  <2>1. Blocks(bd) = 1..Len(bd) /\ Len(bd) \in Nat
    BY BlocksOf
  <2>2. f \in Surjection(1..Len(bd), S)
    BY <2>1, Zenon DEF Surjection
  <2>3. IsFiniteSet(1..Len(bd))
    BY <2>1, FS_Interval
  <2>4. QED
    BY <2>2, <2>3, FS_Surjection
<1>2. ASSUME NEW b \in Blocks(bd) PROVE IsFiniteSet(inBlock(b))
  <2>1. b \in 1..Len(bd)
    BY BlocksOf
  <2> DEFINE n == Len(bd[b].stmts) + 1
  <2>2. DOMAIN ItemsOf(bd[b]) = 1..n /\ n \in Nat
    BY <2>1, TermFacts, ItemFacts
  <2> DEFINE f == [i \in 1..n |-> <<b, i>>]
  <2>3. f \in Surjection(1..n, inBlock(b))
    BY <2>2, Zenon DEF Surjection
  <2>4. IsFiniteSet(1..n)
    BY <2>2, FS_Interval
  <2>5. QED
    BY <2>3, <2>4, FS_Surjection
<1>3. Locations(bd) = UNION S
  BY DEF Locations
<1> HIDE DEF S
<1>4. \A T \in S : IsFiniteSet(T)
  BY <1>2 DEF S
<1>5. QED
  BY <1>1, <1>3, <1>4, FS_UNION

LEMMA OwnAreAsMany ==
    ASSUME NEW bd \in Body, NEW src \in Body, Tagged(src), Projected(bd, src)
    PROVE  Cardinality({l \in Locations(bd) : Own(bd, l)}) = Cardinality(Locations(src))
<1>1. PICK h, s : Projects(bd, src, h, s)
  BY DEF Projected
<1> DEFINE own == {l \in Locations(bd) : Own(bd, l)}
           f == [l \in own |-> h[l]]
<1>2. IsFiniteSet(own)
  BY FinitelyMany, FS_Subset
<1>3. \A l \in own : h[l] \in Locations(src)
  BY <1>1, OwnIsCopied
<1>4. \A m \in Locations(src) : \E l \in own : h[l] = m
  <2>1. SUFFICES ASSUME NEW m \in Locations(src) PROVE \E l \in own : h[l] = m
    OBVIOUS
  <2>2. PICK l \in Locations(bd) : h[l] = m /\ Copied(bd, l, src, m, h)
    BY <1>1 DEF Projects
  <2>3. QED
    BY <1>1, <2>2, OwnIsCopied
<1>5. \A k, l \in own : h[k] = h[l] => k = l
  BY <1>1 DEF Projects
<1> HIDE DEF own
<1>6. f \in Bijection(own, Locations(src))
  BY <1>3, <1>4, <1>5 DEF Bijection, Injection, Surjection, IsInjective
<1>7. QED
  BY <1>2, <1>6, FS_Bijection DEF ExistsBijection, own

(* FlowPreserved of any two bodies.                                         *)
Preserves(bd, src) ==
    /\ Cardinality({l \in Locations(bd) : Own(bd, l)}) = Cardinality(Locations(src))
    /\ \A l \in Locations(bd) : Own(bd, l) => Bared(bd, l) = Bared(src, ItemAt(bd, l).at)
    /\ Bare(Edges(bd)) = Bare(Edges(src))

LEMMA ProjectedPreserves ==
    ASSUME NEW bd \in Body, NEW src \in Body, Tagged(src), WellFormed(src), Projected(bd, src)
    PROVE  Preserves(bd, src)
<1>1. PICK h, s : Projects(bd, src, h, s)
  BY DEF Projected
<1>2. \A l \in Locations(bd) : Own(bd, l) => Bared(bd, l) = Bared(src, ItemAt(bd, l).at)
  BY <1>1, OwnIsCopied DEF Copied
<1>3. Projected(src, src)
  BY ProjectedToItself DEF WellFormed, Targeted
<1>4. Bare(Edges(bd)) = Flow(src) /\ Bare(Edges(src)) = Flow(src)
  BY <1>3, BareEdges
<1>5. QED
  BY <1>2, <1>4, OwnAreAsMany DEF Preserves

-----------------------------------------------------------------------------
(* The edits.                                                               *)

LEMMA PlaceFacts ==
    ASSUME NEW bd \in Body, NEW c \in 1..Len(bd), NEW j \in 1..Len(bd[c].stmts) + 1
    PROVE  /\ <<c, j>> \in Locations(bd)
           /\ IsTerm(bd, <<c, j>>) <=> j = Len(bd[c].stmts) + 1
           /\ j = Len(bd[c].stmts) + 1 => ItemAt(bd, <<c, j>>) = bd[c].term
           /\ j # Len(bd[c].stmts) + 1 => /\ j \in 1..Len(bd[c].stmts)
                                          /\ ItemAt(bd, <<c, j>>) = bd[c].stmts[j]
<1>1. <<c, j>> \in Locations(bd)
  BY PlacesAreLocations
<1>2. <<c, j>>[1] = c /\ <<c, j>>[2] = j
  OBVIOUS
<1>3. IsTerm(bd, <<c, j>>) <=> j = Len(bd[c].stmts) + 1
  BY <1>2 DEF IsTerm
<1>4. QED
  BY <1>1, <1>2, <1>3, PlaceOf

LEMMA SameItem ==
    ASSUME NEW new, NEW l, NEW bd, NEW m, NEW g,
           IsTerm(new, l) <=> IsTerm(bd, m), ItemAt(new, l) = ItemAt(bd, m),
           IsTerm(bd, m) => \A t \in ItemAt(bd, m).to : g[<<t, 1>>] = <<t, 1>>,
           ~IsTerm(bd, m) => g[<<l[1], l[2] + 1>>] = <<m[1], m[2] + 1>>
    PROVE  Copied(new, l, bd, m, g)
<1>1. Bared(new, l) = Bared(bd, m)
  BY DEF Bared
<1>2. CASE IsTerm(bd, m)
  <2>1. /\ Successors(new, l) = {<<t, 1>> : t \in ItemAt(bd, m).to}
        /\ Successors(bd, m) = {<<t, 1>> : t \in ItemAt(bd, m).to}
    BY <1>2 DEF Successors
  <2>2. {g[x] : x \in Successors(new, l)} = Successors(bd, m)
    BY <1>2, <2>1
  <2>3. OneNext(bd, m) => OneNext(new, l)
    BY <2>1, Zenon DEF OneNext
  <2>4. QED
    BY <1>1, <2>2, <2>3 DEF Copied
<1>3. CASE ~IsTerm(bd, m)
  <2>1. /\ Successors(new, l) = {<<l[1], l[2] + 1>>}
        /\ Successors(bd, m) = {<<m[1], m[2] + 1>>}
    BY <1>3 DEF Successors
  <2>2. {g[x] : x \in Successors(new, l)} = Successors(bd, m)
    BY <1>3, <2>1
  <2>3. OneNext(new, l)
    BY <2>1 DEF OneNext
  <2>4. QED
    BY <1>1, <2>2, <2>3 DEF Copied
<1>4. QED
  BY <1>2, <1>3

(* Statements are inserted at the end of block b.                           *)
Padded(bd, new, b) ==
    /\ new \in Body /\ Len(new) = Len(bd)
    /\ \A c \in 1..Len(bd) : c # b => new[c] = bd[c]
    /\ new[b].term = bd[b].term
    /\ Len(new[b].stmts) >= Len(bd[b].stmts)
    /\ \A j \in 1..Len(bd[b].stmts) : new[b].stmts[j] = bd[b].stmts[j]
    /\ \A j \in 1..Len(new[b].stmts) : j > Len(bd[b].stmts) => new[b].stmts[j].at = Nowhere

(* What is inserted runs before the terminator, item by item.               *)
PadMap(new, bd, b, g) ==
    \A l \in Locations(new) :
        /\ l[1] = b /\ l[2] > Len(bd[b].stmts) => g[l] = <<b, Len(bd[b].stmts) + 1>>
        /\ ~(l[1] = b /\ l[2] > Len(bd[b].stmts)) => g[l] = l
        /\ l[1] = b /\ l[2] > Len(bd[b].stmts) /\ l[2] <= Len(new[b].stmts) =>
              ~Own(new, l) /\ Successors(new, l) = {<<b, l[2] + 1>>}
        /\ ~(l[1] = b /\ l[2] > Len(bd[b].stmts) /\ l[2] <= Len(new[b].stmts)) =>
              Copied(new, l, bd, g[l], g)

LEMMA PaddedMap ==
    ASSUME NEW bd \in Body, Targeted(bd), NEW b \in 1..Len(bd), NEW new, Padded(bd, new, b)
    PROVE  /\ Targeted(new)
           /\ \E g, r : Projects(new, bd, g, r) /\ Bounded(new, r) /\ PadMap(new, bd, b, g)
<1> DEFINE L == Len(bd[b].stmts)
           M == Len(new[b].stmts)
           g == [l \in Locations(new) |-> IF l[1] = b /\ l[2] > L THEN <<b, L + 1>> ELSE l]
           r == [l \in Locations(new) |-> IF l[1] = b /\ l[2] > L THEN M + 1 - l[2] ELSE 0]
<1>1. /\ new \in Body /\ Len(new) = Len(bd) /\ Len(bd) \in Nat /\ b \in 1..Len(new)
      /\ \A c \in 1..Len(bd) : c # b => new[c] = bd[c]
      /\ new[b].term = bd[b].term
  BY BlocksOf DEF Padded
<1>2. L \in Nat /\ M \in Nat /\ M >= L
  BY <1>1, TermFacts, ItemFacts DEF Padded
<1>3. /\ \A j \in 1..L : new[b].stmts[j] = bd[b].stmts[j]
      /\ \A j \in 1..M : j > L => new[b].stmts[j].at = Nowhere
  BY DEF Padded
<1>4. /\ \A l \in Locations(new) : l[1] = b /\ l[2] > L => g[l] = <<b, L + 1>> /\ r[l] = M + 1 - l[2]
      /\ \A l \in Locations(new) : ~(l[1] = b /\ l[2] > L) => g[l] = l /\ r[l] = 0
  OBVIOUS
<1>5. Blocks(new) = Blocks(bd) /\ Blocks(bd) = 1..Len(bd)
  BY <1>1, BlocksOf
<1>6. Targeted(new)
  BY <1>1, <1>5 DEF Targeted
<1>7. \A l \in Locations(new) : Successors(new, l) \subseteq Locations(new)
  BY <1>1, <1>6, NextIsThere
<1>8. ASSUME NEW l \in Locations(new)
      PROVE  /\ l = <<l[1], l[2]>> /\ l[1] \in 1..Len(bd) /\ l[2] \in Nat /\ l[2] >= 1
             /\ l[1] = b => l[2] <= M + 1
             /\ l[1] # b => l[2] \in 1..Len(bd[l[1]].stmts) + 1
  BY <1>1, <1>2, PlaceOf, SMTT(30)
<1>9. /\ g \in [Locations(new) -> Locations(bd)] /\ r \in [Locations(new) -> Nat]
      /\ \A l \in Locations(new) : r[l] < M + 1
  <2>1. ASSUME NEW l \in Locations(new)
        PROVE  g[l] \in Locations(bd) /\ r[l] \in Nat /\ r[l] < M + 1
    <3>1. CASE l[1] = b /\ l[2] > L
      <4>1. L + 1 \in 1..L + 1
        BY <1>2
      <4>2. <<b, L + 1>> \in Locations(bd)
        BY <4>1, PlaceFacts
      <4>3. M + 1 - l[2] \in Nat /\ M + 1 - l[2] < M + 1
        BY <1>2, <1>8, <3>1, SMTT(30)
      <4>4. QED
        BY <1>4, <3>1, <4>2, <4>3
    <3>2. CASE l[1] = b /\ ~(l[2] > L)
      <4>1. l[2] \in 1..L + 1
        BY <1>2, <1>8, <3>2
      <4>2. l \in Locations(bd)
        BY <1>8, <3>2, <4>1, PlaceFacts
      <4>3. QED
        BY <1>2, <1>4, <3>2, <4>2
    <3>3. CASE l[1] # b
      <4>1. l \in Locations(bd)
        BY <1>8, <3>3, PlaceFacts
      <4>2. QED
        BY <1>2, <1>4, <3>3, <4>1
    <3>4. QED
      BY <3>1, <3>2, <3>3
  <2>2. g = [l \in Locations(new) |-> g[l]] /\ r = [l \in Locations(new) |-> r[l]]
    OBVIOUS
  <2> HIDE DEF g, r
  <2>3. QED
    BY <2>1, <2>2
<1> HIDE DEF g, r
<1>10. \A t \in Blocks(bd) : <<t, 1>> \in Locations(new) /\ g[<<t, 1>>] = <<t, 1>>
  <2>1. SUFFICES ASSUME NEW t \in Blocks(bd)
                 PROVE  <<t, 1>> \in Locations(new) /\ g[<<t, 1>>] = <<t, 1>>
    BY Zenon
  <2>2. <<t, 1>> \in Locations(new)
    BY <1>1, <1>5, FirstItem
  <2>3. CASE t = b /\ 1 > L
    <3>1. L = 0
      BY <1>2, <2>3
    <3>2. QED
      BY <1>4, <2>2, <2>3, <3>1
  <2>4. CASE ~(t = b /\ 1 > L)
    BY <1>4, <2>2, <2>4
  <2>5. QED
    BY <2>2, <2>3, <2>4
(* What is not inserted.                                                    *)
<1>11. ASSUME NEW l \in Locations(new), l[1] # b
       PROVE  g[l] = l /\ l \in Locations(bd) /\ Copied(new, l, bd, l, g)
  <2> DEFINE c == l[1]
             j == l[2]
  <2>1. c \in 1..Len(bd) /\ j \in 1..Len(bd[c].stmts) + 1 /\ new[c] = bd[c] /\ l = <<c, j>>
    BY <1>1, <1>8, <1>11
  <2>2. g[l] = l
    BY <1>4, <1>11
  <2> HIDE DEF c, j
  <2>3. l \in Locations(bd) /\ ItemAt(new, l) = ItemAt(bd, l) /\ (IsTerm(new, l) <=> IsTerm(bd, l))
    BY <1>1, <2>1, PlaceFacts, SMTT(30)
  <2>4. IsTerm(bd, l) => \A t \in ItemAt(bd, l).to : g[<<t, 1>>] = <<t, 1>>
    <3>1. SUFFICES ASSUME IsTerm(bd, l) PROVE \A t \in ItemAt(bd, l).to : g[<<t, 1>>] = <<t, 1>>
      BY Zenon
    <3>2. ItemAt(bd, l) = bd[l[1]].term /\ l[1] \in Blocks(bd)
      BY <1>5, <2>3, <3>1, PlaceOf
    <3>3. ItemAt(bd, l).to \subseteq Blocks(bd)
      BY <3>2 DEF Targeted
    <3>4. QED
      BY <1>10, <3>3, Zenon
  <2>5. ~IsTerm(bd, l) => g[<<l[1], l[2] + 1>>] = <<l[1], l[2] + 1>>
    <3>1. SUFFICES ASSUME ~IsTerm(bd, l) PROVE g[<<l[1], l[2] + 1>>] = <<l[1], l[2] + 1>>
      OBVIOUS
    <3>2. <<l[1], l[2] + 1>> \in Locations(new)
      BY <1>7, <2>3, <3>1 DEF Successors
    <3>3. QED
      BY <1>4, <1>11, <3>2
  <2>6. QED
    BY <2>2, <2>3, <2>4, <2>5, SameItem
<1>12. ASSUME NEW j \in 1..L
       PROVE  /\ <<b, j>> \in Locations(new) /\ <<b, j>> \in Locations(bd)
              /\ g[<<b, j>>] = <<b, j>> /\ Copied(new, <<b, j>>, bd, <<b, j>>, g)
  <2>1. j \in 1..L + 1 /\ j # L + 1 /\ j \in 1..M + 1 /\ j # M + 1 /\ ~(j > L) /\ j + 1 \in 1..M + 1
    BY <1>2, SMTT(30)
  <2>2. /\ <<b, j>> \in Locations(bd) /\ ~IsTerm(bd, <<b, j>>)
        /\ ItemAt(bd, <<b, j>>) = bd[b].stmts[j]
    BY <2>1, PlaceFacts
  <2>3. /\ <<b, j>> \in Locations(new) /\ ~IsTerm(new, <<b, j>>)
        /\ ItemAt(new, <<b, j>>) = new[b].stmts[j] /\ <<b, j + 1>> \in Locations(new)
    BY <1>1, <2>1, PlaceFacts
  <2>4. g[<<b, j>>] = <<b, j>>
    BY <1>4, <2>1, <2>3, Zenon
  <2>5. g[<<b, j + 1>>] = <<b, j + 1>>
    <3>1. j + 1 > L => j + 1 = L + 1
      BY <1>2
    <3>2. QED
      BY <1>4, <2>3, <3>1
  <2>6. ItemAt(new, <<b, j>>) = ItemAt(bd, <<b, j>>)
    BY <1>3, <2>2, <2>3
  <2>7. Copied(new, <<b, j>>, bd, <<b, j>>, g)
    BY <2>2, <2>3, <2>5, <2>6, SameItem, Zenon
  <2>8. QED
    BY <2>2, <2>3, <2>4, <2>7
<1>13. /\ <<b, M + 1>> \in Locations(new) /\ <<b, L + 1>> \in Locations(bd)
       /\ g[<<b, M + 1>>] = <<b, L + 1>> /\ Copied(new, <<b, M + 1>>, bd, <<b, L + 1>>, g)
  <2>1. M + 1 \in 1..M + 1 /\ L + 1 \in 1..L + 1 /\ M + 1 > L
    BY <1>2, SMTT(30)
  <2>2. /\ <<b, L + 1>> \in Locations(bd) /\ IsTerm(bd, <<b, L + 1>>)
        /\ ItemAt(bd, <<b, L + 1>>) = bd[b].term
    BY <2>1, PlaceFacts
  <2>3. /\ <<b, M + 1>> \in Locations(new) /\ IsTerm(new, <<b, M + 1>>)
        /\ ItemAt(new, <<b, M + 1>>) = bd[b].term
    BY <1>1, <2>1, PlaceFacts
  <2>4. g[<<b, M + 1>>] = <<b, L + 1>>
    BY <1>4, <2>1, <2>3, Zenon
  <2>5. \A t \in bd[b].term.to : g[<<t, 1>>] = <<t, 1>>
    BY <1>5, <1>10, Zenon DEF Targeted
  <2>6. Copied(new, <<b, M + 1>>, bd, <<b, L + 1>>, g)
    BY <2>2, <2>3, <2>5, SameItem, Zenon
  <2>7. QED
    BY <2>2, <2>3, <2>4, <2>6
(* What is.                                                                 *)
<1>14. ASSUME NEW j \in 1..M, j > L
       PROVE  /\ ~Own(new, <<b, j>>) /\ Successors(new, <<b, j>>) = {<<b, j + 1>>}
              /\ Added(new, <<b, j>>, g, r)
  <2>1. j \in 1..M + 1 /\ j # M + 1 /\ j + 1 \in 1..M + 1 /\ j + 1 > L
        /\ M + 1 - (j + 1) < M + 1 - j
    <3> HIDE DEF L, M
    <3>1. QED
      BY <1>2, <1>14
  <2>2. /\ <<b, j>> \in Locations(new) /\ ~IsTerm(new, <<b, j>>)
        /\ ItemAt(new, <<b, j>>) = new[b].stmts[j] /\ <<b, j + 1>> \in Locations(new)
    BY <1>1, <2>1, PlaceFacts
  <2>3. ~Own(new, <<b, j>>)
    BY <1>3, <1>14, <2>2 DEF Own
  <2>4. Successors(new, <<b, j>>) = {<<b, j + 1>>}
    BY <2>2 DEF Successors
  <2>5. g[<<b, j>>] = g[<<b, j + 1>>] /\ r[<<b, j + 1>>] < r[<<b, j>>]
    <3>1. <<b, j>>[1] = b /\ <<b, j>>[2] = j /\ <<b, j + 1>>[1] = b /\ <<b, j + 1>>[2] = j + 1
      OBVIOUS
    <3>2. /\ g[<<b, j>>] = <<b, L + 1>> /\ r[<<b, j>>] = M + 1 - j
          /\ g[<<b, j + 1>>] = <<b, L + 1>> /\ r[<<b, j + 1>>] = M + 1 - (j + 1)
      BY <1>4, <1>14, <2>1, <2>2, <3>1, Zenon
    <3>3. QED
      BY <2>1, <3>2, Zenon
  <2>6. QED
    BY <2>3, <2>4, <2>5, Zenon DEF Added, OneNext
<1>15. ASSUME NEW l \in Locations(new)
       PROVE  \/ l[1] # b
              \/ l[2] \in 1..L /\ l = <<b, l[2]>>
              \/ l = <<b, M + 1>>
              \/ l[2] \in 1..M /\ l[2] > L /\ l = <<b, l[2]>>
  BY <1>2, <1>8
<1>16. ASSUME NEW l \in Locations(new)
       PROVE  Copied(new, l, bd, g[l], g) \/ Added(new, l, g, r)
  <2>1. CASE l[1] # b
    BY <1>11, <2>1
  <2>2. CASE l[2] \in 1..L /\ l = <<b, l[2]>>
    BY <1>12, <2>2
  <2>3. CASE l = <<b, M + 1>>
    BY <1>13, <2>3
  <2>4. CASE l[2] \in 1..M /\ l[2] > L /\ l = <<b, l[2]>>
    BY <1>14, <2>4
  <2>5. QED
    BY <1>15, <2>1, <2>2, <2>3, <2>4
<1>17. ASSUME NEW m \in Locations(bd)
       PROVE  \E l \in Locations(new) : g[l] = m /\ Copied(new, l, bd, m, g)
  <2>1. m = <<m[1], m[2]>> /\ m[1] \in 1..Len(bd) /\ m[2] \in 1..Len(bd[m[1]].stmts) + 1
    BY PlaceOf
  <2>2. CASE m[1] # b
    <3>1. m \in Locations(new)
      BY <1>1, <2>1, <2>2, PlaceFacts
    <3>2. QED
      BY <1>11, <2>2, <3>1
  <2>3. CASE m[1] = b /\ m[2] \in 1..L
    BY <1>12, <2>1, <2>3
  <2>4. CASE m[1] = b /\ m[2] = L + 1
    BY <1>13, <2>1, <2>4, Zenon
  <2>5. m[2] \in 1..L \/ m[2] = L + 1 \/ m[1] # b
    BY <1>2, <2>1
  <2>6. QED
    BY <2>2, <2>3, <2>4, <2>5
<1>18. ASSUME NEW k \in Locations(new), NEW l \in Locations(new), Own(new, k), Own(new, l),
              g[k] = g[l]
       PROVE  k = l
  <2>1. ASSUME NEW x \in Locations(new), Own(new, x)
        PROVE  \/ x[1] # b /\ g[x] = x
               \/ x[1] = b /\ x[2] \in 1..L /\ g[x] = x
               \/ x = <<b, M + 1>> /\ g[x] = <<b, L + 1>>
    <3>1. CASE x[1] # b
      BY <1>11, <3>1
    <3>2. CASE x[2] \in 1..L /\ x = <<b, x[2]>>
      BY <1>12, <3>2
    <3>3. CASE x = <<b, M + 1>>
      BY <1>13, <3>3, Zenon
    <3>4. ~(x[2] \in 1..M /\ x[2] > L /\ x = <<b, x[2]>>)
      BY <1>14, <2>1 DEF Added
    <3>5. QED
      BY <1>15, <3>1, <3>2, <3>3, <3>4
  <2>2. <<b, L + 1>>[1] = b /\ <<b, L + 1>>[2] = L + 1 /\ L + 1 \notin 1..L
    BY <1>2
  <2>3. QED
    BY <1>18, <2>1, <2>2, Zenon
<1>19. Projects(new, bd, g, r)
  BY <1>5, <1>7, <1>9, <1>10, <1>16, <1>17, <1>18 DEF Projects
<1>20. M + 1 \in Nat
  BY <1>2
<1>21. ASSUME NEW l \in Locations(new)
       PROVE  /\ l[1] = b /\ l[2] > L /\ l[2] <= M =>
                    ~Own(new, l) /\ Successors(new, l) = {<<b, l[2] + 1>>}
              /\ ~(l[1] = b /\ l[2] > L /\ l[2] <= M) => Copied(new, l, bd, g[l], g)
  <2>1. CASE l[1] # b
    BY <1>11, <2>1
  <2>2. CASE l[2] \in 1..L /\ l = <<b, l[2]>>
    <3>1. ~(l[2] > L)
      <4> HIDE DEF L
      <4>1. QED
        BY <1>2, <2>2
    <3>2. QED
      BY <1>12, <2>2, <3>1
  <2>3. CASE l = <<b, M + 1>>
    <3>1. ~(M + 1 <= M)
      <4> HIDE DEF M
      <4>1. QED
        BY <1>2
    <3>2. l[2] = M + 1 /\ g[l] = <<b, L + 1>>
      BY <1>13, <2>3
    <3>3. QED
      BY <1>13, <2>3, <3>1, <3>2, Zenon
  <2>4. CASE l[2] \in 1..M /\ l[2] > L /\ l = <<b, l[2]>>
    <3>1. l[1] = b /\ l[2] <= M
      BY <2>4
    <3>2. QED
      BY <1>14, <2>4, <3>1
  <2>5. QED
    BY <1>15, <2>1, <2>2, <2>3, <2>4
<1>22. PadMap(new, bd, b, g)
  BY <1>4, <1>21 DEF PadMap
<1>23. Bounded(new, r)
  BY <1>9, <1>20, Zenon DEF Bounded
<1>24. QED
  BY <1>6, <1>19, <1>22, <1>23

LEMMA PaddedProjects ==
    ASSUME NEW bd \in Body, Targeted(bd), NEW b \in 1..Len(bd), NEW new, Padded(bd, new, b)
    PROVE  Projected(new, bd) /\ Targeted(new)
BY PaddedMap DEF Projected, Bounded

LEMMA TargetsAreThere ==
    ASSUME NEW bd \in Body, Targeted(bd), NEW g, \A t \in Blocks(bd) : g[<<t, 1>>] = <<t, 1>>,
           NEW c \in 1..Len(bd)
    PROVE  \A t \in bd[c].term.to : g[<<t, 1>>] = <<t, 1>>
<1>1. c \in Blocks(bd)
  BY BlocksOf
<1>2. bd[c].term.to \subseteq Blocks(bd)
  BY <1>1 DEF Targeted
<1>3. QED
  BY <1>2, Zenon

LEMMA StatementAt ==
    ASSUME NEW bd \in Body, NEW c \in 1..Len(bd), NEW j \in 1..Len(bd[c].stmts)
    PROVE  /\ <<c, j>> \in Locations(bd) /\ <<c, j + 1>> \in Locations(bd)
           /\ ~IsTerm(bd, <<c, j>>) /\ ItemAt(bd, <<c, j>>) = bd[c].stmts[j]
<1> DEFINE L == Len(bd[c].stmts)
<1>1. L \in Nat
  BY TermFacts, ItemFacts
<1>2. j \in 1..L + 1 /\ j # L + 1 /\ j + 1 \in 1..L + 1
  <2>1. j \in 1..L
    OBVIOUS
  <2> HIDE DEF L
  <2>2. QED
    BY <1>1, <2>1
<1> DEFINE next == j + 1
<1>3. next \in 1..L + 1
  BY <1>2
<1> HIDE DEF next
<1>4. <<c, next>> \in Locations(bd)
  BY <1>3, PlaceFacts
<1>5. QED
  BY <1>2, <1>4, PlaceFacts DEF next

(* A statement or a terminator that stays as it is, wherever it moves.      *)
LEMMA SameStatement ==
    ASSUME NEW new \in Body, NEW c \in 1..Len(new), NEW j \in 1..Len(new[c].stmts),
           NEW bd \in Body, NEW d \in 1..Len(bd), NEW k \in 1..Len(bd[d].stmts),
           new[c].stmts[j] = bd[d].stmts[k], NEW g, g[<<c, j + 1>>] = <<d, k + 1>>
    PROVE  /\ <<c, j>> \in Locations(new) /\ <<d, k>> \in Locations(bd)
           /\ <<c, j + 1>> \in Locations(new)
           /\ Copied(new, <<c, j>>, bd, <<d, k>>, g)
<1>1. /\ <<c, j>> \in Locations(new) /\ <<c, j + 1>> \in Locations(new)
      /\ ~IsTerm(new, <<c, j>>) /\ ItemAt(new, <<c, j>>) = new[c].stmts[j]
  BY StatementAt, Zenon
<1>2. /\ <<d, k>> \in Locations(bd) /\ ~IsTerm(bd, <<d, k>>)
      /\ ItemAt(bd, <<d, k>>) = bd[d].stmts[k]
  BY StatementAt, Zenon
<1>3. QED
  BY <1>1, <1>2, SameItem, Zenon

LEMMA SameTerminator ==
    ASSUME NEW new \in Body, NEW c \in 1..Len(new),
           NEW bd \in Body, NEW d \in 1..Len(bd), new[c].term = bd[d].term,
           NEW g, \A t \in bd[d].term.to : g[<<t, 1>>] = <<t, 1>>
    PROVE  LET l == <<c, Len(new[c].stmts) + 1>>
               m == <<d, Len(bd[d].stmts) + 1>>
           IN  l \in Locations(new) /\ m \in Locations(bd) /\ Copied(new, l, bd, m, g)
<1>1. Len(new[c].stmts) \in Nat /\ Len(bd[d].stmts) \in Nat
  BY TermFacts, ItemFacts
<1> DEFINE j == Len(new[c].stmts) + 1
           k == Len(bd[d].stmts) + 1
<1>2. j \in 1..Len(new[c].stmts) + 1 /\ k \in 1..Len(bd[d].stmts) + 1
  BY <1>1
<1>3. /\ <<c, j>> \in Locations(new) /\ IsTerm(new, <<c, j>>)
      /\ ItemAt(new, <<c, j>>) = new[c].term
  BY <1>2, PlaceFacts
<1>4. /\ <<d, k>> \in Locations(bd) /\ IsTerm(bd, <<d, k>>)
      /\ ItemAt(bd, <<d, k>>) = bd[d].term
  BY <1>2, PlaceFacts
<1>5. QED
  BY <1>3, <1>4, SameItem, Zenon

LEMMA SameBlock ==
    ASSUME NEW new \in Body, NEW bd \in Body, Targeted(bd), NEW c \in 1..Len(bd), c \in 1..Len(new),
           new[c] = bd[c], NEW g, \A t \in Blocks(bd) : g[<<t, 1>>] = <<t, 1>>,
           \A j \in 1..Len(bd[c].stmts) + 1 : g[<<c, j>>] = <<c, j>>
    PROVE  \A j \in 1..Len(bd[c].stmts) + 1 :
              /\ <<c, j>> \in Locations(new) /\ <<c, j>> \in Locations(bd)
              /\ Copied(new, <<c, j>>, bd, <<c, j>>, g)
<1>1. SUFFICES ASSUME NEW j \in 1..Len(bd[c].stmts) + 1
               PROVE  /\ <<c, j>> \in Locations(new) /\ <<c, j>> \in Locations(bd)
                      /\ Copied(new, <<c, j>>, bd, <<c, j>>, g)
  OBVIOUS
<1>2. Len(bd[c].stmts) \in Nat
  BY TermFacts, ItemFacts
<1>3. CASE j = Len(bd[c].stmts) + 1
  <2>1. \A t \in bd[c].term.to : g[<<t, 1>>] = <<t, 1>>
    BY TargetsAreThere, Zenon
  <2>2. LET l == <<c, Len(new[c].stmts) + 1>>
            m == <<c, Len(bd[c].stmts) + 1>>
        IN  l \in Locations(new) /\ m \in Locations(bd) /\ Copied(new, l, bd, m, g)
    BY <2>1, SameTerminator, Zenon
  <2>3. QED
    BY <1>3, <2>2
<1>4. CASE j # Len(bd[c].stmts) + 1
  <2>1. j \in 1..Len(bd[c].stmts) /\ j + 1 \in 1..Len(bd[c].stmts) + 1
    BY <1>2, <1>4
  <2>2. g[<<c, j + 1>>] = <<c, j + 1>>
    BY <2>1
  <2>3. j \in 1..Len(new[c].stmts) /\ new[c].stmts[j] = bd[c].stmts[j]
    BY <2>1
  <2>4. /\ <<c, j>> \in Locations(new) /\ <<c, j>> \in Locations(bd)
        /\ Copied(new, <<c, j>>, bd, <<c, j>>, g)
    BY ONLY new \in Body, bd \in Body, c \in 1..Len(bd), c \in 1..Len(new),
            <2>1, <2>2, <2>3, SameStatement, Zenon
  <2>5. QED
    BY <2>4
<1>5. QED
  BY <1>3, <1>4

(* Block b is cut before item i: a hook there, the rest in the new block.   *)
Cut(bd, new, b, i) ==
    LET n == Len(bd) + 1 IN
    /\ new \in Body /\ Len(new) = n
    /\ \A c \in 1..Len(bd) : c # b => new[c] = bd[c]
    /\ Len(new[b].stmts) = i - 1
    /\ \A j \in 1..i - 1 : new[b].stmts[j] = bd[b].stmts[j]
    /\ new[b].term.at = Nowhere /\ new[b].term.to = {n}
    /\ new[n].term = bd[b].term
    /\ Len(new[n].stmts) = Len(bd[b].stmts) - (i - 1)
    /\ \A j \in 1..Len(new[n].stmts) : new[n].stmts[j] = bd[b].stmts[i - 1 + j]

(* Only the hook is inserted; nothing else goes to the new block.           *)
CutMap(new, bd, b, i, g) ==
    LET n == Len(bd) + 1 IN
    /\ \A l \in Locations(new) : /\ l[1] = n => g[l] = <<b, i - 1 + l[2]>>
                                 /\ l[1] # n => g[l] = l
    /\ <<b, i>> \in Locations(new) /\ ~Own(new, <<b, i>>)
    /\ Successors(new, <<b, i>>) = {<<n, 1>>}
    /\ EffectAt(new, <<b, i>>) = HookEffect(new[b].term)
    /\ \A l \in Locations(new) : l # <<b, i>> =>
          Copied(new, l, bd, g[l], g) /\ <<n, 1>> \notin Successors(new, l)

LEMMA CutMapped ==
    ASSUME NEW bd \in Body, Targeted(bd), NEW b \in 1..Len(bd),
           NEW i \in 1..Len(bd[b].stmts) + 1, NEW new, Cut(bd, new, b, i)
    PROVE  /\ Targeted(new)
           /\ \E g, r : Projects(new, bd, g, r) /\ Bounded(new, r) /\ CutMap(new, bd, b, i, g)
<1> DEFINE L == Len(bd[b].stmts)
           n == Len(bd) + 1
           R == Len(new[n].stmts)
           g == [l \in Locations(new) |-> IF l[1] = n THEN <<b, i - 1 + l[2]>> ELSE l]
           r == [l \in Locations(new) |-> IF l = <<b, i>> THEN 1 ELSE 0]
<1>1. /\ new \in Body /\ Len(new) = Len(bd) + 1 /\ Len(bd) \in Nat
      /\ \A c \in 1..Len(bd) : c \in 1..Len(new) /\ c # n /\ (c # b => new[c] = bd[c])
      /\ n \in 1..Len(new) /\ b # n /\ \A c \in 1..Len(new) : c = n \/ c \in 1..Len(bd)
      /\ new[n].term = bd[b].term
  <2>1. /\ new \in Body /\ Len(new) = Len(bd) + 1 /\ Len(bd) \in Nat
        /\ \A c \in 1..Len(bd) : c # b => new[c] = bd[c]
        /\ new[n].term = bd[b].term
    BY BlocksOf DEF Cut
  <2>2. /\ \A c \in 1..Len(bd) : c \in 1..Len(bd) + 1 /\ c # n
        /\ n \in 1..Len(bd) + 1 /\ \A c \in 1..Len(bd) + 1 : c = n \/ c \in 1..Len(bd)
    BY <2>1
  <2>3. QED
    BY <2>1, <2>2
<1>2. L \in Nat /\ i \in Nat /\ i >= 1 /\ i - 1 \in Nat /\ i <= L + 1 /\ R = L - (i - 1) /\ R \in Nat
  <2>1. L \in Nat /\ R = L - (i - 1)
    BY TermFacts, ItemFacts DEF Cut
  <2> HIDE DEF L, R
  <2>2. i \in 1..L + 1
    BY DEF L
  <2>3. QED
    BY <2>1, <2>2
<1>3. /\ Len(new[b].stmts) = i - 1
      /\ \A j \in 1..i - 1 : new[b].stmts[j] = bd[b].stmts[j]
      /\ new[b].term.at = Nowhere /\ new[b].term.to = {n}
      /\ \A j \in 1..R : new[n].stmts[j] = bd[b].stmts[i - 1 + j]
  BY Zenon DEF Cut
<1>4. \A l \in Locations(new) :
        /\ l[1] = n => g[l] = <<b, i - 1 + l[2]>>
        /\ l[1] # n => g[l] = l
        /\ r[l] = IF l = <<b, i>> THEN 1 ELSE 0
  OBVIOUS
<1>5. Blocks(new) = 1..Len(bd) + 1 /\ Blocks(bd) = 1..Len(bd) /\ Blocks(bd) \subseteq Blocks(new)
  BY <1>1, BlocksOf
<1>6. Targeted(new)
  <2>1. ASSUME NEW c \in Blocks(new) PROVE new[c].term.to \subseteq Blocks(new)
    <3>1. CASE c = b
      BY <1>1, <1>3, <1>5, <3>1
    <3>2. CASE c = n
      BY <1>1, <1>5, <3>2 DEF Targeted
    <3>3. CASE c # b /\ c # n
      BY <1>1, <1>5, <3>3 DEF Targeted
    <3>4. QED
      BY <3>1, <3>2, <3>3
  <2>2. QED
    BY <2>1 DEF Targeted
<1>7. \A l \in Locations(new) : Successors(new, l) \subseteq Locations(new)
  BY <1>1, <1>6, NextIsThere
(* The locations of the new body.                                           *)
<1>8. ASSUME NEW l \in Locations(new)
      PROVE  \/ /\ l[1] \in 1..Len(bd) /\ l[1] # b /\ l[2] \in 1..Len(bd[l[1]].stmts) + 1
                /\ l = <<l[1], l[2]>>
             \/ l[2] \in 1..i - 1 /\ l = <<b, l[2]>>
             \/ l = <<b, i>>
             \/ l[2] \in 1..R /\ l = <<n, l[2]>>
             \/ l = <<n, R + 1>>
  <2>1. l = <<l[1], l[2]>> /\ l[1] \in 1..Len(new) /\ l[2] \in 1..Len(new[l[1]].stmts) + 1
    BY <1>1, PlaceOf, Zenon
  <2>2. CASE l[1] = b
    <3>1. l[2] \in 1..i - 1 \/ l[2] = i
      BY <1>2, <1>3, <2>1, <2>2, SMTT(30)
    <3>2. QED
      BY <2>1, <2>2, <3>1
  <2>3. CASE l[1] = n
    <3>1. l[2] \in 1..R + 1
      BY <2>1, <2>3
    <3> HIDE DEF R, n
    <3>2. l[2] \in 1..R \/ l[2] = R + 1
      BY <1>2, <3>1
    <3>3. QED
      BY <2>1, <2>3, <3>2
  <2>4. CASE l[1] # b /\ l[1] # n
    BY <1>1, <2>1, <2>4, Zenon
  <2>5. QED
    BY <2>2, <2>3, <2>4
<1>9. \A t \in Blocks(bd) : <<t, 1>> \in Locations(new) /\ g[<<t, 1>>] = <<t, 1>>
  <2>1. SUFFICES ASSUME NEW t \in Blocks(bd)
                 PROVE  <<t, 1>> \in Locations(new) /\ g[<<t, 1>>] = <<t, 1>>
    BY Zenon
  <2>2. <<t, 1>> \in Locations(new)
    BY <1>1, <1>5, FirstItem
  <2>3. <<t, 1>>[1] # n
    BY <1>1, <1>5
  <2>4. QED
    BY <1>4, <2>2, <2>3
<1> HIDE DEF g, r
<1>10. ASSUME NEW c \in 1..Len(bd), c # b, NEW j \in 1..Len(bd[c].stmts) + 1
       PROVE  /\ <<c, j>> \in Locations(new) /\ <<c, j>> \in Locations(bd)
              /\ g[<<c, j>>] = <<c, j>> /\ Copied(new, <<c, j>>, bd, <<c, j>>, g)
  <2>1. \A k \in 1..Len(bd[c].stmts) + 1 : g[<<c, k>>] = <<c, k>>
    <3>1. SUFFICES ASSUME NEW k \in 1..Len(bd[c].stmts) + 1 PROVE g[<<c, k>>] = <<c, k>>
      OBVIOUS
    <3>2. <<c, k>> \in Locations(new) /\ <<c, k>>[1] # n
      BY <1>1, <1>10, PlaceFacts, Zenon
    <3>3. QED
      BY <1>4, <3>2, Zenon
  <2>2. c \in 1..Len(new) /\ new[c] = bd[c]
    BY <1>1, <1>10
  <2>3. QED
    BY <1>1, <1>9, <2>1, <2>2, SameBlock, ZenonT(60)
<1>11. ASSUME NEW j \in 1..i
       PROVE  <<b, j>> \in Locations(new) /\ g[<<b, j>>] = <<b, j>>
  <2>1. j \in 1..Len(new[b].stmts) + 1
    BY <1>2, <1>3
  <2>2. <<b, j>> \in Locations(new) /\ <<b, j>>[1] # n
    BY <1>1, <2>1, PlaceFacts
  <2>3. QED
    BY <1>4, <2>2
<1>12. ASSUME NEW j \in 1..i - 1
       PROVE  <<b, j>> \in Locations(bd) /\ Copied(new, <<b, j>>, bd, <<b, j>>, g)
  <2>1. j \in 1..Len(new[b].stmts) /\ j \in 1..L /\ j + 1 \in 1..i
    <3> HIDE DEF L
    <3>1. QED
      BY <1>2, <1>3
  <2>2. new[b].stmts[j] = bd[b].stmts[j] /\ g[<<b, j + 1>>] = <<b, j + 1>>
    BY <1>3, <1>11, <2>1
  <2>3. QED
    BY <1>1, <2>1, <2>2, SameStatement, ZenonT(60)
<1>13. ASSUME NEW j \in 1..R + 1
       PROVE  /\ <<n, j>> \in Locations(new) /\ g[<<n, j>>] = <<b, i - 1 + j>>
              /\ <<b, i - 1 + j>> \in Locations(bd)
  <2>1. <<n, j>> \in Locations(new) /\ <<n, j>>[1] = n /\ <<n, j>>[2] = j
    BY <1>1, PlaceFacts, Zenon
  <2>2. i - 1 + j \in 1..L + 1
    <3> HIDE DEF L, R
    <3>1. QED
      BY <1>2
  <2>3. QED
    BY <1>4, <2>1, <2>2, PlaceFacts, Zenon
<1>14. ASSUME NEW j \in 1..R
       PROVE  Copied(new, <<n, j>>, bd, <<b, i - 1 + j>>, g)
  <2>1. /\ j \in 1..R /\ i - 1 + j \in 1..L /\ j + 1 \in 1..R + 1
        /\ i - 1 + (j + 1) = i - 1 + j + 1
    <3> HIDE DEF L, R
    <3>1. QED
      BY <1>2
  <2>2. new[n].stmts[j] = bd[b].stmts[i - 1 + j] /\ g[<<n, j + 1>>] = <<b, i - 1 + j + 1>>
    BY <1>3, <1>13, <2>1, Zenon
  <2>3. QED
    BY <1>1, <2>1, <2>2, SameStatement, Zenon
<1>15. g[<<n, R + 1>>] = <<b, L + 1>> /\ Copied(new, <<n, R + 1>>, bd, <<b, L + 1>>, g)
  <2>1. R + 1 \in 1..R + 1 /\ i - 1 + (R + 1) = L + 1
    <3> HIDE DEF L, R
    <3>1. QED
      BY <1>2
  <2>2. g[<<n, R + 1>>] = <<b, L + 1>>
    BY <1>13, <2>1, Zenon
  <2>3. \A t \in bd[b].term.to : g[<<t, 1>>] = <<t, 1>>
    BY <1>9, TargetsAreThere, Zenon
  <2>4. QED
    BY <1>1, <2>2, <2>3, SameTerminator, Zenon
<1>16. /\ <<b, i>> \in Locations(new) /\ ~Own(new, <<b, i>>)
       /\ Successors(new, <<b, i>>) = {<<n, 1>>}
       /\ EffectAt(new, <<b, i>>) = HookEffect(new[b].term)
       /\ Added(new, <<b, i>>, g, r)
  <2>1. i \in 1..Len(new[b].stmts) + 1 /\ i = Len(new[b].stmts) + 1
    <3> HIDE DEF L, R, n
    <3>1. i \in Nat /\ i >= 1
      BY <1>2
    <3>2. Len(new[b].stmts) = i - 1
      BY <1>3
    <3>3. QED
      BY <3>1, <3>2
  <2>2. IsTerm(new, <<b, i>>) /\ ItemAt(new, <<b, i>>) = new[b].term
    BY <1>1, <2>1, PlaceFacts
  <2>3. Successors(new, <<b, i>>) = {<<n, 1>>} /\ ~Own(new, <<b, i>>)
    BY <1>3, <2>2 DEF Successors, Own
  <2>4. g[<<n, 1>>] = <<b, i>> /\ <<n, 1>> \in Locations(new)
    <3>1. 1 \in 1..R + 1 /\ i - 1 + 1 = i
      <4> HIDE DEF R
      <4>1. QED
        BY <1>2
    <3>2. QED
      BY <1>13, <3>1, Zenon
  <2>5. g[<<b, i>>] = <<b, i>> /\ <<b, i>> \in Locations(new)
    BY <1>2, <1>11
  <2>6. r[<<n, 1>>] = 0 /\ r[<<b, i>>] = 1
    BY <1>1, <1>4, <2>4, <2>5
  <2>7. OneNext(new, <<b, i>>)
    BY <2>3, Zenon DEF OneNext
  <2>8. \A x \in Successors(new, <<b, i>>) : g[x] = g[<<b, i>>] /\ r[x] < r[<<b, i>>]
    BY <2>3, <2>4, <2>5, <2>6
  <2>9. EffectAt(new, <<b, i>>) = HookEffect(new[b].term)
    BY <2>2 DEF EffectAt
  <2>10. QED
    BY <2>3, <2>5, <2>7, <2>8, <2>9 DEF Added
<1>17. ASSUME NEW l \in Locations(new)
       PROVE  /\ g[l] \in Locations(bd) /\ r[l] \in Nat /\ r[l] < 2
              /\ l # <<b, i>> => Copied(new, l, bd, g[l], g)
  <2>1. r[l] \in Nat /\ r[l] < 2
    BY <1>4
  <2>2. CASE /\ l[1] \in 1..Len(bd) /\ l[1] # b /\ l[2] \in 1..Len(bd[l[1]].stmts) + 1
             /\ l = <<l[1], l[2]>>
    BY <1>10, <2>1, <2>2, SMTT(30)
  <2>3. CASE l[2] \in 1..i - 1 /\ l = <<b, l[2]>>
    <3>1. l[2] \in 1..i
      BY <1>2, <2>3
    <3>2. QED
      BY <1>11, <1>12, <2>1, <2>3, <3>1, Zenon
  <2>4. CASE l = <<b, i>>
    <3>1. i \in 1..i /\ <<b, i>> \in Locations(bd)
      BY <1>2, PlaceFacts
    <3>2. QED
      BY <1>11, <1>16, <2>1, <2>4, <3>1
  <2>5. CASE l[2] \in 1..R /\ l = <<n, l[2]>>
    <3>1. l[2] \in 1..R + 1
      <4> HIDE DEF R
      <4>1. QED
        BY <1>2, <2>5
    <3>2. QED
      BY <1>13, <1>14, <2>1, <2>5, <3>1, Zenon
  <2>6. CASE l = <<n, R + 1>>
    <3>1. L + 1 \in 1..L + 1
      <4> HIDE DEF L
      <4>1. QED
        BY <1>2
    <3>2. <<b, L + 1>> \in Locations(bd)
      BY <3>1, PlaceFacts
    <3>3. QED
      BY <1>15, <2>1, <2>6, <3>2, Zenon
  <2>7. QED
    BY <1>8, <2>2, <2>3, <2>4, <2>5, <2>6
<1>18. ASSUME NEW m \in Locations(bd)
       PROVE  \E l \in Locations(new) : g[l] = m /\ Copied(new, l, bd, m, g)
  <2>1. m = <<m[1], m[2]>> /\ m[1] \in 1..Len(bd) /\ m[2] \in 1..Len(bd[m[1]].stmts) + 1
    BY PlaceOf
  <2>2. CASE m[1] # b
    BY <1>10, <2>1, <2>2
  <2>3. CASE m[1] = b
    <3>1. m[2] \in 1..L + 1
      BY <2>1, <2>3
    <3>2. \/ m[2] \in 1..i - 1 /\ m[2] \in 1..i
          \/ m[2] = L + 1
          \/ \E j \in 1..R : j \in 1..R + 1 /\ m[2] = i - 1 + j
      <4> HIDE DEF L, R
      <4>1. m[2] >= i /\ m[2] # L + 1 =>
              /\ m[2] - (i - 1) \in 1..R /\ m[2] - (i - 1) \in 1..R + 1
              /\ m[2] = i - 1 + (m[2] - (i - 1))
        BY <1>2, <3>1
      <4>2. m[2] < i => m[2] \in 1..i - 1 /\ m[2] \in 1..i
        BY <1>2, <3>1
      <4>3. m[2] < i \/ m[2] >= i
        BY <1>2, <3>1
      <4>4. QED
        BY <4>1, <4>2, <4>3
    <3>3. CASE m[2] \in 1..i - 1 /\ m[2] \in 1..i
      BY <1>11, <1>12, <2>1, <2>3, <3>3
    <3>4. CASE m[2] = L + 1
      <4>1. R + 1 \in 1..R + 1
        <5> HIDE DEF R
        <5>1. QED
          BY <1>2
      <4>2. <<n, R + 1>> \in Locations(new)
        BY <1>13, <4>1, Zenon
      <4>3. QED
        BY <1>15, <2>1, <2>3, <3>4, <4>2
    <3>5. CASE \E j \in 1..R : j \in 1..R + 1 /\ m[2] = i - 1 + j
      <4>1. PICK j \in 1..R : j \in 1..R + 1 /\ m[2] = i - 1 + j
        BY <3>5
      <4>2. QED
        BY <1>13, <1>14, <2>1, <2>3, <4>1, Zenon
    <3>6. QED
      BY <3>2, <3>3, <3>4, <3>5
  <2>4. QED
    BY <2>2, <2>3
<1>19. ASSUME NEW k \in Locations(new), NEW l \in Locations(new), Own(new, k), Own(new, l),
              g[k] = g[l]
       PROVE  k = l
  <2>1. ASSUME NEW x \in Locations(new), Own(new, x)
        PROVE  \/ x[1] # b /\ x[1] # n /\ g[x] = x
               \/ \E j \in 1..i - 1 : x = <<b, j>> /\ g[x] = <<b, j>>
               \/ \E j \in 1..R + 1 : x = <<n, j>> /\ g[x] = <<b, i - 1 + j>>
    <3>1. x # <<b, i>>
      BY <1>16, <2>1
    <3>2. CASE /\ x[1] \in 1..Len(bd) /\ x[1] # b /\ x[2] \in 1..Len(bd[x[1]].stmts) + 1
               /\ x = <<x[1], x[2]>>
      <4>1. x[1] # n
        BY <1>1, <3>2
      <4>2. g[x] = x
        BY <1>10, <3>2
      <4>3. QED
        BY <3>2, <4>1, <4>2
    <3>3. CASE x[2] \in 1..i - 1 /\ x = <<b, x[2]>>
      <4>1. x[2] \in 1..i
        BY <1>2, <3>3
      <4>2. QED
        BY <1>11, <3>3, <4>1
    <3>4. CASE x[2] \in 1..R /\ x = <<n, x[2]>>
      <4>1. x[2] \in 1..R + 1
        <5> HIDE DEF R
        <5>1. QED
          BY <1>2, <3>4
      <4>2. QED
        BY <1>13, <3>4, <4>1, Zenon
    <3>5. CASE x = <<n, R + 1>>
      <4>1. R + 1 \in 1..R + 1
        <5> HIDE DEF R
        <5>1. QED
          BY <1>2
      <4>2. QED
        BY <1>13, <3>5, <4>1, Zenon
    <3>6. QED
      BY <1>8, <3>1, <3>2, <3>3, <3>4, <3>5
  <2> DEFINE Other(x) == x[1] # b /\ x[1] # n /\ g[x] = x
             Leading(x) == \E j \in 1..i - 1 : x = <<b, j>> /\ g[x] = <<b, j>>
             Rest(x) == \E j \in 1..R + 1 : x = <<n, j>> /\ g[x] = <<b, i - 1 + j>>
  <2>2. (Other(k) \/ Leading(k) \/ Rest(k)) /\ (Other(l) \/ Leading(l) \/ Rest(l))
    BY <1>19, <2>1
  <2>3. (Leading(k) \/ Rest(k) => g[k][1] = b) /\ (Leading(l) \/ Rest(l) => g[l][1] = b)
    OBVIOUS
  <2>4. CASE Other(k) \/ Other(l)
    BY <1>19, <2>2, <2>3, <2>4
  <2>5. CASE Leading(k) /\ Leading(l)
    BY <1>19, <2>5
  <2>6. CASE Rest(k) /\ Rest(l)
    <3>1. PICK j \in 1..R + 1 : k = <<n, j>> /\ g[k] = <<b, i - 1 + j>>
      BY <2>6
    <3>2. PICK q \in 1..R + 1 : l = <<n, q>> /\ g[l] = <<b, i - 1 + q>>
      BY <2>6
    <3>3. j = q
      <4>1. i - 1 + j = i - 1 + q
        BY <1>19, <3>1, <3>2
      <4> HIDE DEF R
      <4>2. QED
        BY <1>2, <4>1
    <3>4. QED
      BY <3>1, <3>2, <3>3
  <2>7. ASSUME NEW x, NEW y, Leading(x), Rest(y), g[x] = g[y] PROVE FALSE
    <3>1. PICK j \in 1..i - 1 : x = <<b, j>> /\ g[x] = <<b, j>>
      BY <2>7
    <3>2. PICK q \in 1..R + 1 : y = <<n, q>> /\ g[y] = <<b, i - 1 + q>>
      BY <2>7
    <3>3. j = i - 1 + q
      BY <2>7, <3>1, <3>2
    <3> HIDE DEF R
    <3>4. QED
      BY <1>2, <3>3
  <2> HIDE DEF Other, Leading, Rest
  <2>8. QED
    BY <1>19, <2>2, <2>4, <2>5, <2>6, <2>7
<1>20. g \in [Locations(new) -> Locations(bd)] /\ r \in [Locations(new) -> Nat]
  <2>1. g = [l \in Locations(new) |-> g[l]] /\ r = [l \in Locations(new) |-> r[l]]
    BY DEF g, r
  <2>2. QED
    BY <1>17, <2>1, Zenon
<1>21. \A l \in Locations(new) : Copied(new, l, bd, g[l], g) \/ Added(new, l, g, r)
  BY <1>16, <1>17
<1>22. Projects(new, bd, g, r)
  BY <1>5, <1>7, <1>9, <1>18, <1>19, <1>20, <1>21 DEF Projects
<1>23. ASSUME NEW l \in Locations(new), l # <<b, i>>, <<n, 1>> \in Successors(new, l)
       PROVE  FALSE
  <2>1. /\ l = <<l[1], l[2]>> /\ l[1] \in 1..Len(new) /\ l[2] \in 1..Len(new[l[1]].stmts) + 1
        /\ IsTerm(new, l) => /\ l[2] = Len(new[l[1]].stmts) + 1
                             /\ ItemAt(new, l) = new[l[1]].term
    BY <1>1, PlaceOf
  <2>2. CASE IsTerm(new, l)
    <3>1. PICK t \in new[l[1]].term.to : <<n, 1>> = <<t, 1>>
      BY <1>23, <2>1, <2>2 DEF Successors
    <3>2. l[1] # b
      <4>1. i - 1 + 1 = i
        BY <1>2
      <4>2. QED
        BY <1>3, <1>23, <2>1, <2>2, <4>1
    <3>3. t \in Blocks(bd)
      BY <1>1, <1>5, <2>1, <3>2 DEF Targeted
    <3>4. t # n
      BY <1>1, <1>5, <3>3
    <3>5. QED
      BY <3>1, <3>4
  <2>3. CASE ~IsTerm(new, l)
    <3>1. <<n, 1>> = <<l[1], l[2] + 1>>
      BY <1>23, <2>3 DEF Successors
    <3>2. l[2] + 1 # 1
      BY <2>1
    <3>3. QED
      BY <3>1, <3>2
  <2>4. QED
    BY <2>2, <2>3
<1>24. CutMap(new, bd, b, i, g)
  BY <1>4, <1>16, <1>17, <1>23, Zenon DEF CutMap
<1>25. Bounded(new, r)
  BY <1>17 DEF Bounded
<1>26. QED
  BY <1>6, <1>22, <1>24, <1>25

LEMMA CutProjects ==
    ASSUME NEW bd \in Body, Targeted(bd), NEW b \in 1..Len(bd),
           NEW i \in 1..Len(bd[b].stmts) + 1, NEW new, Cut(bd, new, b, i)
    PROVE  Projected(new, bd) /\ Targeted(new)
BY CutMapped DEF Projected, Bounded

(* The terminator of b goes to the new block of inserted items, and that to *)
(* the one target the terminator had.                                       *)
Trailed(bd, new, b, t) ==
    LET n == Len(bd) + 1 IN
    /\ new \in Body /\ Len(new) = n
    /\ \A c \in 1..Len(bd) : c # b => new[c] = bd[c]
    /\ new[b].stmts = bd[b].stmts
    /\ new[b].term = [bd[b].term EXCEPT !.to = {n}]
    /\ bd[b].term.to = {t}
    /\ new[n].term.at = Nowhere /\ new[n].term.to = {t}
    /\ \A j \in 1..Len(new[n].stmts) : new[n].stmts[j].at = Nowhere

(* The new block is inserted, and only the terminator of b goes there.      *)
TrailMap(new, bd, b, t, g) ==
    LET n == Len(bd) + 1
        M == Len(new[n].stmts)
        x == <<b, Len(bd[b].stmts) + 1>>
    IN
    /\ \A l \in Locations(new) :
          /\ l[1] = n => /\ g[l] = <<t, 1>> /\ ~Own(new, l)
                         /\ Successors(new, l) = {IF l[2] = M + 1 THEN <<t, 1>> ELSE <<n, l[2] + 1>>}
          /\ l[1] # n => g[l] = l /\ Copied(new, l, bd, l, g)
          /\ l[1] # n /\ l # x => \A y \in Successors(new, l) : y[1] # n
    /\ x \in Locations(new) /\ x \in Locations(bd) /\ x[1] # n
    /\ Successors(new, x) = {<<n, 1>>}
    /\ <<t, 1>> \in Locations(new) /\ t # n

LEMMA TrailMapped ==
    ASSUME NEW bd \in Body, Targeted(bd), NEW b \in 1..Len(bd), NEW t, NEW new,
           Trailed(bd, new, b, t)
    PROVE  /\ Targeted(new)
           /\ \E g, r : Projects(new, bd, g, r) /\ Bounded(new, r) /\ TrailMap(new, bd, b, t, g)
<1> DEFINE L == Len(bd[b].stmts)
           n == Len(bd) + 1
           M == Len(new[n].stmts)
           g == [l \in Locations(new) |-> IF l[1] = n THEN <<t, 1>> ELSE l]
           r == [l \in Locations(new) |-> IF l[1] = n THEN M + 2 - l[2] ELSE 0]
<1>1. /\ new \in Body /\ Len(new) = Len(bd) + 1 /\ Len(bd) \in Nat
      /\ \A c \in 1..Len(bd) : c \in 1..Len(new) /\ c # n /\ (c # b => new[c] = bd[c])
      /\ n \in 1..Len(new) /\ b # n /\ \A c \in 1..Len(new) : c = n \/ c \in 1..Len(bd)
  BY BlocksOf DEF Trailed
<1>2. Blocks(new) = 1..Len(bd) + 1 /\ Blocks(bd) = 1..Len(bd) /\ Blocks(bd) \subseteq Blocks(new)
  BY <1>1, BlocksOf
<1>3. /\ new[b].stmts = bd[b].stmts
      /\ new[b].term = [bd[b].term EXCEPT !.to = {n}]
      /\ bd[b].term.to = {t} /\ new[n].term.at = Nowhere /\ new[n].term.to = {t}
      /\ \A j \in 1..M : new[n].stmts[j].at = Nowhere
  BY DEF Trailed
<1>4. L \in Nat /\ M \in Nat
  BY <1>1, TermFacts, ItemFacts
<1>5. t \in Blocks(bd) /\ t # n
  BY <1>1, <1>2, <1>3 DEF Targeted
<1>6. new[b].term.to = {n}
  BY <1>3, TermFacts, Redirected
<1>7. \A l \in Locations(new) :
        /\ l[1] = n => g[l] = <<t, 1>> /\ r[l] = M + 2 - l[2]
        /\ l[1] # n => g[l] = l /\ r[l] = 0
  OBVIOUS
<1>8. Targeted(new)
  <2>1. ASSUME NEW c \in Blocks(new) PROVE new[c].term.to \subseteq Blocks(new)
    <3>1. CASE c = b
      BY <1>1, <1>2, <1>6, <3>1
    <3>2. CASE c = n
      BY <1>2, <1>3, <1>5, <3>2
    <3>3. CASE c # b /\ c # n
      BY <1>1, <1>2, <3>3 DEF Targeted
    <3>4. QED
      BY <3>1, <3>2, <3>3
  <2>2. QED
    BY <2>1 DEF Targeted
<1>9. \A l \in Locations(new) : Successors(new, l) \subseteq Locations(new)
  BY <1>1, <1>8, NextIsThere
(* The locations of the new body.                                           *)
<1>10. ASSUME NEW l \in Locations(new)
       PROVE  \/ /\ l[1] \in 1..Len(bd) /\ l[1] # b /\ l[2] \in 1..Len(bd[l[1]].stmts) + 1
                 /\ l = <<l[1], l[2]>>
              \/ l[2] \in 1..L /\ l = <<b, l[2]>>
              \/ l = <<b, L + 1>>
              \/ l[2] \in 1..M /\ l = <<n, l[2]>>
              \/ l = <<n, M + 1>>
  <2>1. l = <<l[1], l[2]>> /\ l[1] \in 1..Len(new) /\ l[2] \in 1..Len(new[l[1]].stmts) + 1
    BY <1>1, PlaceOf
  <2>2. CASE l[1] = b
    <3>1. l[2] \in 1..L + 1
      BY <1>3, <2>1, <2>2
    <3> HIDE DEF L
    <3>2. l[2] \in 1..L \/ l[2] = L + 1
      BY <1>4, <3>1
    <3>3. QED
      BY <2>1, <2>2, <3>2
  <2>3. CASE l[1] = n
    <3>1. l[2] \in 1..M + 1
      BY <2>1, <2>3
    <3> HIDE DEF M, n
    <3>2. l[2] \in 1..M \/ l[2] = M + 1
      BY <1>4, <3>1
    <3>3. QED
      BY <2>1, <2>3, <3>2
  <2>4. CASE l[1] # b /\ l[1] # n
    BY <1>1, <2>1, <2>4
  <2>5. QED
    BY <2>2, <2>3, <2>4
<1> HIDE DEF g, r
<1>11. \A u \in Blocks(bd) : <<u, 1>> \in Locations(new) /\ g[<<u, 1>>] = <<u, 1>>
  <2>1. SUFFICES ASSUME NEW u \in Blocks(bd)
                 PROVE  <<u, 1>> \in Locations(new) /\ g[<<u, 1>>] = <<u, 1>>
    BY Zenon
  <2>2. <<u, 1>> \in Locations(new)
    BY <1>1, <1>2, FirstItem
  <2>3. <<u, 1>>[1] # n
    BY <1>1, <1>2
  <2>4. QED
    BY <1>7, <2>2, <2>3
<1>12. ASSUME NEW c \in 1..Len(bd), c # b, NEW j \in 1..Len(bd[c].stmts) + 1
       PROVE  /\ <<c, j>> \in Locations(new) /\ <<c, j>> \in Locations(bd)
              /\ g[<<c, j>>] = <<c, j>> /\ Copied(new, <<c, j>>, bd, <<c, j>>, g)
  <2>1. \A k \in 1..Len(bd[c].stmts) + 1 : g[<<c, k>>] = <<c, k>>
    <3>1. SUFFICES ASSUME NEW k \in 1..Len(bd[c].stmts) + 1 PROVE g[<<c, k>>] = <<c, k>>
      OBVIOUS
    <3>2. <<c, k>> \in Locations(new) /\ <<c, k>>[1] # n
      BY <1>1, <1>12, PlaceFacts, Zenon
    <3>3. QED
      BY <1>7, <3>2, Zenon
  <2>2. c \in 1..Len(new) /\ new[c] = bd[c]
    BY <1>1, <1>12
  <2>3. QED
    BY <1>1, <1>11, <2>1, <2>2, SameBlock, ZenonT(60)
<1>13. ASSUME NEW j \in 1..L + 1
       PROVE  /\ <<b, j>> \in Locations(new) /\ <<b, j>> \in Locations(bd)
              /\ g[<<b, j>>] = <<b, j>> /\ r[<<b, j>>] = 0
  <2>1. j \in 1..Len(new[b].stmts) + 1
    BY <1>3
  <2>2. <<b, j>> \in Locations(new) /\ <<b, j>>[1] # n
    BY <1>1, <2>1, PlaceFacts
  <2>3. QED
    BY <1>7, <2>2, PlaceFacts
<1>14. ASSUME NEW j \in 1..L
       PROVE  j \in 1..L + 1 /\ Copied(new, <<b, j>>, bd, <<b, j>>, g)
  <2>1. j \in 1..L + 1 /\ j + 1 \in 1..L + 1
    <3> HIDE DEF L
    <3>1. QED
      BY <1>4
  <2>2. /\ j \in 1..Len(new[b].stmts) /\ new[b].stmts[j] = bd[b].stmts[j]
        /\ g[<<b, j + 1>>] = <<b, j + 1>>
    BY <1>3, <1>13, <2>1
  <2>3. QED
    BY <1>1, <2>1, <2>2, SameStatement, Zenon
<1>15. ASSUME NEW j \in 1..M + 1
       PROVE  <<n, j>> \in Locations(new) /\ g[<<n, j>>] = <<t, 1>> /\ r[<<n, j>>] = M + 2 - j
  <2>1. <<n, j>> \in Locations(new) /\ <<n, j>>[1] = n /\ <<n, j>>[2] = j
    BY <1>1, PlaceFacts, Zenon
  <2>2. QED
    BY <1>7, <2>1, Zenon
<1>16. /\ L + 1 \in 1..L + 1 /\ Copied(new, <<b, L + 1>>, bd, <<b, L + 1>>, g)
       /\ Successors(new, <<b, L + 1>>) = {<<n, 1>>}
  <2>1. L + 1 \in 1..L + 1
    <3> HIDE DEF L
    <3>1. QED
      BY <1>4
  <2>2. /\ IsTerm(bd, <<b, L + 1>>) /\ ItemAt(bd, <<b, L + 1>>) = bd[b].term
        /\ <<b, L + 1>> \in Locations(bd)
    BY <2>1, PlaceFacts
  <2>3. IsTerm(new, <<b, L + 1>>) /\ ItemAt(new, <<b, L + 1>>) = new[b].term
    <3>1. L + 1 \in 1..Len(new[b].stmts) + 1 /\ L + 1 = Len(new[b].stmts) + 1
      BY <1>3, <2>1
    <3>2. QED
      BY <1>1, <3>1, PlaceFacts, SMTT(30)
  <2>4. Bared(new, <<b, L + 1>>) = Bared(bd, <<b, L + 1>>)
    <3>1. \A x : [[bd[b].term EXCEPT !.to = {n}] EXCEPT !.to = x] = [bd[b].term EXCEPT !.to = x]
      <4> DEFINE term == bd[b].term
      <4>1. term \in Terminator
        BY TermFacts
      <4> HIDE DEF term
      <4>2. \A x : [[term EXCEPT !.to = {n}] EXCEPT !.to = x] = [term EXCEPT !.to = x]
        BY <4>1, Zenon DEF Terminator
      <4>3. QED
        BY <4>2, Zenon DEF term
    <3>2. QED
      BY <1>3, <2>2, <2>3, <3>1, Zenon DEF Bared
  <2>5. /\ Successors(new, <<b, L + 1>>) = {<<n, 1>>}
        /\ Successors(bd, <<b, L + 1>>) = {<<t, 1>>}
    BY <1>3, <1>6, <2>2, <2>3, ZenonT(60) DEF Successors
  <2>6. g[<<n, 1>>] = <<t, 1>>
    <3>1. 1 \in 1..M + 1
      <4> HIDE DEF M
      <4>1. QED
        BY <1>4
    <3>2. QED
      BY <1>15, <3>1
  <2>7. /\ {g[x] : x \in Successors(new, <<b, L + 1>>)} = Successors(bd, <<b, L + 1>>)
        /\ OneNext(new, <<b, L + 1>>)
    BY <2>5, <2>6, Zenon DEF OneNext
  <2>8. QED
    BY <2>1, <2>2, <2>3, <2>4, <2>5, <2>7 DEF Copied
<1>17. ASSUME NEW j \in 1..M
       PROVE  /\ j \in 1..M + 1 /\ Added(new, <<n, j>>, g, r)
              /\ j # M + 1 /\ Successors(new, <<n, j>>) = {<<n, j + 1>>}
  <2>1. /\ j \in 1..M + 1 /\ j # M + 1 /\ j + 1 \in 1..M + 1
        /\ M + 2 - (j + 1) < M + 2 - j
    <3> HIDE DEF M
    <3>1. QED
      BY <1>4
  <2>2. ~IsTerm(new, <<n, j>>) /\ ItemAt(new, <<n, j>>) = new[n].stmts[j]
    <3> HIDE DEF n
    <3>1. new \in Body /\ n \in 1..Len(new)
      BY <1>1
    <3>2. QED
      BY ONLY <2>1, <3>1, PlaceFacts
  <2>3. ~Own(new, <<n, j>>) /\ Successors(new, <<n, j>>) = {<<n, j + 1>>}
    BY <1>3, <2>2 DEF Own, Successors
  <2>4. g[<<n, j + 1>>] = g[<<n, j>>] /\ r[<<n, j + 1>>] < r[<<n, j>>]
    BY <1>15, <2>1, Zenon
  <2>5. OneNext(new, <<n, j>>)
    BY <2>3, Zenon DEF OneNext
  <2>6. QED
    BY <2>1, <2>3, <2>4, <2>5, Zenon DEF Added
<1>18. /\ M + 1 \in 1..M + 1 /\ Added(new, <<n, M + 1>>, g, r)
       /\ Successors(new, <<n, M + 1>>) = {<<t, 1>>}
  <2>1. M + 1 \in 1..M + 1 /\ 0 < M + 2 - (M + 1)
    <3> HIDE DEF M
    <3>1. QED
      BY <1>4
  <2>2. IsTerm(new, <<n, M + 1>>) /\ ItemAt(new, <<n, M + 1>>) = new[n].term
    BY <1>1, <2>1, PlaceFacts
  <2>3. ~Own(new, <<n, M + 1>>) /\ Successors(new, <<n, M + 1>>) = {<<t, 1>>}
    BY <1>3, <2>2 DEF Own, Successors
  <2>4. g[<<t, 1>>] = g[<<n, M + 1>>] /\ r[<<t, 1>>] = 0 /\ r[<<n, M + 1>>] = M + 2 - (M + 1)
    <3>1. <<t, 1>> \in Locations(new) /\ g[<<t, 1>>] = <<t, 1>> /\ <<t, 1>>[1] # n
      BY <1>5, <1>11
    <3>2. r[<<t, 1>>] = 0
      BY <1>7, <3>1
    <3>3. QED
      BY <1>15, <2>1, <3>1, <3>2
  <2>5. OneNext(new, <<n, M + 1>>)
    BY <2>3, Zenon DEF OneNext
  <2>6. r[<<t, 1>>] < r[<<n, M + 1>>]
    BY <2>1, <2>4
  <2>7. QED
    BY <2>1, <2>3, <2>4, <2>5, <2>6 DEF Added
<1>19. ASSUME NEW l \in Locations(new)
       PROVE  /\ g[l] \in Locations(bd) /\ r[l] \in Nat /\ r[l] < M + 2
              /\ Copied(new, l, bd, g[l], g) \/ Added(new, l, g, r)
              /\ Own(new, l) => g[l] = l
              /\ l[1] # n => Copied(new, l, bd, g[l], g)
  <2>1. M \in Nat /\ \A j \in 1..M + 1 : M + 2 - j \in Nat /\ M + 2 - j < M + 2
    <3> HIDE DEF M
    <3>1. QED
      BY <1>4
  <2>2. CASE /\ l[1] \in 1..Len(bd) /\ l[1] # b /\ l[2] \in 1..Len(bd[l[1]].stmts) + 1
             /\ l = <<l[1], l[2]>>
    <3>1. l[1] # n
      BY <1>1, <2>2
    <3>2. r[l] = 0 /\ g[l] = l
      BY <1>7, <3>1
    <3>3. QED
      BY <1>12, <2>1, <2>2, <3>2
  <2>3. CASE l[2] \in 1..L /\ l = <<b, l[2]>>
    <3>1. l[2] \in 1..L + 1 /\ Copied(new, l, bd, l, g)
      BY <1>14, <2>3
    <3>2. g[l] = l /\ r[l] = 0 /\ l \in Locations(bd)
      BY <1>13, <2>3, <3>1, Zenon
    <3>3. QED
      BY <2>1, <3>1, <3>2
  <2>4. CASE l = <<b, L + 1>>
    <3>1. g[l] = l /\ r[l] = 0 /\ l \in Locations(bd)
      BY <1>13, <1>16, <2>4
    <3>2. QED
      BY <1>16, <2>1, <2>4, <3>1
  <2>5. ASSUME NEW j \in 1..M + 1, l = <<n, j>>, Added(new, <<n, j>>, g, r)
        PROVE  /\ g[l] \in Locations(bd) /\ r[l] \in Nat /\ r[l] < M + 2
               /\ Copied(new, l, bd, g[l], g) \/ Added(new, l, g, r)
               /\ Own(new, l) => g[l] = l
               /\ l[1] = n
    <3>1. g[l] = <<t, 1>> /\ r[l] = M + 2 - j
      BY <1>15, <2>5, Zenon
    <3>2. <<t, 1>> \in Locations(bd)
      BY <1>5, FirstItem
    <3>3. r[l] \in Nat /\ r[l] < M + 2
      BY <2>1, <3>1
    <3>4. QED
      BY <2>5, <3>1, <3>2, <3>3, Zenon DEF Added
  <2>6. CASE l[2] \in 1..M /\ l = <<n, l[2]>>
    BY <1>17, <2>5, <2>6
  <2>7. CASE l = <<n, M + 1>>
    BY <1>18, <2>5, <2>7, Zenon
  <2>8. QED
    BY <1>10, <2>2, <2>3, <2>4, <2>6, <2>7
<1>20. ASSUME NEW m \in Locations(bd)
       PROVE  \E l \in Locations(new) : g[l] = m /\ Copied(new, l, bd, m, g)
  <2>1. m = <<m[1], m[2]>> /\ m[1] \in 1..Len(bd) /\ m[2] \in 1..Len(bd[m[1]].stmts) + 1
    BY PlaceOf
  <2>2. CASE m[1] # b
    BY <1>12, <2>1, <2>2
  <2>3. CASE m[1] = b
    <3>1. m[2] \in 1..L + 1
      BY <2>1, <2>3
    <3>2. m[2] \in 1..L \/ m[2] = L + 1
      <4> HIDE DEF L
      <4>1. QED
        BY <1>4, <3>1
    <3>3. QED
      BY <1>13, <1>14, <1>16, <2>1, <2>3, <3>1, <3>2, Zenon
  <2>4. QED
    BY <2>2, <2>3
<1>21. \A k, l \in Locations(new) : Own(new, k) /\ Own(new, l) /\ g[k] = g[l] => k = l
  BY <1>19
<1>22. g \in [Locations(new) -> Locations(bd)] /\ r \in [Locations(new) -> Nat]
  <2>1. g = [l \in Locations(new) |-> g[l]] /\ r = [l \in Locations(new) |-> r[l]]
    BY DEF g, r
  <2>2. QED
    BY <1>19, <2>1, Zenon
<1>23. Projects(new, bd, g, r)
  BY <1>2, <1>9, <1>11, <1>19, <1>20, <1>21, <1>22 DEF Projects
<1>24. M + 2 \in Nat
  <2> HIDE DEF M
  <2>1. QED
    BY <1>4
<1>25. Bounded(new, r)
  BY <1>19, <1>24 DEF Bounded
<1>26. ASSUME NEW l \in Locations(new), l[1] = n
       PROVE  /\ ~Own(new, l)
              /\ Successors(new, l) = {IF l[2] = M + 1 THEN <<t, 1>> ELSE <<n, l[2] + 1>>}
  <2>1. CASE l[2] \in 1..M /\ l = <<n, l[2]>>
    BY <1>17, <2>1 DEF Added
  <2>2. CASE l = <<n, M + 1>>
    BY <1>18, <2>2 DEF Added
  <2>3. QED
    BY <1>1, <1>10, <1>26, <2>1, <2>2
<1>27. ASSUME NEW l \in Locations(new), l[1] # n, l # <<b, L + 1>>, NEW y \in Successors(new, l)
       PROVE  y[1] # n
  <2>1. /\ l = <<l[1], l[2]>> /\ l[1] \in 1..Len(new)
        /\ IsTerm(new, l) => /\ l[2] = Len(new[l[1]].stmts) + 1
                             /\ ItemAt(new, l) = new[l[1]].term
    BY <1>1, PlaceOf
  <2>2. CASE IsTerm(new, l)
    <3>1. PICK u \in new[l[1]].term.to : y = <<u, 1>>
      BY <1>27, <2>1, <2>2 DEF Successors
    <3>2. l[1] # b
      BY <1>3, <1>27, <2>1, <2>2, Zenon
    <3>3. u \in Blocks(bd)
      BY <1>1, <1>2, <1>27, <2>1, <3>2 DEF Targeted
    <3>4. u # n
      BY <1>1, <1>2, <3>3
    <3>5. QED
      BY <3>1, <3>4
  <2>3. CASE ~IsTerm(new, l)
    BY <1>27, <2>3 DEF Successors
  <2>4. QED
    BY <2>2, <2>3
<1>28. /\ <<b, L + 1>> \in Locations(new) /\ <<b, L + 1>> \in Locations(bd)
       /\ <<b, L + 1>>[1] # n /\ <<t, 1>> \in Locations(new)
  BY <1>1, <1>5, <1>11, <1>13, <1>16
<1>29. \A l \in Locations(new) : l[1] # n => Copied(new, l, bd, l, g)
  BY <1>7, <1>19
<1>30. TrailMap(new, bd, b, t, g)
  BY <1>5, <1>7, <1>16, <1>26, <1>27, <1>28, <1>29, ZenonT(60) DEF TrailMap
<1>31. QED
  BY <1>8, <1>23, <1>25, <1>30

LEMMA TrailedProjects ==
    ASSUME NEW bd \in Body, Targeted(bd), NEW b \in 1..Len(bd), NEW t, NEW new,
           Trailed(bd, new, b, t)
    PROVE  Projected(new, bd) /\ Targeted(new)
BY TrailMapped DEF Projected, Bounded

-----------------------------------------------------------------------------
(* A patch is made of these edits.                                          *)

AllInserted(stmts) == \A j \in 1..Len(stmts) : stmts[j].at = Nowhere

LEMMA PadProjects ==
    ASSUME NEW bd \in Body, Targeted(bd), NEW b \in 1..Len(bd), NEW stmts \in Seq(Statement),
           AllInserted(stmts)
    PROVE  LET new == Apply(bd, b, stmts, bd[b].term, <<>>) IN
           /\ new \in Body /\ Projected(new, bd) /\ Targeted(new) /\ Padded(bd, new, b)
           /\ Len(new) = Len(bd) /\ \A c \in 1..Len(bd) : c # b => new[c] = bd[c]
           /\ new[b].stmts = Joined(bd[b].stmts, stmts) /\ new[b].term = bd[b].term
<1> DEFINE new == Apply(bd, b, stmts, bd[b].term, <<>>)
           old == bd[b].stmts
<1>1. /\ Restated(bd, new, b) /\ Len(new[b].stmts) >= Len(old)
      /\ \A j \in 1..Len(old) : new[b].stmts[j] = old[j]
      /\ new[b].stmts = Joined(old, stmts)
  BY ApplyInPlace, Zenon
<1>2. old \in Seq(Statement)
  BY TermFacts
<1> HIDE DEF new, old
<1>3. ASSUME NEW j \in 1..Len(new[b].stmts), j > Len(old)
      PROVE  new[b].stmts[j].at = Nowhere
  <2>1. /\ Len(Joined(old, stmts)) = Len(old) + Len(stmts)
        /\ Len(old) \in Nat /\ Len(stmts) \in Nat
        /\ \A k \in 1..Len(stmts) : Joined(old, stmts)[Len(old) + k] = stmts[k]
    BY <1>2, ConcatFacts DEF Joined
  <2>2. j - Len(old) \in 1..Len(stmts) /\ Len(old) + (j - Len(old)) = j
    BY <1>1, <1>3, <2>1
  <2>3. Joined(old, stmts)[j] = stmts[j - Len(old)]
    BY <2>1, <2>2, Zenon
  <2>4. QED
    BY <1>1, <2>2, <2>3 DEF AllInserted
<1>4. Padded(bd, new, b)
  BY <1>1, <1>3 DEF Padded, Restated, old
<1>5. Projected(new, bd) /\ Targeted(new)
  BY <1>4, PaddedProjects
<1>6. QED
  BY <1>1, <1>4, <1>5 DEF Restated, new, old

(* A hook in front of a terminator.                                         *)
LEMMA InFrontProjects ==
    ASSUME NEW bd \in Body, Targeted(bd), NEW b \in 1..Len(bd), NEW stmts \in Seq(Statement),
           AllInserted(stmts), NEW of \in Names, NEW args \in Operands, NEW blk \in BasicBlock,
           blk.term = bd[b].term, blk.cleanup = bd[b].cleanup, blk.stmts = <<>>
    PROVE  LET new == InFront(bd, b, stmts, of, args, blk)
               mid == Apply(bd, b, stmts, bd[b].term, <<>>)
           IN  /\ new \in Body /\ Projected(new, bd) /\ Targeted(new)
               /\ Cut(mid, new, b, Len(mid[b].stmts) + 1)
<1> DEFINE n == Len(bd) + 1
           hook == HookCall("before", of, args, {n}, bd[b].term.unwind)
           new == Patch(bd, b, stmts, hook, blk)
           mid == Apply(bd, b, stmts, bd[b].term, <<>>)
<1>1. InFront(bd, b, stmts, of, args, blk) = new
  BY DEF InFront
<1>2. /\ mid \in Body /\ Projected(mid, bd) /\ Targeted(mid)
      /\ Len(mid) = Len(bd) /\ \A c \in 1..Len(bd) : c # b => mid[c] = bd[c]
      /\ mid[b].stmts = Joined(bd[b].stmts, stmts) /\ mid[b].term = bd[b].term
  BY PadProjects, Zenon
<1> HIDE DEF mid
<1>3. Moved(bd, new, b)
  BY <1>1, HookInFront
<1>4. hook \in Terminator
  <2>1. {n} \in SUBSET Nat /\ bd[b].term.unwind \in UnwindAction /\ "before" \in HookNames
    BY TermFacts DEF HookNames
  <2> HIDE DEF n
  <2>2. QED
    BY <2>1, HookCallFacts
<1> HIDE DEF hook
<1>5. new[b].stmts = Joined(bd[b].stmts, stmts) /\ new[n] = blk /\ GrownAt(bd, new, b)
  BY <1>4, ApplyFacts
<1> HIDE DEF new
<1>6. /\ new \in Body /\ Len(new) = n /\ \A c \in 1..Len(bd) : c # b => new[c] = bd[c]
      /\ new[b].term.at = Nowhere /\ new[b].term.to = {n} /\ new[n].term = bd[b].term
  BY <1>3 DEF Moved, GrownAt, IsHook
<1> DEFINE L == Len(mid[b].stmts)
<1>7. L \in Nat
  BY <1>2, TermFacts, ItemFacts
<1>8. L + 1 - 1 = L /\ L - (L + 1 - 1) = 0 /\ L + 1 \in 1..L + 1
  <2> HIDE DEF L
  <2>1. QED
    BY <1>7
<1>9. Cut(mid, new, b, L + 1)
  <2>1. /\ Len(new[b].stmts) = L + 1 - 1
        /\ \A j \in 1..L + 1 - 1 : new[b].stmts[j] = mid[b].stmts[j]
    BY <1>2, <1>5, <1>8
  <2>2. Len(new[n].stmts) = 0
    BY <1>5
  <2>3. \A j \in 1..Len(new[n].stmts) : new[n].stmts[j] = mid[b].stmts[L + 1 - 1 + j]
    BY <2>2
  <2>4. \A c \in 1..Len(mid) : c # b => new[c] = mid[c]
    BY <1>2, <1>6
  <2>5. QED
    BY <1>2, <1>6, <1>8, <2>1, <2>2, <2>3, <2>4 DEF Cut
<1>10. Projected(new, mid) /\ Targeted(new)
  BY <1>2, <1>8, <1>9, CutProjects
<1>11. Projected(new, bd)
  BY <1>2, <1>6, <1>10, ProjectedTwice
<1>12. QED
  BY <1>1, <1>6, <1>9, <1>10, <1>11 DEF mid

(* A hook behind a terminator with one target.                              *)
LEMMA BehindProjects ==
    ASSUME NEW bd \in Body, Targeted(bd), NEW b \in 1..Len(bd), NEW stmts \in Seq(Statement),
           AllInserted(stmts), NEW of \in Names, NEW args \in Operands,
           NEW refs \in Seq(Statement), AllInserted(refs), NEW t, bd[b].term.to = {t}
    PROVE  LET new == Behind(bd, b, stmts, of, args, refs)
               mid == Apply(bd, b, stmts, bd[b].term, <<>>)
           IN  new \in Body /\ Projected(new, bd) /\ Targeted(new) /\ Trailed(mid, new, b, t)
<1> DEFINE n == Len(bd) + 1
           term == [bd[b].term EXCEPT !.to = {n}]
           hook == HookCall("after", of, args, bd[b].term.to, bd[b].term.unwind)
           blk == [stmts |-> refs, term |-> hook, cleanup |-> FALSE]
           new == Patch(bd, b, stmts, term, blk)
           mid == Apply(bd, b, stmts, bd[b].term, <<>>)
<1>1. Behind(bd, b, stmts, of, args, refs) = new
  BY DEF Behind
<1>2. /\ mid \in Body /\ Projected(mid, bd) /\ Targeted(mid)
      /\ Len(mid) = Len(bd) /\ \A c \in 1..Len(bd) : c # b => mid[c] = bd[c]
      /\ mid[b].stmts = Joined(bd[b].stmts, stmts) /\ mid[b].term = bd[b].term
  BY PadProjects
<1> HIDE DEF mid
<1>3. Followed(bd, new, b)
  BY <1>1, HookBehind
<1>4. /\ {n} \in SUBSET Nat /\ bd[b].term.unwind \in UnwindAction /\ "after" \in HookNames
      /\ bd[b].term \in Terminator /\ bd[b].term.to \in SUBSET Nat
  BY TermFacts DEF HookNames
<1>5. hook \in Terminator
  <2> HIDE DEF n
  <2>1. QED
    BY <1>4, HookCallFacts
<1>6. term \in Terminator
  <2> HIDE DEF n
  <2>1. QED
    BY <1>4, Zenon DEF Terminator
<1> HIDE DEF hook
<1>7. blk \in BasicBlock /\ blk.stmts = refs
  BY <1>5 DEF BasicBlock
<1> HIDE DEF term, blk
<1>8. new[b].stmts = Joined(bd[b].stmts, stmts) /\ new[n] = blk /\ GrownAt(bd, new, b)
  BY <1>6, <1>7, ApplyFacts
<1> HIDE DEF new
<1>9. /\ new \in Body /\ Len(new) = n /\ \A c \in 1..Len(bd) : c # b => new[c] = bd[c]
      /\ new[b].term = [bd[b].term EXCEPT !.to = {n}]
      /\ new[n].term.at = Nowhere /\ new[n].term.to = {t}
  BY <1>3 DEF Followed, GrownAt, IsHook
<1>10. Trailed(mid, new, b, t)
  <2>1. /\ \A c \in 1..Len(mid) : c # b => new[c] = mid[c]
        /\ new[b].stmts = mid[b].stmts /\ new[n].stmts = refs
    BY <1>2, <1>7, <1>8, <1>9
  <2>2. QED
    BY <1>2, <1>9, <2>1 DEF Trailed, AllInserted
<1>11. Projected(new, mid) /\ Targeted(new)
  BY <1>2, <1>10, TrailedProjects
<1>12. Projected(new, bd)
  BY <1>2, <1>9, <1>11, ProjectedTwice
<1>13. QED
  BY <1>1, <1>9, <1>10, <1>11, <1>12 DEF mid

-----------------------------------------------------------------------------
(* The effects on the way from a location to the user's next item label the *)
(* locations of a body; an edit that inserts items puts its own effects in  *)
(* front of the labels behind it.  A body is described by what it runs      *)
(* before each item of the program (front), after it on its normal edges    *)
(* (rear) and first of all (start).                                         *)

-----------------------------------------------------------------------------
(* What the inserted code does from a location to the user's next item.     *)

(* What a hook does to the log: what it reports, on which operands, its     *)
(* unwind.                                                                  *)
EffectType == [what : Seq(Names), on : Operands, unwind : UnwindAction]
Effects(bd, l) == Reach(bd)[l].effects

(* Joining puts one list behind the other.                                  *)
LEMMA JoinedFacts ==
    ASSUME NEW x \in Seq(EffectType), NEW y \in Seq(EffectType)
    PROVE  /\ Joined(x, y) \in Seq(EffectType)
           /\ Joined(<<>>, x) = x /\ Joined(x, <<>>) = x
           /\ Joined(x, y) = <<>> <=> x = <<>> /\ y = <<>>
<1>1. x \o y \in Seq(EffectType)
  BY ConcatProperties
<1>2. <<>> \o x = x /\ x \o <<>> = x
  BY ConcatEmptySeq
<1>3. x \o y = <<>> <=> x = <<>> /\ y = <<>>
  BY ConcatEqualIffEmpty
<1>4. QED
  BY <1>1, <1>2, <1>3 DEF Joined

(* Joining three lists does not depend on how they are grouped.             *)
LEMMA JoinedApart ==
    ASSUME NEW x \in Seq(EffectType), NEW y \in Seq(EffectType), NEW z \in Seq(EffectType)
    PROVE  Joined(Joined(x, y), z) = Joined(x, Joined(y, z))
<1>1. (x \o y) \o z = x \o (y \o z)
  BY ConcatAssociative
<1>2. QED
  BY <1>1 DEF Joined

(* No effect at all is a list of effects.                                   *)
LEMMA NoEffects == <<>> \in Seq(EffectType)
OBVIOUS

(* A list that starts with an effect is not empty.                          *)
LEMMA JoinedMore ==
    ASSUME NEW e \in EffectType, NEW x \in Seq(EffectType)
    PROVE  <<e>> \in Seq(EffectType) /\ Joined(<<e>>, x) # <<>>
<1>1. PICK s \in Seq(EffectType) : s = <<e>>
  <2>1. <<e>> \in Seq(EffectType)
    OBVIOUS
  <2>2. QED
    BY <2>1, Zenon
<1>2. s # <<>>
  BY <1>1
<1>3. QED
  BY <1>1, <1>2, JoinedFacts, Zenon

(* What the item at a location does is an effect.                           *)
LEMMA EffectAtType ==
    ASSUME NEW bd \in Body, NEW l \in Locations(bd)
    PROVE  EffectAt(bd, l) \in EffectType
<1>1. CASE IsTerm(bd, l)
  <2>1. ItemAt(bd, l) \in Terminator
    BY <1>1, BaredFacts
  <2> DEFINE item == ItemAt(bd, l)
  <2>2. /\ item.fn \in Names /\ item.of \in Names /\ item.args \in Operands
        /\ item.unwind \in UnwindAction
    BY <2>1 DEF Terminator
  <2> HIDE DEF item
  <2>3. <<item.fn, item.of>> \in Seq(Names)
    BY <2>2
  <2>4. HookEffect(item) \in EffectType
    BY <2>2, <2>3, Zenon DEF HookEffect, Effect, EffectType
  <2>5. QED
    BY <1>1, <2>4 DEF EffectAt, item
<1>2. CASE ~IsTerm(bd, l)
  <2>1. /\ l[1] \in 1..Len(bd) /\ l[2] \in 1..Len(bd[l[1]].stmts)
        /\ ItemAt(bd, l) = bd[l[1]].stmts[l[2]]
    BY <1>2, PlaceOf
  <2>2. bd[l[1]].stmts \in Seq(Statement)
    BY <2>1, TermFacts
  <2>3. ItemAt(bd, l) \in Statement
    BY <2>1, <2>2
  <2>4. ItemAt(bd, l).effect \in EffectType
    BY <2>3 DEF Statement, EffectType
  <2>5. QED
    BY <1>2, <2>4 DEF EffectAt
<1>3. QED
  BY <1>1, <1>2

(* The effect of a location depends on the item there only.                 *)
LEMMA SameEffect ==
    ASSUME NEW new \in Body, NEW bd \in Body, NEW l \in Locations(new), NEW m \in Locations(bd),
           Bared(new, l) = Bared(bd, m), IsTerm(new, l) <=> IsTerm(bd, m)
    PROVE  EffectAt(new, l) = EffectAt(bd, m)
<1>1. ASSUME NEW x \in Terminator, NEW y \in Terminator,
             [x EXCEPT !.to = {}] = [y EXCEPT !.to = {}]
      PROVE  HookEffect(x) = HookEffect(y)
  <2>1. x.fn = y.fn /\ x.of = y.of /\ x.args = y.args /\ x.unwind = y.unwind
    <3> DEFINE u == [x EXCEPT !.to = {}]
               v == [y EXCEPT !.to = {}]
    <3>1. u.fn = x.fn /\ u.of = x.of /\ u.args = x.args /\ u.unwind = x.unwind
      BY DEF Terminator
    <3>2. v.fn = y.fn /\ v.of = y.of /\ v.args = y.args /\ v.unwind = y.unwind
      BY DEF Terminator
    <3>3. u = v
      BY <1>1
    <3> HIDE DEF u, v
    <3>4. QED
      BY <3>1, <3>2, <3>3
  <2>2. QED
    BY <2>1 DEF HookEffect
<1>2. CASE IsTerm(bd, m)
  <2>1. ItemAt(new, l) \in Terminator /\ ItemAt(bd, m) \in Terminator
    BY <1>2, BaredFacts
  <2>2. QED
    BY <1>1, <1>2, <2>1, Zenon DEF Bared, EffectAt
<1>3. CASE ~IsTerm(bd, m)
  BY <1>3 DEF Bared, EffectAt
<1>4. QED
  BY <1>2, <1>3

(* The effects as labels of the locations: none at an own item, one more at *)
(* an inserted one.                                                         *)
Labelled(bd, label) ==
    /\ label \in [Locations(bd) -> Seq(EffectType)]
    /\ \A l \in Locations(bd) : Own(bd, l) => label[l] = <<>>
    /\ \A l \in Locations(bd) : ~Own(bd, l) =>
          \A x \in Successors(bd, l) : label[l] = Joined(<<EffectAt(bd, l)>>, label[x])

(* From an own item nothing is run before one arrives there.                *)
LEMMA ReachOfOwn ==
    ASSUME NEW bd, NEW l, Reach(bd)[l] = ReachStep(bd, Reach(bd), l), Own(bd, l)
    PROVE  Effects(bd, l) = <<>>
BY DEF ReachStep, Own, Effects

(* From an inserted item one goes on to where it leads.                     *)
LEMMA ReachOfAdded ==
    ASSUME NEW bd, NEW l, Reach(bd)[l] = ReachStep(bd, Reach(bd), l), ~Own(bd, l), NEW to,
           Arrived(Reach(bd)[Onward(bd, l)], to)
    PROVE  Effects(bd, l) = Joined(<<EffectAt(bd, l)>>, Effects(bd, Onward(bd, l)))
<1>1. ASSUME NEW effect
      PROVE  After(Reach(bd), effect, Onward(bd, l)).effects
                = <<effect>> \o Effects(bd, Onward(bd, l))
  BY DEF After, Arrived, Effects
<1>2. Reach(bd)[l] = After(Reach(bd), EffectAt(bd, l), Onward(bd, l))
  BY DEF ReachStep, Own, EffectAt, Onward
<1>3. QED
  BY <1>1, <1>2 DEF Effects, Joined

(* Induction along the inserted code: s counts down to the user's item.     *)
LEMMA AlongInserted ==
    ASSUME NEW bd \in Body, NEW src \in Body, Tagged(src), NEW h, NEW s,
           Projects(bd, src, h, s), NEW K \in Nat, \A l \in Locations(bd) : s[l] < K,
           NEW T, \A l \in Locations(bd) : Own(bd, l) => l \in T,
           \A l \in Locations(bd) : ~Own(bd, l) /\ Onward(bd, l) \in T => l \in T
    PROVE  \A l \in Locations(bd) : l \in T
<1> DEFINE S == {n \in Nat : \A l \in Locations(bd) : s[l] < n => l \in T}
<1>1. s \in [Locations(bd) -> Nat]
  BY DEF Projects
<1>2. 0 \in S
  BY <1>1
<1>3. ASSUME NEW n \in Nat, n \in S PROVE n + 1 \in S
  <2>1. SUFFICES ASSUME NEW l \in Locations(bd), s[l] < n + 1 PROVE l \in T
    OBVIOUS
  <2>2. CASE ~Own(bd, l)
    <3>1. Added(bd, l, h, s)
      BY <2>2, OwnIsCopied
    <3>2. Onward(bd, l) \in Successors(bd, l)
      BY <3>1, OnwardIsNext DEF Added
    <3>3. Onward(bd, l) \in Locations(bd) /\ s[Onward(bd, l)] < s[l]
      BY <3>1, <3>2 DEF Added, Projects
    <3>4. s[Onward(bd, l)] \in Nat /\ s[l] \in Nat
      BY <1>1, <3>3
    <3>5. s[Onward(bd, l)] < n
      BY <2>1, <3>3, <3>4
    <3>6. QED
      BY <1>3, <2>2, <3>3, <3>5
  <2>3. QED
    BY <2>2
<1>4. \A n \in Nat : n \in S => n + 1 \in S
  BY <1>3
<1>5. S \in SUBSET Nat
  OBVIOUS
<1>6. K \in S
  <2> HIDE DEF S
  <2>1. QED
    BY <1>2, <1>4, <1>5, SetInduction
<1>7. QED
  BY <1>6

(* An inserted item leads to one location of the body.                      *)
LEMMA OnwardFacts ==
    ASSUME NEW bd \in Body, NEW src \in Body, Tagged(src), NEW h, NEW s,
           Projects(bd, src, h, s), NEW l \in Locations(bd), ~Own(bd, l)
    PROVE  /\ Onward(bd, l) \in Locations(bd)
           /\ Successors(bd, l) = {Onward(bd, l)}
<1>1. Added(bd, l, h, s)
  BY OwnIsCopied
<1>2. Onward(bd, l) \in Successors(bd, l)
  BY <1>1, OnwardIsNext DEF Added
<1>3. Onward(bd, l) \in Locations(bd)
  BY <1>2 DEF Projects
<1>4. QED
  BY <1>1, <1>2, <1>3 DEF Added, OneNext

(* The effects are such labels, and there are no others.                    *)
LEMMA EffectsLabel ==
    ASSUME NEW bd \in Body, NEW src \in Body, Tagged(src), NEW h, NEW s,
           Projects(bd, src, h, s), NEW K \in Nat, \A l \in Locations(bd) : s[l] < K
    PROVE  Labelled(bd, [l \in Locations(bd) |-> Effects(bd, l)])
<1> DEFINE label == [l \in Locations(bd) |-> Effects(bd, l)]
           T == {l \in Locations(bd) : Effects(bd, l) \in Seq(EffectType)}
<1>1. \A l \in Locations(bd) : Reach(bd)[l] = ReachStep(bd, Reach(bd), l)
  BY ReachEquations
<1>2. \A l \in Locations(bd) : Arrived(Reach(bd)[l], h[l])
  BY ReachesItem
<1>3. \A l \in Locations(bd) : Own(bd, l) => Effects(bd, l) = <<>>
  BY <1>1, ReachOfOwn
<1>4. ASSUME NEW l \in Locations(bd), ~Own(bd, l)
      PROVE  /\ Onward(bd, l) \in Locations(bd)
             /\ Successors(bd, l) = {Onward(bd, l)}
             /\ Effects(bd, l) = Joined(<<EffectAt(bd, l)>>, Effects(bd, Onward(bd, l)))
  <2>1. Onward(bd, l) \in Locations(bd) /\ Successors(bd, l) = {Onward(bd, l)}
    BY <1>4, OnwardFacts
  <2>2. QED
    BY <1>1, <1>2, <1>4, <2>1, ReachOfAdded
<1>5. \A l \in Locations(bd) : Own(bd, l) => l \in T
  BY <1>3, NoEffects, Zenon
<1>6. ASSUME NEW l \in Locations(bd), ~Own(bd, l), Onward(bd, l) \in T PROVE l \in T
  <2>1. EffectAt(bd, l) \in EffectType
    BY EffectAtType
  <2>2. <<EffectAt(bd, l)>> \in Seq(EffectType)
    BY <2>1, NoEffects, JoinedMore
  <2>3. Effects(bd, Onward(bd, l)) \in Seq(EffectType)
    BY <1>6
  <2>4. Joined(<<EffectAt(bd, l)>>, Effects(bd, Onward(bd, l))) \in Seq(EffectType)
    BY <2>2, <2>3, JoinedFacts, Zenon
  <2>5. Effects(bd, l) \in Seq(EffectType)
    BY <1>4, <1>6, <2>4, Zenon
  <2>6. QED
    BY <2>5
<1> HIDE DEF T
<1>7. \A l \in Locations(bd) : l \in T
  BY <1>5, <1>6, AlongInserted
<1>8. \A l \in Locations(bd) : Effects(bd, l) \in Seq(EffectType)
  BY <1>7 DEF T
<1>9. label \in [Locations(bd) -> Seq(EffectType)] /\ \A l \in Locations(bd) : label[l] = Effects(bd, l)
  BY <1>8
<1> HIDE DEF label
<1>10. \A l \in Locations(bd) : ~Own(bd, l) =>
          \A x \in Successors(bd, l) : label[l] = Joined(<<EffectAt(bd, l)>>, label[x])
  BY <1>4, <1>9, Zenon
<1>11. Labelled(bd, label)
  BY <1>3, <1>9, <1>10 DEF Labelled
<1>12. QED
  BY <1>11 DEF label

(* The effects are the only labels that agree with the items.               *)
LEMMA LabelIsEffects ==
    ASSUME NEW bd \in Body, NEW src \in Body, Tagged(src), NEW h, NEW s,
           Projects(bd, src, h, s), NEW K \in Nat, \A l \in Locations(bd) : s[l] < K,
           NEW label, Labelled(bd, label)
    PROVE  \A l \in Locations(bd) : Effects(bd, l) = label[l]
<1> DEFINE e == [l \in Locations(bd) |-> Effects(bd, l)]
           T == {l \in Locations(bd) : e[l] = label[l]}
<1>1. Labelled(bd, e)
  BY EffectsLabel
<1>2. \A l \in Locations(bd) : e[l] = Effects(bd, l)
  OBVIOUS
<1> HIDE DEF e
<1>3. \A l \in Locations(bd) : Own(bd, l) => l \in T
  BY <1>1 DEF Labelled
<1>4. ASSUME NEW l \in Locations(bd), ~Own(bd, l), Onward(bd, l) \in T PROVE l \in T
  <2>1. Onward(bd, l) \in Successors(bd, l)
    BY <1>4, OnwardFacts
  <2>2. /\ e[l] = Joined(<<EffectAt(bd, l)>>, e[Onward(bd, l)])
        /\ label[l] = Joined(<<EffectAt(bd, l)>>, label[Onward(bd, l)])
    BY <1>1, <1>4, <2>1 DEF Labelled
  <2>3. QED
    BY <1>4, <2>2
<1> HIDE DEF T
<1>5. \A l \in Locations(bd) : l \in T
  BY <1>3, <1>4, AlongInserted
<1>6. QED
  BY <1>2, <1>5 DEF T

-----------------------------------------------------------------------------
(* An edit that inserts effects.  more[l] is what it inserts from l on, up  *)
(* to the next item of bd.                                                  *)

(* In front of the item at x: whoever went to x now runs w first.           *)
Inserts(new, bd, g, more, x, w) ==
    /\ more \in [Locations(new) -> Seq(EffectType)] /\ w \in Seq(EffectType)
    /\ x \in Locations(bd) /\ x \in Locations(new) /\ g[x] = x
    /\ \A l \in Locations(new) : more[l] = <<>> =>
          /\ Copied(new, l, bd, g[l], g)
          /\ \A y \in Successors(new, l) :
                IF g[y] = x THEN y = x /\ more[y] = w ELSE more[y] = <<>>
    /\ \A l \in Locations(new) : more[l] # <<>> =>
          /\ ~Own(new, l) /\ g[l] = x
          /\ \A y \in Successors(new, l) :
                y # x /\ g[y] = x /\ more[l] = Joined(<<EffectAt(new, l)>>, more[y])
    /\ \A t \in Blocks(bd) : more[<<t, 1>>] = IF <<t, 1>> = x THEN w ELSE <<>>

(* Behind the item at x: whatever x goes on to runs after w.                *)
Trails(new, bd, g, more, x, w) ==
    /\ more \in [Locations(new) -> Seq(EffectType)] /\ w \in Seq(EffectType)
    /\ x \in Locations(bd)
    /\ \A l \in Locations(new) : more[l] = <<>> =>
          /\ Copied(new, l, bd, g[l], g)
          /\ \A y \in Successors(new, l) : more[y] = IF g[l] = x THEN w ELSE <<>>
    /\ \A l \in Locations(new) : more[l] # <<>> =>
          /\ ~Own(new, l)
          /\ \A y \in Successors(new, l) :
                g[y] = g[l] /\ more[l] = Joined(<<EffectAt(new, l)>>, more[y])
    /\ \A t \in Blocks(bd) : more[<<t, 1>>] = <<>>

Fronted(new, bd, x, w) ==
    \E g, r, more : Projects(new, bd, g, r) /\ Bounded(new, r) /\ Inserts(new, bd, g, more, x, w)
Trailing(new, bd, x, w) ==
    \E g, r, more : Projects(new, bd, g, r) /\ Bounded(new, r) /\ Trails(new, bd, g, more, x, w)

(* Two edits in a row insert a bounded way in front of each item, if each   *)
(* of them does.                                                            *)
LEMMA BoundedTwice ==
    ASSUME NEW new \in Body, NEW bd \in Body, NEW src \in Body, NEW g, NEW r, NEW h, NEW s,
           Projects(new, bd, g, r), Projects(bd, src, h, s),
           NEW K \in Nat, \A l \in Locations(new) : r[l] < K,
           NEW Q \in Nat, \A l \in Locations(bd) : s[l] < Q
    PROVE  Bounded(new, [l \in Locations(new) |-> s[g[l]] * K + r[l]])
<1> DEFINE u == [l \in Locations(new) |-> s[g[l]] * K + r[l]]
<1>1. ASSUME NEW l \in Locations(new) PROVE u[l] < Q * K
  <2>1. g[l] \in Locations(bd) /\ r[l] \in Nat /\ s[g[l]] \in Nat
    BY DEF Projects
  <2>2. s[g[l]] * K + r[l] < Q * K + 0
    BY <2>1, Scaled, Zenon
  <2>3. QED
    BY <2>2
<1>2. Q * K \in Nat
  OBVIOUS
<1> HIDE DEF u
<1>3. QED
  BY <1>1, <1>2 DEF Bounded, u

(* An item two edits keep in turn is kept.                                  *)
LEMMA CopiedTwice ==
    ASSUME NEW new, NEW bd, NEW src, NEW l, NEW k, NEW m, NEW g, NEW h, NEW f,
           Copied(new, l, bd, k, g), Copied(bd, k, src, m, h),
           \A y \in Successors(new, l) : f[y] = h[g[y]]
    PROVE  Copied(new, l, src, m, f)
<1>1. {f[y] : y \in Successors(new, l)} = {h[z] : z \in {g[y] : y \in Successors(new, l)}}
  OBVIOUS
<1>2. {f[y] : y \in Successors(new, l)} = Successors(src, m)
  BY <1>1 DEF Copied
<1>3. QED
  BY <1>2 DEF Copied

(* Two insertions at the same location: the later one runs first.           *)
LEMMA InsertsTwice ==
    ASSUME NEW new \in Body, NEW mid \in Body, NEW bd \in Body, NEW g, NEW r, NEW h, NEW s,
           Projects(new, mid, g, r), Projects(mid, bd, h, s), NEW a, NEW c, NEW x, NEW v, NEW w,
           Inserts(new, mid, g, a, x, v), Inserts(mid, bd, h, c, x, w)
    PROVE  Inserts(new, bd, [l \in Locations(new) |-> h[g[l]]],
                   [l \in Locations(new) |-> Joined(a[l], c[g[l]])], x, Joined(v, w))
<1> DEFINE f == [l \in Locations(new) |-> h[g[l]]]
           more == [l \in Locations(new) |-> Joined(a[l], c[g[l]])]
<1>1. /\ a \in [Locations(new) -> Seq(EffectType)] /\ c \in [Locations(mid) -> Seq(EffectType)]
      /\ v \in Seq(EffectType) /\ w \in Seq(EffectType)
      /\ x \in Locations(new) /\ x \in Locations(mid) /\ x \in Locations(bd)
      /\ g[x] = x /\ h[x] = x
  BY DEF Inserts
<1>2. /\ g \in [Locations(new) -> Locations(mid)]
      /\ \A l \in Locations(new) : Successors(new, l) \subseteq Locations(new)
      /\ \A l \in Locations(mid) : Successors(mid, l) \subseteq Locations(mid)
  BY DEF Projects
<1>3. \A l \in Locations(new) : f[l] = h[g[l]] /\ more[l] = Joined(a[l], c[g[l]])
  OBVIOUS
<1>4. ASSUME NEW l \in Locations(new)
      PROVE  /\ a[l] \in Seq(EffectType) /\ c[g[l]] \in Seq(EffectType)
             /\ more[l] \in Seq(EffectType)
             /\ more[l] = <<>> <=> a[l] = <<>> /\ c[g[l]] = <<>>
  <2>1. a[l] \in Seq(EffectType) /\ c[g[l]] \in Seq(EffectType)
    BY <1>1, <1>2
  <2>2. /\ Joined(a[l], c[g[l]]) \in Seq(EffectType)
        /\ Joined(a[l], c[g[l]]) = <<>> <=> a[l] = <<>> /\ c[g[l]] = <<>>
    BY <2>1, JoinedFacts
  <2>3. QED
    BY <1>3, <2>1, <2>2
<1>5. more \in [Locations(new) -> Seq(EffectType)] /\ Joined(v, w) \in Seq(EffectType)
  <2>1. Joined(v, w) \in Seq(EffectType)
    BY <1>1, JoinedFacts
  <2>2. QED
    BY <1>4, <2>1
<1> HIDE DEF f, more
<1>6. /\ Joined(<<>>, w) = w /\ Joined(<<>>, <<>>) = <<>>
  BY <1>1, NoEffects, JoinedFacts, Zenon
<1>7. ASSUME NEW l \in Locations(new), more[l] = <<>>
      PROVE  /\ Copied(new, l, bd, f[l], f)
             /\ \A y \in Successors(new, l) :
                   IF f[y] = x THEN y = x /\ more[y] = Joined(v, w) ELSE more[y] = <<>>
  <2>1. a[l] = <<>> /\ c[g[l]] = <<>> /\ g[l] \in Locations(mid)
    BY <1>2, <1>4, <1>7
  <2>2. Copied(new, l, mid, g[l], g) /\ Copied(mid, g[l], bd, h[g[l]], h)
    BY <2>1 DEF Inserts
  <2>3. \A y \in Successors(new, l) : f[y] = h[g[y]]
    BY <1>2, <1>3
  <2>4. Copied(new, l, bd, f[l], f)
    BY <1>3, <2>2, <2>3, CopiedTwice
  <2>5. ASSUME NEW y \in Successors(new, l)
        PROVE  IF f[y] = x THEN y = x /\ more[y] = Joined(v, w) ELSE more[y] = <<>>
    <3>1. y \in Locations(new) /\ g[y] \in Successors(mid, g[l])
      BY <1>2, <2>2 DEF Copied
    <3>2. IF g[y] = x THEN y = x /\ a[y] = v ELSE a[y] = <<>>
      BY <2>1 DEF Inserts
    <3>3. IF h[g[y]] = x THEN g[y] = x /\ c[g[y]] = w ELSE c[g[y]] = <<>>
      BY <2>1, <3>1 DEF Inserts
    <3>4. f[y] = h[g[y]] /\ more[y] = Joined(a[y], c[g[y]])
      BY <1>3, <3>1
    <3>5. QED
      BY <1>1, <1>6, <3>2, <3>3, <3>4
  <2>6. QED
    BY <2>4, <2>5
<1>8. ASSUME NEW l \in Locations(new), more[l] # <<>>
      PROVE  /\ ~Own(new, l) /\ f[l] = x
             /\ \A y \in Successors(new, l) :
                   y # x /\ f[y] = x /\ more[l] = Joined(<<EffectAt(new, l)>>, more[y])
  <2>1. CASE a[l] # <<>>
    <3>1. ~Own(new, l) /\ g[l] = x /\ f[l] = x
      BY <1>1, <1>3, <2>1, Zenon DEF Inserts
    <3>2. ASSUME NEW y \in Successors(new, l)
          PROVE  y # x /\ f[y] = x /\ more[l] = Joined(<<EffectAt(new, l)>>, more[y])
      <4>1. /\ y \in Locations(new) /\ y # x /\ g[y] = x
            /\ a[l] = Joined(<<EffectAt(new, l)>>, a[y])
        BY <1>2, <2>1 DEF Inserts
      <4>2. EffectAt(new, l) \in EffectType
        BY EffectAtType
      <4>3. <<EffectAt(new, l)>> \in Seq(EffectType)
        BY <4>2, NoEffects, JoinedMore
      <4>4. a[y] \in Seq(EffectType) /\ c[x] \in Seq(EffectType)
        BY <1>4, <4>1
      <4>5. Joined(Joined(<<EffectAt(new, l)>>, a[y]), c[x])
              = Joined(<<EffectAt(new, l)>>, Joined(a[y], c[x]))
        <5> DEFINE e == <<EffectAt(new, l)>>
        <5>1. e \in Seq(EffectType)
          BY <4>3
        <5> HIDE DEF e
        <5>2. Joined(Joined(e, a[y]), c[x]) = Joined(e, Joined(a[y], c[x]))
          BY <4>4, <5>1, JoinedApart
        <5>3. QED
          BY <5>2 DEF e
      <4>6. more[l] = Joined(a[l], c[x]) /\ more[y] = Joined(a[y], c[x])
        BY <1>3, <3>1, <4>1
      <4>7. QED
        BY <1>1, <1>3, <4>1, <4>5, <4>6
    <3>3. QED
      BY <3>1, <3>2
  <2>2. CASE a[l] = <<>>
    <3>1. c[g[l]] # <<>> /\ g[l] \in Locations(mid)
      BY <1>2, <1>4, <1>8, <2>2
    <3>2. Copied(new, l, mid, g[l], g) /\ ~Own(mid, g[l]) /\ h[g[l]] = x
      BY <2>2, <3>1, Zenon DEF Inserts
    <3>3. ~Own(new, l) /\ f[l] = x
      BY <1>3, <3>1, <3>2, SameOwner DEF Copied, Own
    <3>4. EffectAt(new, l) = EffectAt(mid, g[l])
      BY <3>1, <3>2, SameEffect DEF Copied
    <3>5. ASSUME NEW y \in Successors(new, l)
          PROVE  y # x /\ f[y] = x /\ more[l] = Joined(<<EffectAt(new, l)>>, more[y])
      <4>1. y \in Locations(new) /\ g[y] \in Successors(mid, g[l])
        BY <1>2, <3>2 DEF Copied
      <4>2. /\ g[y] # x /\ h[g[y]] = x
            /\ c[g[l]] = Joined(<<EffectAt(mid, g[l])>>, c[g[y]])
        BY <3>1, <4>1 DEF Inserts
      <4>3. a[y] = <<>>
        BY <2>2, <4>2 DEF Inserts
      <4>4. more[l] = c[g[l]] /\ more[y] = c[g[y]]
        <5>1. c[g[l]] \in Seq(EffectType) /\ c[g[y]] \in Seq(EffectType)
          BY <1>4, <4>1
        <5>2. Joined(<<>>, c[g[l]]) = c[g[l]] /\ Joined(<<>>, c[g[y]]) = c[g[y]]
          BY <5>1, JoinedFacts
        <5>3. QED
          BY <1>3, <2>2, <4>1, <4>3, <5>2
      <4>5. y # x /\ f[y] = x
        BY <1>1, <1>3, <4>1, <4>2
      <4>6. QED
        BY <3>4, <4>2, <4>4, <4>5
    <3>6. QED
      BY <3>3, <3>5
  <2>3. QED
    BY <2>1, <2>2
<1>9. ASSUME NEW t \in Blocks(bd)
      PROVE  more[<<t, 1>>] = IF <<t, 1>> = x THEN Joined(v, w) ELSE <<>>
  <2>1. t \in Blocks(mid) /\ t \in Blocks(new) /\ g[<<t, 1>>] = <<t, 1>>
    BY DEF Projects
  <2>2. <<t, 1>> \in Locations(new)
    BY <2>1, FirstItem
  <2>3. /\ a[<<t, 1>>] = IF <<t, 1>> = x THEN v ELSE <<>>
        /\ c[<<t, 1>>] = IF <<t, 1>> = x THEN w ELSE <<>>
    BY <2>1 DEF Inserts
  <2>4. QED
    BY <1>3, <1>6, <2>1, <2>2, <2>3
<1>10. f[x] = x
  BY <1>1, <1>3
<1>11. Inserts(new, bd, f, more, x, Joined(v, w))
  BY <1>1, <1>5, <1>7, <1>8, <1>9, <1>10, ZenonT(60) DEF Inserts
<1>12. QED
  BY <1>11 DEF f, more

(* Two edits in front of the same item run both lists, the later edit's     *)
(* first.                                                                   *)
LEMMA FrontedTwice ==
    ASSUME NEW new \in Body, NEW mid \in Body, NEW bd \in Body, NEW x, NEW v, NEW w,
           Fronted(new, mid, x, v), Fronted(mid, bd, x, w)
    PROVE  Fronted(new, bd, x, Joined(v, w))
<1>1. PICK g, r, a : Projects(new, mid, g, r) /\ Bounded(new, r) /\ Inserts(new, mid, g, a, x, v)
  BY DEF Fronted
<1>2. PICK h, s, c : Projects(mid, bd, h, s) /\ Bounded(mid, s) /\ Inserts(mid, bd, h, c, x, w)
  BY DEF Fronted
<1>3. PICK K \in Nat : \A l \in Locations(new) : r[l] < K
  BY <1>1 DEF Bounded
<1>4. PICK Q \in Nat : \A l \in Locations(mid) : s[l] < Q
  BY <1>2 DEF Bounded
<1> DEFINE f == [l \in Locations(new) |-> h[g[l]]]
           u == [l \in Locations(new) |-> s[g[l]] * K + r[l]]
<1>5. Projects(new, bd, f, u)
  BY <1>1, <1>2, <1>3, ProjectsTwice
<1>6. Bounded(new, u)
  BY <1>1, <1>2, <1>3, <1>4, BoundedTwice
<1>7. Inserts(new, bd, f, [l \in Locations(new) |-> Joined(a[l], c[g[l]])], x, Joined(v, w))
  BY <1>1, <1>2, InsertsTwice
<1> HIDE DEF f, u
<1>8. QED
  BY <1>5, <1>6, <1>7 DEF Fronted

-----------------------------------------------------------------------------
(* The effects of bd are those of front[m] before the user's item m, of     *)
(* rear[m] after it, on its normal edges, and of start first of all.        *)
Hooked(bd, src, front, rear, start) ==
    /\ \A l \in Locations(bd) : Own(bd, l) =>
          \A x \in Successors(bd, l) :
              Effects(bd, x) = Joined(rear[ItemAt(bd, l).at], front[Reach(bd)[x].to])
    /\ \A t \in Blocks(src) :
          Effects(bd, <<t, 1>>) = Joined(IF t = 1 THEN start ELSE <<>>, front[<<t, 1>>])

(* Inserting in front of one item adds to the front of that item only.      *)
LEMMA FrontHooked ==
    ASSUME NEW new \in Body, NEW bd \in Body, NEW src \in Body, Tagged(src),
           Projected(bd, src), NEW x, NEW w, Fronted(new, bd, x, w), Own(bd, x),
           NEW front \in [Locations(src) -> Seq(EffectType)],
           NEW rear \in [Locations(src) -> Seq(EffectType)], NEW start \in Seq(EffectType),
           Hooked(bd, src, front, rear, start)
    PROVE  /\ ItemAt(bd, x).at \in Locations(src)
           /\ Hooked(new, src, [front EXCEPT ![ItemAt(bd, x).at] = Joined(@, w)], rear, start)
<1>1. PICK g, r, more : /\ Projects(new, bd, g, r) /\ Bounded(new, r)
                        /\ Inserts(new, bd, g, more, x, w)
  BY DEF Fronted
<1>2. PICK K \in Nat : \A l \in Locations(new) : r[l] < K
  BY <1>1 DEF Bounded
<1>3. PICK h, s : Projects(bd, src, h, s) /\ \E Q \in Nat : \A l \in Locations(bd) : s[l] < Q
  BY DEF Projected
<1>4. PICK Q \in Nat : \A l \in Locations(bd) : s[l] < Q
  BY <1>3
<1> DEFINE f == [l \in Locations(new) |-> h[g[l]]]
           u == [l \in Locations(new) |-> s[g[l]] * K + r[l]]
           m0 == ItemAt(bd, x).at
           after(k) == IF h[k] = m0 THEN w ELSE <<>>
           label == [l \in Locations(new) |->
                       IF g[l] = x THEN more[l] ELSE Joined(Effects(bd, g[l]), after(g[l]))]
           more2 == [front EXCEPT ![m0] = Joined(@, w)]
<1>5. Projects(new, src, f, u) /\ \E N \in Nat : \A l \in Locations(new) : u[l] < N
  <2>1. Projects(new, src, f, u)
    BY <1>1, <1>2, <1>3, ProjectsTwice
  <2>2. Bounded(new, u)
    BY <1>1, <1>2, <1>3, <1>4, BoundedTwice, ZenonT(60)
  <2>3. QED
    BY <2>1, <2>2 DEF Bounded
<1>6. /\ more \in [Locations(new) -> Seq(EffectType)] /\ w \in Seq(EffectType)
      /\ x \in Locations(bd) /\ g \in [Locations(new) -> Locations(bd)]
      /\ \A l \in Locations(new) : Successors(new, l) \subseteq Locations(new)
      /\ \A l \in Locations(bd) : Successors(bd, l) \subseteq Locations(bd)
  BY <1>1, <1>3, Zenon DEF Inserts, Projects
<1>7. m0 = h[x] /\ m0 \in Locations(src)
  BY <1>3, <1>6, OwnIsCopied
<1>8. Labelled(bd, [l \in Locations(bd) |-> Effects(bd, l)])
  BY <1>3, <1>4, EffectsLabel, Zenon
<1>9. /\ \A k \in Locations(bd) : Effects(bd, k) \in Seq(EffectType)
      /\ \A k \in Locations(bd) : Own(bd, k) => Effects(bd, k) = <<>>
      /\ \A k \in Locations(bd) : ~Own(bd, k) =>
            \A y \in Successors(bd, k) : Effects(bd, k) = Joined(<<EffectAt(bd, k)>>, Effects(bd, y))
  BY <1>6, <1>8, Zenon DEF Labelled
<1>10. \A k : after(k) \in Seq(EffectType)
  BY <1>6, NoEffects
<1>11. /\ \A l \in Locations(new) : g[l] = x => label[l] = more[l]
       /\ \A l \in Locations(new) : g[l] # x => label[l] = Joined(Effects(bd, g[l]), after(g[l]))
  OBVIOUS
<1>12. label \in [Locations(new) -> Seq(EffectType)]
  <2>1. ASSUME NEW l \in Locations(new) PROVE label[l] \in Seq(EffectType)
    <3>1. CASE g[l] = x
      BY <1>6, <1>11, <3>1
    <3>2. CASE g[l] # x
      <4>1. Effects(bd, g[l]) \in Seq(EffectType)
        BY <1>6, <1>9
      <4>2. Joined(Effects(bd, g[l]), after(g[l])) \in Seq(EffectType)
        BY <1>10, <4>1, JoinedFacts, Zenon
      <4>3. QED
        BY <1>11, <3>2, <4>2
    <3>3. QED
      BY <3>1, <3>2
  <2>2. label = [l \in Locations(new) |-> label[l]]
    OBVIOUS
  <2> HIDE DEF label
  <2>3. QED
    BY <2>1, <2>2
<1>13. f \in [Locations(new) -> Locations(src)] /\ \A l \in Locations(new) : f[l] = h[g[l]]
  BY <1>5 DEF Projects
<1>14. \A k : (h[k] = m0 => after(k) = w) /\ (h[k] # m0 => after(k) = <<>>)
  OBVIOUS
<1> HIDE DEF f, u, label, after
(* What is copied stays as it was, what is inserted comes on top.           *)
<1>15. \A l \in Locations(new) : Own(new, l) => label[l] = <<>>
  <2>1. SUFFICES ASSUME NEW l \in Locations(new), Own(new, l) PROVE label[l] = <<>>
    OBVIOUS
  <2>2. more[l] = <<>> /\ Copied(new, l, bd, g[l], g) /\ g[l] \in Locations(bd)
    BY <1>1, <1>6, <2>1, Zenon DEF Inserts
  <2>3. Own(bd, g[l])
    BY <2>1, <2>2, SameOwner DEF Copied, Own
  <2>4. CASE g[l] = x
    BY <1>11, <2>2, <2>4
  <2>5. CASE g[l] # x
    <3>1. h[g[l]] # m0
      BY <1>3, <1>6, <1>7, <2>2, <2>3, <2>5 DEF Projects
    <3>2. label[l] = Joined(<<>>, <<>>)
      BY <1>9, <1>11, <1>14, <2>2, <2>3, <2>5, <3>1, Zenon
    <3>3. QED
      BY <3>2, NoEffects, JoinedFacts, Zenon
  <2>6. QED
    BY <2>4, <2>5
<1>16. ASSUME NEW l \in Locations(new), ~Own(new, l), NEW y \in Successors(new, l)
       PROVE  label[l] = Joined(<<EffectAt(new, l)>>, label[y])
  <2>1. y \in Locations(new) /\ g[l] \in Locations(bd) /\ g[y] \in Locations(bd)
    BY <1>6, <1>16
  <2>2. CASE more[l] # <<>>
    <3>1. g[l] = x /\ g[y] = x /\ more[l] = Joined(<<EffectAt(new, l)>>, more[y])
      BY <1>1, <1>16, <2>2 DEF Inserts
    <3>2. QED
      BY <1>11, <2>1, <3>1
  <2>3. CASE more[l] = <<>>
    <3>1. /\ Copied(new, l, bd, g[l], g)
          /\ IF g[y] = x THEN more[y] = w ELSE more[y] = <<>>
      BY <1>1, <1>16, <2>3 DEF Inserts
    <3>2. ~Own(bd, g[l]) /\ g[l] # x /\ g[y] \in Successors(bd, g[l])
      BY <1>16, <2>1, <3>1, SameOwner DEF Copied, Own
    <3>3. EffectAt(new, l) = EffectAt(bd, g[l])
      BY <2>1, <3>1, SameEffect DEF Copied
    <3>4. Effects(bd, g[l]) = Joined(<<EffectAt(new, l)>>, Effects(bd, g[y]))
      BY <1>9, <2>1, <3>2, <3>3
    <3>5. h[g[y]] = h[g[l]]
      <4>1. Added(bd, g[l], h, s)
        BY <1>3, <2>1, <3>2, OwnIsCopied
      <4>2. QED
        BY <3>2, <4>1 DEF Added
    <3>6. after(g[l]) = after(g[y])
      BY <1>14, <3>5
    <3>7. label[y] = Joined(Effects(bd, g[y]), after(g[y]))
      <4>1. CASE g[y] = x
        <5>1. Effects(bd, g[y]) = <<>> /\ after(g[y]) = w /\ label[y] = w
          BY <1>6, <1>7, <1>9, <1>11, <1>14, <2>1, <3>1, <4>1
        <5>2. QED
          BY <1>6, <5>1, JoinedFacts, Zenon
      <4>2. CASE g[y] # x
        BY <1>11, <2>1, <4>2
      <4>3. QED
        BY <4>1, <4>2
    <3>8. label[l] = Joined(Joined(<<EffectAt(new, l)>>, Effects(bd, g[y])), after(g[y]))
      BY <1>11, <3>2, <3>4, <3>6
    <3> DEFINE e == <<EffectAt(new, l)>>
    <3>9. e \in Seq(EffectType) /\ Effects(bd, g[y]) \in Seq(EffectType)
          /\ after(g[y]) \in Seq(EffectType)
      <4>1. EffectAt(new, l) \in EffectType
        BY EffectAtType
      <4>2. QED
        BY <1>9, <1>10, <2>1, <4>1, NoEffects, JoinedMore
    <3> HIDE DEF e
    <3>10. Joined(Joined(e, Effects(bd, g[y])), after(g[y]))
             = Joined(e, Joined(Effects(bd, g[y]), after(g[y])))
      BY <3>9, JoinedApart
    <3>11. QED
      BY <3>7, <3>8, <3>10 DEF e
  <2>4. QED
    BY <2>2, <2>3
<1>17. Labelled(new, label)
  BY <1>12, <1>15, <1>16 DEF Labelled
<1>18. PICK N \in Nat : \A l \in Locations(new) : u[l] < N
  BY <1>5
<1>19. \A l \in Locations(new) : Effects(new, l) = label[l]
  BY <1>5, <1>17, <1>18, LabelIsEffects, Zenon
<1>20. /\ \A l \in Locations(new) : Reach(new)[l].to = h[g[l]]
       /\ \A k \in Locations(bd) : Reach(bd)[k].to = h[k]
  <2>1. \A l \in Locations(new) : Arrived(Reach(new)[l], f[l])
    BY <1>5, <1>18, ReachesItem, Zenon
  <2>2. \A k \in Locations(bd) : Arrived(Reach(bd)[k], h[k])
    BY <1>3, <1>4, ReachesItem, Zenon
  <2>3. QED
    BY <1>13, <2>1, <2>2 DEF Arrived
(* A copied successor: what was to come, and w when it comes to m0.         *)
<1>21. ASSUME NEW y \in Locations(new), IF g[y] = x THEN more[y] = w ELSE more[y] = <<>>,
              NEW k \in Locations(bd), k = g[y],
              NEW v \in Seq(EffectType), Effects(bd, k) = Joined(v, front[h[k]])
       PROVE  Effects(new, y) = Joined(v, more2[h[k]])
  <2>1. h[k] \in Locations(src) /\ front[h[k]] \in Seq(EffectType)
    BY <1>3 DEF Projects
  <2>2. CASE k = x
    <3>1. Joined(v, front[m0]) = <<>> /\ front[m0] \in Seq(EffectType)
      BY <1>6, <1>7, <1>9, <1>21, <2>1, <2>2
    <3>2. v = <<>> /\ front[m0] = <<>>
      BY <1>21, <3>1, JoinedFacts
    <3>3. Effects(new, y) = w
      BY <1>11, <1>19, <1>21, <2>2, Zenon
    <3>4. more2[h[k]] = Joined(<<>>, w)
      BY <1>7, <2>2, <3>2
    <3> HIDE DEF more2
    <3>5. more2[h[k]] = w /\ Joined(<<>>, w) = w
      BY <1>6, <3>4, JoinedFacts, Zenon
    <3>6. QED
      BY <3>2, <3>3, <3>5
  <2>3. CASE k # x /\ h[k] = m0
    <3>1. Effects(new, y) = Joined(Joined(v, front[m0]), w)
      BY <1>11, <1>14, <1>19, <1>21, <2>3, ZenonT(60)
    <3>2. more2[h[k]] = Joined(front[m0], w)
      BY <1>7, <2>3
    <3> HIDE DEF more2
    <3>3. Joined(Joined(v, front[m0]), w) = Joined(v, Joined(front[m0], w))
      BY <1>6, <1>21, <2>1, <2>3, JoinedApart
    <3>4. QED
      BY <3>1, <3>2, <3>3
  <2>4. CASE k # x /\ h[k] # m0
    <3>1. Effects(new, y) = Joined(Effects(bd, k), <<>>)
      BY <1>11, <1>14, <1>19, <1>21, <2>4, Zenon
    <3>2. more2[h[k]] = front[h[k]]
      BY <2>1, <2>4
    <3> HIDE DEF more2
    <3>3. Joined(Effects(bd, k), <<>>) = Effects(bd, k)
      BY <1>9, NoEffects, JoinedFacts, Zenon
    <3>4. QED
      BY <1>21, <3>1, <3>2, <3>3
  <2>5. QED
    BY <2>2, <2>3, <2>4
<1> HIDE DEF more2
<1>22. ASSUME NEW l \in Locations(new), Own(new, l), NEW y \in Successors(new, l)
       PROVE  Effects(new, y) = Joined(rear[ItemAt(new, l).at], more2[Reach(new)[y].to])
  <2>1. /\ y \in Locations(new) /\ g[l] \in Locations(bd) /\ g[y] \in Locations(bd)
        /\ more[l] = <<>>
    BY <1>1, <1>6, <1>22, Zenon DEF Inserts
  <2>2. /\ Copied(new, l, bd, g[l], g)
        /\ IF g[y] = x THEN more[y] = w ELSE more[y] = <<>>
    BY <1>1, <1>22, <2>1 DEF Inserts
  <2>3. ItemAt(new, l).at = ItemAt(bd, g[l]).at /\ Own(bd, g[l])
    BY <1>22, <2>1, <2>2, SameOwner DEF Copied, Own
  <2>4. g[y] \in Successors(bd, g[l])
    BY <2>2 DEF Copied
  <2>5. ItemAt(bd, g[l]).at \in Locations(src)
    BY <1>3, <2>1, <2>3, OwnIsCopied
  <2>6. Effects(bd, g[y]) = Joined(rear[ItemAt(bd, g[l]).at], front[h[g[y]]])
    BY <1>20, <2>1, <2>3, <2>4 DEF Hooked
  <2>7. rear[ItemAt(bd, g[l]).at] \in Seq(EffectType)
    BY <2>5
  <2>8. Effects(new, y) = Joined(rear[ItemAt(bd, g[l]).at], more2[h[g[y]]])
    BY <1>21, <2>1, <2>2, <2>6, <2>7, Zenon
  <2>9. QED
    BY <1>20, <2>1, <2>3, <2>8
<1>23. ASSUME NEW t \in Blocks(src)
       PROVE  Effects(new, <<t, 1>>) = Joined(IF t = 1 THEN start ELSE <<>>, more2[<<t, 1>>])
  <2>1. /\ t \in Blocks(bd) /\ t \in Blocks(new)
        /\ g[<<t, 1>>] = <<t, 1>> /\ h[<<t, 1>>] = <<t, 1>>
    BY <1>1, <1>3 DEF Projects
  <2>2. <<t, 1>> \in Locations(new) /\ <<t, 1>> \in Locations(bd)
    BY <2>1, FirstItem
  <2>3. more[<<t, 1>>] = IF g[<<t, 1>>] = x THEN w ELSE <<>>
    BY <1>1, <2>1 DEF Inserts
  <2> DEFINE v == IF t = 1 THEN start ELSE <<>>
  <2>4. Effects(bd, <<t, 1>>) = Joined(v, front[h[<<t, 1>>]])
    BY <2>1 DEF Hooked
  <2>5. v \in Seq(EffectType)
    BY NoEffects
  <2> HIDE DEF v
  <2>6. Effects(new, <<t, 1>>) = Joined(v, more2[h[<<t, 1>>]])
    BY <1>21, <2>1, <2>2, <2>3, <2>4, <2>5, Zenon
  <2>7. QED
    BY <2>1, <2>6 DEF v
<1>24. Hooked(new, src, more2, rear, start)
  BY <1>22, <1>23 DEF Hooked
<1>25. QED
  BY <1>7, <1>24 DEF more2

(* Inserting behind one item adds to the rear of that item only.            *)
LEMMA TrailHooked ==
    ASSUME NEW new \in Body, NEW bd \in Body, NEW src \in Body, Tagged(src),
           Projected(bd, src), NEW x, NEW w, Trailing(new, bd, x, w), Own(bd, x),
           NEW front \in [Locations(src) -> Seq(EffectType)],
           NEW rear \in [Locations(src) -> Seq(EffectType)], NEW start \in Seq(EffectType),
           Hooked(bd, src, front, rear, start)
    PROVE  /\ ItemAt(bd, x).at \in Locations(src)
           /\ Hooked(new, src, front, [rear EXCEPT ![ItemAt(bd, x).at] = Joined(w, @)], start)
<1>1. PICK g, r, more : /\ Projects(new, bd, g, r) /\ Bounded(new, r)
                        /\ Trails(new, bd, g, more, x, w)
  BY DEF Trailing
<1>2. PICK K \in Nat : \A l \in Locations(new) : r[l] < K
  BY <1>1 DEF Bounded
<1>3. PICK h, s : Projects(bd, src, h, s) /\ \E Q \in Nat : \A l \in Locations(bd) : s[l] < Q
  BY DEF Projected
<1>4. PICK Q \in Nat : \A l \in Locations(bd) : s[l] < Q
  BY <1>3
<1> DEFINE f == [l \in Locations(new) |-> h[g[l]]]
           u == [l \in Locations(new) |-> s[g[l]] * K + r[l]]
           m0 == ItemAt(bd, x).at
           label == [l \in Locations(new) |-> Joined(more[l], Effects(bd, g[l]))]
           more2 == [rear EXCEPT ![m0] = Joined(w, @)]
<1>5. Projects(new, src, f, u) /\ \E N \in Nat : \A l \in Locations(new) : u[l] < N
  <2>1. Projects(new, src, f, u)
    BY <1>1, <1>2, <1>3, ProjectsTwice
  <2>2. Bounded(new, u)
    BY <1>1, <1>2, <1>3, <1>4, BoundedTwice, Zenon
  <2>3. QED
    BY <2>1, <2>2 DEF Bounded
<1>6. /\ more \in [Locations(new) -> Seq(EffectType)] /\ w \in Seq(EffectType)
      /\ x \in Locations(bd) /\ g \in [Locations(new) -> Locations(bd)]
      /\ \A l \in Locations(new) : Successors(new, l) \subseteq Locations(new)
      /\ \A l \in Locations(bd) : Successors(bd, l) \subseteq Locations(bd)
  BY <1>1, <1>3, Zenon DEF Trails, Projects
<1>7. m0 = h[x] /\ m0 \in Locations(src)
  BY <1>3, <1>6, OwnIsCopied
<1>8. Labelled(bd, [l \in Locations(bd) |-> Effects(bd, l)])
  BY <1>3, <1>4, EffectsLabel, Zenon
<1>9. /\ \A k \in Locations(bd) : Effects(bd, k) \in Seq(EffectType)
      /\ \A k \in Locations(bd) : Own(bd, k) => Effects(bd, k) = <<>>
      /\ \A k \in Locations(bd) : ~Own(bd, k) =>
            \A y \in Successors(bd, k) : Effects(bd, k) = Joined(<<EffectAt(bd, k)>>, Effects(bd, y))
  BY <1>6, <1>8, Zenon DEF Labelled
<1>10. \A l \in Locations(new) : label[l] = Joined(more[l], Effects(bd, g[l]))
  OBVIOUS
<1>11. label \in [Locations(new) -> Seq(EffectType)]
  <2>1. ASSUME NEW l \in Locations(new)
        PROVE  Joined(more[l], Effects(bd, g[l])) \in Seq(EffectType)
    <3>1. more[l] \in Seq(EffectType) /\ Effects(bd, g[l]) \in Seq(EffectType)
      BY <1>6, <1>9
    <3>2. QED
      BY <3>1, JoinedFacts
  <2>2. QED
    BY <2>1
<1>12. f \in [Locations(new) -> Locations(src)] /\ \A l \in Locations(new) : f[l] = h[g[l]]
  BY <1>5 DEF Projects
<1> HIDE DEF f, u, label
<1>13. ASSUME NEW l \in Locations(new), more[l] = <<>> PROVE label[l] = Effects(bd, g[l])
  <2>1. Effects(bd, g[l]) \in Seq(EffectType)
    BY <1>6, <1>9
  <2>2. QED
    BY <1>10, <1>13, <2>1, JoinedFacts, Zenon
<1>14. \A l \in Locations(new) : Own(new, l) => label[l] = <<>>
  <2>1. SUFFICES ASSUME NEW l \in Locations(new), Own(new, l) PROVE label[l] = <<>>
    OBVIOUS
  <2>2. more[l] = <<>> /\ Copied(new, l, bd, g[l], g) /\ g[l] \in Locations(bd)
    BY <1>1, <1>6, <2>1, Zenon DEF Trails
  <2>3. Own(bd, g[l])
    BY <2>1, <2>2, SameOwner DEF Copied, Own
  <2>4. QED
    BY <1>9, <1>13, <2>2, <2>3
<1>15. ASSUME NEW l \in Locations(new), ~Own(new, l), NEW y \in Successors(new, l)
       PROVE  label[l] = Joined(<<EffectAt(new, l)>>, label[y])
  <2>1. y \in Locations(new) /\ g[l] \in Locations(bd) /\ g[y] \in Locations(bd)
    BY <1>6, <1>15
  <2>2. CASE more[l] # <<>>
    <3>1. g[y] = g[l] /\ more[l] = Joined(<<EffectAt(new, l)>>, more[y])
      BY <1>1, <1>15, <2>2 DEF Trails
    <3> DEFINE e == <<EffectAt(new, l)>>
    <3>2. e \in Seq(EffectType)
      <4>1. EffectAt(new, l) \in EffectType
        BY EffectAtType
      <4>2. QED
        BY <4>1, NoEffects, JoinedMore
    <3> HIDE DEF e
    <3>3. more[y] \in Seq(EffectType) /\ Effects(bd, g[l]) \in Seq(EffectType)
      BY <1>6, <1>9, <2>1
    <3>4. Joined(Joined(e, more[y]), Effects(bd, g[l])) = Joined(e, Joined(more[y], Effects(bd, g[l])))
      BY <3>2, <3>3, JoinedApart
    <3>5. QED
      BY <1>10, <2>1, <3>1, <3>4 DEF e
  <2>3. CASE more[l] = <<>>
    <3>1. Copied(new, l, bd, g[l], g)
      BY <1>1, <2>3 DEF Trails
    <3>2. ~Own(bd, g[l]) /\ g[l] # x /\ g[y] \in Successors(bd, g[l])
      BY <1>15, <2>1, <3>1, SameOwner DEF Copied, Own
    <3>3. more[y] = <<>>
      BY <1>1, <1>15, <2>3, <3>2 DEF Trails
    <3>4. EffectAt(new, l) = EffectAt(bd, g[l])
      BY <2>1, <3>1, SameEffect DEF Copied
    <3>5. Effects(bd, g[l]) = Joined(<<EffectAt(new, l)>>, Effects(bd, g[y]))
      BY <1>9, <2>1, <3>2, <3>4
    <3>6. label[l] = Effects(bd, g[l]) /\ label[y] = Effects(bd, g[y])
      BY <1>13, <2>1, <2>3, <3>3
    <3>7. QED
      BY <3>5, <3>6
  <2>4. QED
    BY <2>2, <2>3
<1>16. Labelled(new, label)
  BY <1>11, <1>14, <1>15 DEF Labelled
<1>17. PICK N \in Nat : \A l \in Locations(new) : u[l] < N
  BY <1>5
<1>18. \A l \in Locations(new) : Effects(new, l) = label[l]
  BY <1>5, <1>16, <1>17, LabelIsEffects, Zenon
<1>19. /\ \A l \in Locations(new) : Reach(new)[l].to = h[g[l]]
       /\ \A k \in Locations(bd) : Reach(bd)[k].to = h[k]
  <2>1. \A l \in Locations(new) : Arrived(Reach(new)[l], f[l])
    BY <1>5, <1>17, ReachesItem, Zenon
  <2>2. \A k \in Locations(bd) : Arrived(Reach(bd)[k], h[k])
    BY <1>3, <1>4, ReachesItem, Zenon
  <2>3. QED
    BY <1>12, <2>1, <2>2 DEF Arrived
<1>20. /\ more2[m0] = Joined(w, rear[m0])
       /\ \A m \in Locations(src) : m # m0 => more2[m] = rear[m]
  BY <1>7
<1> HIDE DEF more2
<1>21. ASSUME NEW l \in Locations(new), Own(new, l), NEW y \in Successors(new, l)
       PROVE  Effects(new, y) = Joined(more2[ItemAt(new, l).at], front[Reach(new)[y].to])
  <2>1. /\ y \in Locations(new) /\ g[l] \in Locations(bd) /\ g[y] \in Locations(bd)
        /\ more[l] = <<>>
    BY <1>1, <1>6, <1>21, Zenon DEF Trails
  <2>2. Copied(new, l, bd, g[l], g) /\ more[y] = IF g[l] = x THEN w ELSE <<>>
    BY <1>1, <1>21, <2>1 DEF Trails
  <2>3. ItemAt(new, l).at = ItemAt(bd, g[l]).at /\ Own(bd, g[l])
    BY <1>21, <2>1, <2>2, SameOwner DEF Copied, Own
  <2>4. g[y] \in Successors(bd, g[l])
    BY <2>2 DEF Copied
  <2> DEFINE m == ItemAt(bd, g[l]).at
             z == front[h[g[y]]]
  <2>5. m \in Locations(src) /\ m = h[g[l]]
    BY <1>3, <2>1, <2>3, OwnIsCopied
  <2>6. Effects(bd, g[y]) = Joined(rear[m], z)
    BY <1>19, <2>1, <2>3, <2>4 DEF Hooked
  <2>7. rear[m] \in Seq(EffectType) /\ z \in Seq(EffectType)
    <3>1. h[g[y]] \in Locations(src)
      BY <1>3, <2>1 DEF Projects
    <3>2. QED
      BY <2>5, <3>1
  <2>8. g[l] = x <=> m = m0
    BY <1>3, <1>6, <1>7, <2>1, <2>3, <2>5, Zenon DEF Projects
  <2> HIDE DEF m, z
  <2>9. Effects(new, y) = Joined(more[y], Joined(rear[m], z))
    BY <1>10, <1>18, <2>1, <2>6
  <2>10. Effects(new, y) = Joined(more2[m], z)
    <3>1. CASE m = m0
      <4>1. Joined(Joined(w, rear[m]), z) = Joined(w, Joined(rear[m], z))
        BY <1>6, <2>7, JoinedApart
      <4>2. QED
        BY <1>20, <2>2, <2>8, <2>9, <3>1, <4>1
    <3>2. CASE m # m0
      <4>1. Joined(rear[m], z) \in Seq(EffectType)
        BY <2>7, JoinedFacts
      <4>2. Joined(<<>>, Joined(rear[m], z)) = Joined(rear[m], z)
        BY <4>1, JoinedFacts, Zenon
      <4>3. more2[m] = rear[m] /\ more[y] = <<>>
        BY <1>20, <2>2, <2>5, <2>8, <3>2
      <4>4. QED
        BY <2>9, <4>2, <4>3
    <3>3. QED
      BY <3>1, <3>2
  <2>11. QED
    BY <1>19, <2>1, <2>3, <2>10 DEF m, z
<1>22. ASSUME NEW t \in Blocks(src)
       PROVE  Effects(new, <<t, 1>>) = Joined(IF t = 1 THEN start ELSE <<>>, front[<<t, 1>>])
  <2>1. t \in Blocks(bd) /\ t \in Blocks(new) /\ g[<<t, 1>>] = <<t, 1>>
    BY <1>1, <1>3 DEF Projects
  <2>2. <<t, 1>> \in Locations(new)
    BY <2>1, FirstItem
  <2>3. more[<<t, 1>>] = <<>>
    BY <1>1, <2>1 DEF Trails
  <2>4. Effects(new, <<t, 1>>) = Effects(bd, <<t, 1>>)
    BY <1>13, <1>18, <2>1, <2>2, <2>3, Zenon
  <2>5. QED
    BY <2>4 DEF Hooked
<1>23. Hooked(new, src, front, more2, start)
  BY <1>21, <1>22 DEF Hooked
<1>24. QED
  BY <1>7, <1>23 DEF more2

-----------------------------------------------------------------------------
(* What each edit inserts.                                                  *)

(* What is left of w from its k-th effect on.                               *)
Rest(w, k) == SubSeq(w, k, Len(w))

(* The rest of a list from a place on is the item there and the rest behind *)
(* it.                                                                      *)
LEMMA RestFacts ==
    ASSUME NEW w \in Seq(EffectType)
    PROVE  /\ Len(w) \in Nat
           /\ Rest(w, 1) = w /\ Rest(w, Len(w) + 1) = <<>>
           /\ \A k \in 1..Len(w) + 1 : Rest(w, k) \in Seq(EffectType)
           /\ \A k \in 1..Len(w) : /\ w[k] \in EffectType
                                   /\ Rest(w, k) = Joined(<<w[k]>>, Rest(w, k + 1))
                                   /\ Rest(w, k) # <<>>
<1>1. Len(w) \in Nat /\ \A k \in 1..Len(w) : w[k] \in EffectType
  OBVIOUS
<1>2. Rest(w, 1) = w
  BY SubSeqFull DEF Rest
<1>3. Rest(w, Len(w) + 1) = <<>>
  <2>1. Len(w) + 1 \in Int /\ Len(w) \in Int /\ Len(w) < Len(w) + 1
    BY <1>1
  <2>2. QED
    BY <2>1, SubSeqEmpty DEF Rest
<1>4. ASSUME NEW k \in 1..Len(w) + 1 PROVE Rest(w, k) \in Seq(EffectType)
  <2>1. /\ k \in Int /\ Len(w) \in Int
        /\ \A i \in k..Len(w) : w[i] \in EffectType
    BY <1>1
  <2>2. QED
    BY <2>1, SubSeqProperties DEF Rest
<1>5. ASSUME NEW k \in 1..Len(w)
      PROVE  Rest(w, k) = Joined(<<w[k]>>, Rest(w, k + 1)) /\ Rest(w, k) # <<>>
  <2>1. Len(w) \in k..Len(w) /\ k + 1 \in 1..Len(w) + 1
    BY <1>1
  <2>2. Rest(w, k) = Joined(<<w[k]>>, Rest(w, k + 1))
    BY <2>1, SubSeqRecursiveFirst DEF Rest, Joined
  <2>3. Rest(w, k + 1) \in Seq(EffectType)
    BY <1>4, <2>1
  <2>4. Joined(<<w[k]>>, Rest(w, k + 1)) # <<>>
    BY <1>1, <2>3, JoinedMore
  <2>5. QED
    BY <2>2, <2>4
<1>6. QED
  BY <1>1, <1>2, <1>3, <1>4, <1>5

(* Statements at the end of a block: in front of its terminator.            *)
LEMMA PaddedFronted ==
    ASSUME NEW bd \in Body, Targeted(bd), NEW b \in 1..Len(bd), NEW new, Padded(bd, new, b),
           NEW w \in Seq(EffectType),
           Len(new[b].stmts) = Len(bd[b].stmts) + Len(w),
           \A k \in 1..Len(w) : w[k] = new[b].stmts[Len(bd[b].stmts) + k].effect
    PROVE  Fronted(new, bd, <<b, Len(bd[b].stmts) + 1>>, w)
<1> DEFINE L == Len(bd[b].stmts)
           N == Len(w)
           x == <<b, L + 1>>
           more == [l \in Locations(new) |->
                       IF l[1] = b /\ l[2] > L THEN Rest(w, l[2] - L) ELSE <<>>]
<1>1. PICK g, r : Projects(new, bd, g, r) /\ Bounded(new, r) /\ PadMap(new, bd, b, g)
  BY PaddedMap
<1>2. /\ new \in Body /\ Len(new) = Len(bd) /\ b \in 1..Len(new)
      /\ \A c \in 1..Len(bd) : c # b => new[c] = bd[c]
  BY DEF Padded
<1>3. L \in Nat /\ N \in Nat /\ Len(new[b].stmts) = L + N
  BY TermFacts, ItemFacts
<1>4. \A l \in Locations(new) : Successors(new, l) \subseteq Locations(new)
  BY <1>1 DEF Projects
<1>5. \A l \in Locations(new) :
        /\ l[1] = b /\ l[2] > L => more[l] = Rest(w, l[2] - L) /\ g[l] = x
        /\ ~(l[1] = b /\ l[2] > L) => more[l] = <<>> /\ g[l] = l
  BY <1>1 DEF PadMap
<1>6. ASSUME NEW l \in Locations(new)
      PROVE  /\ l = <<l[1], l[2]>> /\ l[1] \in 1..Len(new) /\ l[2] \in Nat /\ l[2] >= 1
             /\ l[1] = b => l[2] <= L + N + 1
             /\ IsTerm(new, l) => /\ ItemAt(new, l) = new[l[1]].term
                                  /\ l[1] = b => l[2] = L + N + 1
             /\ ~IsTerm(new, l) => /\ ItemAt(new, l) = new[l[1]].stmts[l[2]]
                                   /\ l[1] = b => l[2] <= L + N
  <2>1. /\ l = <<l[1], l[2]>> /\ l[1] \in 1..Len(new) /\ l[2] \in 1..Len(new[l[1]].stmts) + 1
        /\ Len(new[l[1]].stmts) \in Nat
        /\ IsTerm(new, l) => /\ ItemAt(new, l) = new[l[1]].term
                             /\ l[2] = Len(new[l[1]].stmts) + 1
        /\ ~IsTerm(new, l) => /\ l[2] \in 1..Len(new[l[1]].stmts)
                              /\ ItemAt(new, l) = new[l[1]].stmts[l[2]]
    BY <1>2, PlaceOf
  <2>2. l[1] = b => Len(new[l[1]].stmts) = L + N
    BY <1>3
  <2> HIDE DEF L, N
  <2>3. QED
    BY <1>3, <2>1, <2>2
<1>7. ASSUME NEW l \in Locations(new), l[1] = b, l[2] > L
      PROVE  /\ l[2] - L \in 1..N + 1
             /\ l[2] = L + N + 1 <=> l[2] - L = N + 1
             /\ l[2] # L + N + 1 => /\ l[2] - L \in 1..N /\ l[2] <= L + N
                                    /\ l[2] + 1 - L = l[2] - L + 1 /\ l[2] + 1 > L
                                    /\ L + (l[2] - L) = l[2] /\ l[2] + 1 # L + 1
             /\ l[2] = L + 1 <=> l[2] - L = 1
  <2> DEFINE p == l[2]
  <2>1. p \in Nat /\ p <= L + N + 1 /\ p > L
    BY <1>6, <1>7
  <2> HIDE DEF L, N, p
  <2>2. /\ p - L \in 1..N + 1
        /\ p = L + N + 1 <=> p - L = N + 1
        /\ p # L + N + 1 => /\ p - L \in 1..N /\ p <= L + N
                            /\ p + 1 - L = p - L + 1 /\ p + 1 > L
                            /\ L + (p - L) = p /\ p + 1 # L + 1
        /\ p = L + 1 <=> p - L = 1
    BY <1>3, <2>1
  <2>3. QED
    BY <2>2 DEF p
<1>8. /\ Rest(w, 1) = w /\ Rest(w, N + 1) = <<>>
      /\ \A k \in 1..N + 1 : Rest(w, k) \in Seq(EffectType)
      /\ \A k \in 1..N : Rest(w, k) = Joined(<<w[k]>>, Rest(w, k + 1)) /\ Rest(w, k) # <<>>
  BY RestFacts
<1>9. more \in [Locations(new) -> Seq(EffectType)]
  <2>1. ASSUME NEW l \in Locations(new)
        PROVE  (IF l[1] = b /\ l[2] > L THEN Rest(w, l[2] - L) ELSE <<>>) \in Seq(EffectType)
    BY <1>7, <1>8, NoEffects
  <2>2. QED
    BY <2>1
<1>10. x \in Locations(bd) /\ x \in Locations(new) /\ x[1] = b /\ x[2] = L + 1
  <2>1. L + 1 \in 1..L + 1 /\ L + 1 \in 1..L + N + 1
    <3> HIDE DEF L, N
    <3>1. QED
      BY <1>3
  <2>2. <<b, L + 1>> \in Locations(bd)
    BY <2>1, PlaceFacts
  <2>3. <<b, L + 1>> \in Locations(new)
    BY <1>2, <1>3, <2>1, PlaceFacts
  <2>4. QED
    BY <2>2, <2>3
<1>11. L + 1 > L
  <2> HIDE DEF L
  <2>1. QED
    BY <1>3
<1> HIDE DEF more, x
<1>12. g[x] = x /\ more[x] = w
  <2>1. g[x] = x /\ more[x] = Rest(w, x[2] - L)
    BY <1>5, <1>10, <1>11
  <2>2. x[2] - L = 1
    BY <1>7, <1>10, <1>11
  <2>3. QED
    BY <1>8, <2>1, <2>2
<1>13. ASSUME NEW l \in Locations(new), more[l] = <<>>, NEW y \in Successors(new, l)
       PROVE  /\ Copied(new, l, bd, g[l], g)
              /\ IF g[y] = x THEN y = x /\ more[y] = w ELSE more[y] = <<>>
  <2>1. y \in Locations(new)
    BY <1>4
  <2>2. ~(l[1] = b /\ l[2] > L /\ l[2] <= L + N)
    <3>1. ASSUME l[1] = b, l[2] > L, l[2] <= L + N PROVE FALSE
      <4>1. l[2] # L + N + 1
        <5>1. l[2] \in Nat
          BY <1>6
        <5> HIDE DEF L, N
        <5>2. QED
          BY <1>3, <3>1, <5>1
      <4>2. l[2] - L \in 1..N /\ more[l] = Rest(w, l[2] - L)
        BY <1>5, <1>7, <3>1, <4>1
      <4>3. QED
        BY <1>8, <1>13, <4>2, Zenon
    <3>2. QED
      BY <3>1
  <2>3. Copied(new, l, bd, g[l], g)
    BY <1>1, <1>3, <2>2 DEF PadMap
  <2>4. y[1] = b /\ y[2] > L => y = x
    <3>1. SUFFICES ASSUME y[1] = b, y[2] > L PROVE y = x
      OBVIOUS
    <3>2. y = <<y[1], y[2]>> /\ y[2] \in Nat
      BY <1>6, <2>1
    <3>3. CASE IsTerm(new, l)
      <4>1. y[2] = 1
        BY <3>3 DEF Successors
      <4>2. y[2] = L + 1
        <5> HIDE DEF L
        <5>1. QED
          BY <1>3, <3>1, <4>1
      <4>3. QED
        BY <3>1, <3>2, <4>2 DEF x
    <3>4. CASE ~IsTerm(new, l)
      <4>1. y = <<l[1], l[2] + 1>>
        BY <3>4 DEF Successors
      <4>2. l[1] = b /\ y[2] = l[2] + 1 /\ l[2] \in Nat /\ l[2] <= L + N
        BY <1>6, <3>1, <3>4, <4>1
      <4>3. y[2] = L + 1
        <5> HIDE DEF L, N
        <5>1. QED
          BY <1>3, <2>2, <3>1, <4>2
      <4>4. QED
        BY <3>1, <3>2, <4>3 DEF x
    <3>5. QED
      BY <3>3, <3>4
  <2>5. CASE y[1] = b /\ y[2] > L
    BY <1>12, <2>3, <2>4, <2>5
  <2>6. CASE ~(y[1] = b /\ y[2] > L)
    <3>1. more[y] = <<>> /\ g[y] = y
      BY <1>5, <2>1, <2>6
    <3>2. y # x
      BY <1>10, <1>11, <2>6
    <3>3. QED
      BY <2>3, <3>1, <3>2
  <2>7. QED
    BY <2>5, <2>6
<1>14. ASSUME NEW l \in Locations(new), more[l] # <<>>
       PROVE  /\ ~Own(new, l) /\ g[l] = x
              /\ \A y \in Successors(new, l) :
                    y # x /\ g[y] = x /\ more[l] = Joined(<<EffectAt(new, l)>>, more[y])
  <2>1. l[1] = b /\ l[2] > L
    BY <1>5, <1>14
  <2>2. more[l] = Rest(w, l[2] - L) /\ g[l] = x
    BY <1>5, <2>1
  <2>3. l[2] # L + N + 1
    BY <1>7, <1>8, <1>14, <2>1, <2>2
  <2>4. /\ l[2] - L \in 1..N /\ l[2] <= L + N
        /\ l[2] + 1 - L = l[2] - L + 1 /\ l[2] + 1 > L
        /\ L + (l[2] - L) = l[2] /\ l[2] + 1 # L + 1
    BY <1>7, <2>1, <2>3
  <2>5. ~Own(new, l) /\ Successors(new, l) = {<<b, l[2] + 1>>}
    BY <1>1, <1>3, <2>1, <2>4, Zenon DEF PadMap
  <2>6. ~IsTerm(new, l)
    BY <1>6, <2>1, <2>3
  <2>7. EffectAt(new, l) = w[l[2] - L]
    <3>1. ItemAt(new, l) = new[b].stmts[L + (l[2] - L)]
      BY <1>6, <2>1, <2>4, <2>6, Zenon
    <3>2. QED
      BY <2>4, <2>6, <3>1, Zenon DEF EffectAt
  <2> DEFINE y == <<b, l[2] + 1>>
  <2>8. y \in Locations(new) /\ y[1] = b /\ y[2] = l[2] + 1
    BY <1>4, <2>5
  <2>9. y # x
    BY <1>10, <2>4, <2>8
  <2>10. g[y] = x /\ more[y] = Rest(w, l[2] - L + 1)
    <3> HIDE DEF y
    <3>1. y[2] > L /\ y[2] - L = l[2] - L + 1
      BY <2>4, <2>8
    <3>2. QED
      BY <1>5, <2>8, <3>1
  <2>11. more[l] = Joined(<<EffectAt(new, l)>>, more[y])
    BY <1>8, <2>2, <2>4, <2>7, <2>10
  <2>12. QED
    BY <2>2, <2>5, <2>9, <2>10, <2>11
<1>15. ASSUME NEW t \in Blocks(bd)
       PROVE  more[<<t, 1>>] = IF <<t, 1>> = x THEN w ELSE <<>>
  <2>1. t \in Blocks(new) /\ g[<<t, 1>>] = <<t, 1>>
    BY <1>1 DEF Projects
  <2>2. <<t, 1>> \in Locations(new)
    BY <1>2, <2>1, FirstItem
  <2>3. QED
    BY <1>5, <1>10, <1>11, <1>12, <2>1, <2>2, Zenon
<1>16. \A l \in Locations(new) : more[l] = <<>> => Copied(new, l, bd, g[l], g)
  <2>1. SUFFICES ASSUME NEW l \in Locations(new), more[l] = <<>>
                 PROVE  Copied(new, l, bd, g[l], g)
    OBVIOUS
  <2>2. CASE \E y : y \in Successors(new, l)
    BY <1>13, <2>1, <2>2
  <2>3. CASE \A y : y \notin Successors(new, l)
    <3>1. ~(l[1] = b /\ l[2] > L /\ l[2] <= L + N)
      BY <1>1, <1>3, <2>3, Zenon DEF PadMap
    <3>2. QED
      BY <1>1, <1>3, <3>1 DEF PadMap
  <2>4. QED
    BY <2>2, <2>3
<1>17. Inserts(new, bd, g, more, x, w)
  BY <1>9, <1>10, <1>12, <1>13, <1>14, <1>15, <1>16, ZenonT(60) DEF Inserts
<1>18. QED
  BY <1>1, <1>17 DEF Fronted, x

(* A hook where a block is cut: in front of the item it is cut at.          *)
LEMMA CutFronted ==
    ASSUME NEW bd \in Body, Targeted(bd), NEW b \in 1..Len(bd),
           NEW i \in 1..Len(bd[b].stmts) + 1, NEW new, Cut(bd, new, b, i),
           NEW w \in Seq(EffectType), w = <<HookEffect(new[b].term)>>
    PROVE  Fronted(new, bd, <<b, i>>, w)
<1> DEFINE n == Len(bd) + 1
           x == <<b, i>>
           more == [l \in Locations(new) |-> IF l = x THEN w ELSE <<>>]
<1>1. PICK g, r : Projects(new, bd, g, r) /\ Bounded(new, r) /\ CutMap(new, bd, b, i, g)
  BY CutMapped
<1>2. new \in Body /\ Len(new) = n /\ Len(bd) \in Nat
  BY BlocksOf DEF Cut
<1>3. i \in Nat /\ x \in Locations(bd) /\ b # n
  <2>1. Len(bd[b].stmts) \in Nat
    BY TermFacts, ItemFacts
  <2>2. QED
    BY <1>2, <2>1, PlaceFacts
<1>4. /\ x \in Locations(new) /\ ~Own(new, x) /\ Successors(new, x) = {<<n, 1>>}
      /\ EffectAt(new, x) = HookEffect(new[b].term)
      /\ \A l \in Locations(new) : /\ l[1] = n => g[l] = <<b, i - 1 + l[2]>>
                                   /\ l[1] # n => g[l] = l
      /\ \A l \in Locations(new) : l # x =>
            Copied(new, l, bd, g[l], g) /\ <<n, 1>> \notin Successors(new, l)
  BY <1>1 DEF CutMap
<1>5. \A l \in Locations(new) : Successors(new, l) \subseteq Locations(new)
  BY <1>1 DEF Projects
<1>6. /\ more \in [Locations(new) -> Seq(EffectType)]
      /\ more[x] = w /\ \A l \in Locations(new) : l # x => more[l] = <<>>
  BY <1>4, NoEffects
<1>7. x[1] = b /\ x[2] = i /\ <<n, 1>>[1] = n /\ <<n, 1>>[2] = 1 /\ x # <<n, 1>>
  BY <1>3
<1> HIDE DEF more, x
<1>8. g[x] = x /\ w # <<>>
  BY <1>3, <1>4, <1>7
<1>9. ASSUME NEW y \in Locations(new), g[y] = x PROVE y = x \/ y = <<n, 1>>
  <2>1. CASE y[1] # n
    BY <1>4, <1>9, <2>1
  <2>2. CASE y[1] = n
    <3>1. x = <<b, i - 1 + y[2]>>
      BY <1>4, <1>9, <2>2
    <3>2. i = i - 1 + y[2]
      BY <1>7, <3>1
    <3>3. y = <<y[1], y[2]>> /\ y[2] \in Nat
      <4>1. /\ y = <<y[1], y[2]>> /\ y[2] \in 1..Len(new[y[1]].stmts) + 1
            /\ Len(new[y[1]].stmts) \in Nat
        BY <1>2, PlaceOf
      <4>2. QED
        BY <4>1
    <3>4. y[2] = 1
      BY <1>3, <3>2, <3>3
    <3>5. QED
      BY <2>2, <3>3, <3>4
  <2>3. QED
    BY <2>1, <2>2
<1>10. g[<<n, 1>>] = x
  <2>1. <<n, 1>> \in Locations(new)
    BY <1>4, <1>5
  <2>2. g[<<n, 1>>] = <<b, i - 1 + 1>>
    BY <1>4, <1>7, <2>1, Zenon
  <2>3. i - 1 + 1 = i
    BY <1>3
  <2>4. QED
    BY <2>2, <2>3 DEF x
<1>11. ASSUME NEW l \in Locations(new), more[l] = <<>>
       PROVE  /\ Copied(new, l, bd, g[l], g)
              /\ \A y \in Successors(new, l) :
                    IF g[y] = x THEN y = x /\ more[y] = w ELSE more[y] = <<>>
  <2>1. l # x
    BY <1>6, <1>8, <1>11, Zenon
  <2>2. Copied(new, l, bd, g[l], g) /\ <<n, 1>> \notin Successors(new, l)
    BY <1>4, <2>1
  <2>3. ASSUME NEW y \in Successors(new, l)
        PROVE  IF g[y] = x THEN y = x /\ more[y] = w ELSE more[y] = <<>>
    <3>1. y \in Locations(new) /\ y # <<n, 1>>
      BY <1>5, <2>2
    <3>2. QED
      BY <1>6, <1>8, <1>9, <3>1
  <2>4. QED
    BY <2>2, <2>3
<1>12. ASSUME NEW l \in Locations(new), more[l] # <<>>
       PROVE  /\ ~Own(new, l) /\ g[l] = x
              /\ \A y \in Successors(new, l) :
                    y # x /\ g[y] = x /\ more[l] = Joined(<<EffectAt(new, l)>>, more[y])
  <2>1. l = x
    BY <1>6, <1>12
  <2>2. <<n, 1>> \in Locations(new)
    BY <1>4, <1>5
  <2>3. more[<<n, 1>>] = <<>>
    BY <1>6, <1>7, <2>2
  <2>4. more[x] = Joined(w, <<>>)
    BY <1>6, JoinedFacts, NoEffects, Zenon
  <2>5. more[x] = Joined(<<EffectAt(new, x)>>, more[<<n, 1>>])
    BY <1>4, <2>3, <2>4, Zenon
  <2>6. QED
    BY <1>4, <1>7, <1>8, <1>10, <2>1, <2>5
<1>13. ASSUME NEW t \in Blocks(bd)
       PROVE  more[<<t, 1>>] = IF <<t, 1>> = x THEN w ELSE <<>>
  <2>1. t \in Blocks(new)
    BY <1>1 DEF Projects
  <2>2. <<t, 1>> \in Locations(new)
    BY <1>2, <2>1, FirstItem
  <2>3. QED
    BY <1>6, <2>2, Zenon
<1>14. Inserts(new, bd, g, more, x, w)
  BY <1>3, <1>4, <1>6, <1>8, <1>11, <1>12, <1>13, ZenonT(60) DEF Inserts
<1>15. QED
  BY <1>1, <1>14 DEF Fronted, x

(* A new block behind a terminator.                                         *)
LEMMA TrailedTrailing ==
    ASSUME NEW bd \in Body, Targeted(bd), NEW b \in 1..Len(bd), NEW t, NEW new,
           Trailed(bd, new, b, t), NEW w \in Seq(EffectType),
           Len(w) = Len(new[Len(bd) + 1].stmts) + 1,
           \A k \in 1..Len(w) : w[k] = EffectAt(new, <<Len(bd) + 1, k>>)
    PROVE  Trailing(new, bd, <<b, Len(bd[b].stmts) + 1>>, w)
<1> DEFINE n == Len(bd) + 1
           M == Len(new[n].stmts)
           x == <<b, Len(bd[b].stmts) + 1>>
           more == [l \in Locations(new) |-> IF l[1] = n THEN Rest(w, l[2]) ELSE <<>>]
<1>1. PICK g, r : Projects(new, bd, g, r) /\ Bounded(new, r) /\ TrailMap(new, bd, b, t, g)
  BY TrailMapped
<1>2. new \in Body /\ Len(new) = n /\ Len(bd) \in Nat /\ n \in 1..Len(new)
  <2>1. new \in Body /\ Len(new) = n /\ Len(bd) \in Nat
    BY BlocksOf DEF Trailed
  <2>2. QED
    BY <2>1
<1>3. M \in Nat /\ Len(w) = M + 1
  BY <1>2, TermFacts, ItemFacts
<1>4. /\ \A l \in Locations(new) :
            /\ l[1] = n => /\ g[l] = <<t, 1>> /\ ~Own(new, l)
                           /\ Successors(new, l) = {IF l[2] = M + 1 THEN <<t, 1>> ELSE <<n, l[2] + 1>>}
            /\ l[1] # n => g[l] = l /\ Copied(new, l, bd, l, g)
            /\ l[1] # n /\ l # x => \A y \in Successors(new, l) : y[1] # n
      /\ x \in Locations(new) /\ x \in Locations(bd) /\ x[1] # n
      /\ Successors(new, x) = {<<n, 1>>}
      /\ <<t, 1>> \in Locations(new) /\ t # n
  BY <1>1, ZenonT(60) DEF TrailMap
<1>5. \A l \in Locations(new) : Successors(new, l) \subseteq Locations(new)
  BY <1>1 DEF Projects
<1>6. ASSUME NEW l \in Locations(new), l[1] = n
      PROVE  \E k \in 1..Len(w) : l = <<n, k>> /\ k \in 1..Len(w) + 1
  <2>1. l = <<l[1], l[2]>> /\ l[2] \in 1..Len(new[l[1]].stmts) + 1
    BY <1>2, PlaceOf, Zenon
  <2>2. l[2] \in 1..M + 1
    BY <1>6, <2>1
  <2> HIDE DEF M
  <2>3. QED
    BY <1>3, <1>6, <2>1, <2>2
<1>7. /\ Len(w) \in Nat /\ Rest(w, 1) = w /\ Rest(w, Len(w) + 1) = <<>>
      /\ \A k \in 1..Len(w) + 1 : Rest(w, k) \in Seq(EffectType)
      /\ \A k \in 1..Len(w) : Rest(w, k) = Joined(<<w[k]>>, Rest(w, k + 1)) /\ Rest(w, k) # <<>>
  BY RestFacts, Zenon
<1>8. more \in [Locations(new) -> Seq(EffectType)]
  <2>1. ASSUME NEW l \in Locations(new)
        PROVE  (IF l[1] = n THEN Rest(w, l[2]) ELSE <<>>) \in Seq(EffectType)
    <3>1. CASE l[1] = n
      <4>1. PICK k \in 1..Len(w) : l = <<n, k>> /\ k \in 1..Len(w) + 1
        BY <1>6, <3>1
      <4>2. l[2] = k
        BY <4>1
      <4>3. QED
        BY <1>7, <3>1, <4>1, <4>2
    <3>2. CASE l[1] # n
      BY <3>2, NoEffects
    <3>3. QED
      BY <3>1, <3>2
  <2>2. QED
    BY <2>1
<1>9. /\ \A l \in Locations(new) : l[1] # n => more[l] = <<>>
      /\ \A k \in 1..Len(w) : <<n, k>> \in Locations(new) =>
            /\ more[<<n, k>>] = Rest(w, k) /\ g[<<n, k>>] = <<t, 1>> /\ ~Own(new, <<n, k>>)
            /\ Successors(new, <<n, k>>) = {IF k = M + 1 THEN <<t, 1>> ELSE <<n, k + 1>>}
  <2>1. ASSUME NEW k \in 1..Len(w), <<n, k>> \in Locations(new)
        PROVE  /\ more[<<n, k>>] = Rest(w, k) /\ g[<<n, k>>] = <<t, 1>> /\ ~Own(new, <<n, k>>)
               /\ Successors(new, <<n, k>>) = {IF k = M + 1 THEN <<t, 1>> ELSE <<n, k + 1>>}
    <3> DEFINE l == <<n, k>>
    <3>1. l \in Locations(new) /\ l[1] = n /\ l[2] = k
      BY <2>1
    <3>2. more[l] = Rest(w, l[2])
      BY <3>1
    <3> HIDE DEF more, l
    <3>3. /\ g[l] = <<t, 1>> /\ ~Own(new, l)
          /\ Successors(new, l) = {IF l[2] = M + 1 THEN <<t, 1>> ELSE <<n, l[2] + 1>>}
      BY <1>4, <3>1, Zenon
    <3>4. /\ more[l] = Rest(w, k) /\ g[l] = <<t, 1>> /\ ~Own(new, l)
          /\ Successors(new, l) = {IF k = M + 1 THEN <<t, 1>> ELSE <<n, k + 1>>}
      BY <3>1, <3>2, <3>3
    <3>5. QED
      BY <3>4, Zenon DEF l
  <2>2. QED
    BY <2>1
<1> HIDE DEF more, x, M, n
<1>10. ASSUME NEW l \in Locations(new), more[l] = <<>>
       PROVE  /\ Copied(new, l, bd, g[l], g)
              /\ \A y \in Successors(new, l) : more[y] = IF g[l] = x THEN w ELSE <<>>
  <2>1. l[1] # n
    <3>1. ASSUME l[1] = n PROVE FALSE
      <4>1. PICK k \in 1..Len(w) : l = <<n, k>>
        BY <1>6, <3>1
      <4>2. more[l] = Rest(w, k)
        BY <1>9, <4>1
      <4>3. QED
        BY <1>7, <1>10, <4>2, Zenon
    <3>2. QED
      BY <3>1
  <2>2. g[l] = l /\ Copied(new, l, bd, l, g)
    BY <1>4, <2>1
  <2>3. ASSUME NEW y \in Successors(new, l)
        PROVE  more[y] = IF g[l] = x THEN w ELSE <<>>
    <3>1. y \in Locations(new)
      BY <1>5
    <3>2. CASE l = x
      <4>1. y = <<n, 1>>
        BY <1>4, <3>2
      <4>2. 1 \in 1..Len(w)
        BY <1>3
      <4>3. more[y] = Rest(w, 1)
        BY <1>9, <3>1, <4>1, <4>2
      <4>4. QED
        BY <1>7, <2>2, <3>2, <4>3
    <3>3. CASE l # x
      BY <1>4, <1>9, <2>1, <2>2, <3>1, <3>3
    <3>4. QED
      BY <3>2, <3>3
  <2>4. QED
    BY <2>2, <2>3
<1>11. ASSUME NEW l \in Locations(new), more[l] # <<>>
       PROVE  /\ ~Own(new, l)
              /\ \A y \in Successors(new, l) :
                    g[y] = g[l] /\ more[l] = Joined(<<EffectAt(new, l)>>, more[y])
  <2>1. l[1] = n
    BY <1>9, <1>11
  <2>2. PICK k \in 1..Len(w) : l = <<n, k>> /\ k \in 1..Len(w) + 1
    BY <1>6, <2>1
  <2>3. /\ g[l] = <<t, 1>> /\ ~Own(new, l) /\ more[l] = Rest(w, k)
        /\ Successors(new, l) = {IF k = M + 1 THEN <<t, 1>> ELSE <<n, k + 1>>}
    BY <1>9, <2>2, Zenon
  <2>4. EffectAt(new, l) = w[k]
    BY <2>2 DEF n
  <2>5. Rest(w, k) = Joined(<<w[k]>>, Rest(w, k + 1))
    BY <1>7, <2>2, Zenon
  <2>6. CASE k = M + 1
    <3>1. <<t, 1>>[1] # n /\ <<t, 1>> \in Locations(new)
      BY <1>4
    <3>2. g[<<t, 1>>] = <<t, 1>> /\ more[<<t, 1>>] = <<>>
      BY <1>4, <1>9, <3>1, Zenon
    <3>3. Rest(w, k + 1) = <<>>
      BY <1>3, <1>7, <2>6
    <3>4. QED
      BY <2>3, <2>4, <2>5, <2>6, <3>2, <3>3, Zenon
  <2>7. CASE k # M + 1
    <3> DEFINE q == k + 1
    <3>1. q \in 1..Len(w)
      BY <1>3, <2>7
    <3>2. Successors(new, l) = {<<n, q>>}
      BY <2>3, <2>7
    <3>3. <<n, q>> \in Locations(new)
      BY <1>5, <3>2
    <3>4. Rest(w, k + 1) = Rest(w, q)
      OBVIOUS
    <3> HIDE DEF q
    <3>5. g[<<n, q>>] = <<t, 1>> /\ more[<<n, q>>] = Rest(w, q)
      BY <1>9, <3>1, <3>3
    <3>6. QED
      BY <2>3, <2>4, <2>5, <3>2, <3>4, <3>5, Zenon
  <2>8. QED
    BY <2>3, <2>6, <2>7, Zenon
<1>12. ASSUME NEW u \in Blocks(bd) PROVE more[<<u, 1>>] = <<>>
  <2>1. u \in Blocks(new) /\ u # n
    BY <1>1, <1>2, BlocksOf DEF Projects, n
  <2>2. <<u, 1>> \in Locations(new) /\ <<u, 1>>[1] # n
    BY <1>2, <2>1, FirstItem
  <2>3. QED
    BY <1>9, <2>2
<1>13. Trails(new, bd, g, more, x, w)
  BY <1>4, <1>8, <1>10, <1>11, <1>12, ZenonT(60) DEF Trails
<1>14. QED
  BY <1>1, <1>13 DEF Trailing, x

-----------------------------------------------------------------------------
(* The patches of the instrumenters: what they insert, in order.            *)

(* The effects of the statements an edit inserts.                           *)
EffectsOf(stmts) == [k \in 1..Len(stmts) |-> stmts[k].effect]

(* A hook call does what it was built for.                                  *)
LEMMA HookEffectOf ==
    ASSUME NEW fn, NEW of, NEW args, NEW to, NEW unwind
    PROVE  HookEffect(HookCall(fn, of, args, to, unwind)) = Effect(<<fn, of>>, args, unwind)
BY DEF HookEffect, HookCall

(* They are a list of effects.                                              *)
LEMMA EffectsOfType ==
    ASSUME NEW stmts \in Seq(Statement)
    PROVE  /\ EffectsOf(stmts) \in Seq(EffectType) /\ Len(EffectsOf(stmts)) = Len(stmts)
           /\ \A k \in 1..Len(stmts) : EffectsOf(stmts)[k] = stmts[k].effect
<1>1. Len(stmts) \in Nat /\ \A k \in 1..Len(stmts) : stmts[k] \in Statement
  OBVIOUS
<1>2. ASSUME NEW x \in Statement PROVE x.effect \in EffectType
  BY DEF Statement, EffectType
<1>3. \A k \in 1..Len(stmts) : stmts[k].effect \in EffectType
  BY <1>1, <1>2
<1>4. QED
  BY <1>1, <1>3 DEF EffectsOf

(* Statements pushed to the end of a block run in front of its terminator.  *)
LEMMA PadFronted ==
    ASSUME NEW bd \in Body, Targeted(bd), NEW b \in 1..Len(bd), NEW stmts \in Seq(Statement),
           AllInserted(stmts)
    PROVE  LET new == Apply(bd, b, stmts, bd[b].term, <<>>) IN
           /\ new \in Body /\ Projected(new, bd) /\ Targeted(new)
           /\ Len(new) = Len(bd) /\ \A c \in 1..Len(bd) : c # b => new[c] = bd[c]
           /\ new[b].stmts = Joined(bd[b].stmts, stmts) /\ new[b].term = bd[b].term
           /\ Fronted(new, bd, <<b, Len(bd[b].stmts) + 1>>, EffectsOf(stmts))
<1> DEFINE new == Apply(bd, b, stmts, bd[b].term, <<>>)
           old == bd[b].stmts
<1>1. /\ new \in Body /\ Projected(new, bd) /\ Targeted(new) /\ Padded(bd, new, b)
      /\ Len(new) = Len(bd) /\ \A c \in 1..Len(bd) : c # b => new[c] = bd[c]
      /\ new[b].stmts = Joined(old, stmts) /\ new[b].term = bd[b].term
  BY PadProjects
<1>2. old \in Seq(Statement)
  BY TermFacts
<1> HIDE DEF new
<1>3. /\ Len(new[b].stmts) = Len(old) + Len(stmts)
      /\ \A k \in 1..Len(stmts) : new[b].stmts[Len(old) + k] = stmts[k]
  <2> HIDE DEF old
  <2>1. QED
    BY <1>1, <1>2, ConcatFacts DEF Joined
<1>4. Fronted(new, bd, <<b, Len(old) + 1>>, EffectsOf(stmts))
  <2> DEFINE w == EffectsOf(stmts)
  <2>1. /\ w \in Seq(EffectType) /\ Len(w) = Len(stmts)
        /\ \A k \in 1..Len(stmts) : w[k] = stmts[k].effect
    BY EffectsOfType
  <2> HIDE DEF w
  <2>2. \A k \in 1..Len(w) : w[k] = new[b].stmts[Len(bd[b].stmts) + k].effect
    BY <1>3, <2>1, Zenon
  <2>3. Len(new[b].stmts) = Len(bd[b].stmts) + Len(w)
    BY <1>3, <2>1
  <2>4. QED
    BY <1>1, <2>1, <2>2, <2>3, PaddedFronted, Zenon DEF w
<1>5. QED
  BY <1>1, <1>4 DEF new

(* What is run before each item, after it and at the start are lists of     *)
(* effects.                                                                 *)
HooksType(src, front, rear, start) ==
    /\ front \in [Locations(src) -> Seq(EffectType)]
    /\ rear \in [Locations(src) -> Seq(EffectType)]
    /\ start \in Seq(EffectType)

(* Adding to the front or the rear of an item keeps them lists of effects.  *)
LEMMA FrontTyped ==
    ASSUME NEW src, NEW front, NEW rear, NEW start, HooksType(src, front, rear, start),
           NEW m \in Locations(src), NEW w \in Seq(EffectType)
    PROVE  /\ HooksType(src, [front EXCEPT ![m] = Joined(@, w)], rear, start)
           /\ HooksType(src, front, [rear EXCEPT ![m] = Joined(w, @)], start)
<1>1. front[m] \in Seq(EffectType) /\ rear[m] \in Seq(EffectType)
  BY DEF HooksType
<1>2. Joined(front[m], w) \in Seq(EffectType) /\ Joined(w, rear[m]) \in Seq(EffectType)
  BY <1>1, JoinedFacts
<1>3. QED
  BY <1>2 DEF HooksType

(* The terminator of a block, as a location.                                *)
LEMMA TermPlace ==
    ASSUME NEW bd \in Body, NEW b \in 1..Len(bd)
    PROVE  LET l == <<b, Len(bd[b].stmts) + 1>> IN
           l \in Locations(bd) /\ IsTerm(bd, l) /\ ItemAt(bd, l) = bd[b].term
<1>1. Len(bd[b].stmts) \in Nat
  BY TermFacts, ItemFacts
<1>2. Len(bd[b].stmts) + 1 \in 1..Len(bd[b].stmts) + 1
  BY <1>1
<1>3. QED
  BY <1>2, PlaceFacts

(* InFront gives an item the statements and the hook it puts before it.     *)
LEMMA InFrontHooked ==
    ASSUME NEW bd \in Body, Targeted(bd), NEW src \in Body, Tagged(src), Projected(bd, src),
           NEW front, NEW rear, NEW start, HooksType(src, front, rear, start),
           Hooked(bd, src, front, rear, start),
           NEW b \in 1..Len(bd), bd[b].term.at # Nowhere,
           NEW stmts \in Seq(Statement), AllInserted(stmts), NEW of \in Names,
           NEW args \in Operands, NEW blk \in BasicBlock,
           blk.term = bd[b].term, blk.cleanup = bd[b].cleanup, blk.stmts = <<>>,
           NEW w \in Seq(EffectType),
           w = <<Effect(<<"before", of>>, args, bd[b].term.unwind)>>
    PROVE  LET m == bd[b].term.at IN
           /\ m \in Locations(src)
           /\ Hooked(InFront(bd, b, stmts, of, args, blk), src,
                     [front EXCEPT ![m] = Joined(@, Joined(EffectsOf(stmts), w))], rear, start)
<1> DEFINE new == InFront(bd, b, stmts, of, args, blk)
           mid == Apply(bd, b, stmts, bd[b].term, <<>>)
           m == bd[b].term.at
           u == EffectsOf(stmts)
           n == Len(bd) + 1
           L == Len(mid[b].stmts)
           f == [front EXCEPT ![m] = Joined(@, u)]
<1>1. new \in Body /\ Cut(mid, new, b, L + 1)
  BY InFrontProjects
<1>2. /\ mid \in Body /\ Projected(mid, bd) /\ Targeted(mid) /\ Len(mid) = Len(bd)
      /\ mid[b].term = bd[b].term
      /\ Fronted(mid, bd, <<b, Len(bd[b].stmts) + 1>>, u)
  BY PadFronted
<1>3. HookEffect(new[b].term) = Effect(<<"before", of>>, args, bd[b].term.unwind)
  <2> DEFINE hook == HookCall("before", of, args, {n}, bd[b].term.unwind)
  <2>1. hook \in Terminator
    <3>1. {n} \in SUBSET Nat /\ bd[b].term.unwind \in UnwindAction /\ "before" \in HookNames
      BY TermFacts DEF HookNames
    <3> HIDE DEF n
    <3>2. QED
      BY <3>1, HookCallFacts
  <2>2. HookEffect(hook) = Effect(<<"before", of>>, args, bd[b].term.unwind)
    BY HookEffectOf
  <2> HIDE DEF hook
  <2>3. Patch(bd, b, stmts, hook, blk)[b].term = hook
    BY <2>1, ApplyFacts
  <2>4. QED
    BY <2>2, <2>3 DEF InFront, hook
<1> HIDE DEF new, mid, n
<1>4. u \in Seq(EffectType)
  BY EffectsOfType
<1> HIDE DEF u
<1>5. m \in Locations(src) /\ Hooked(mid, src, f, rear, start) /\ HooksType(src, f, rear, start)
  <2>1. LET l == <<b, Len(bd[b].stmts) + 1>> IN Own(bd, l) /\ ItemAt(bd, l).at = m
    BY TermPlace DEF Own
  <2>2. m \in Locations(src) /\ Hooked(mid, src, f, rear, start)
    BY <1>2, <2>1, FrontHooked, ZenonT(60) DEF HooksType
  <2>3. QED
    BY <1>4, <2>2, FrontTyped, Zenon
<1>6. Projected(mid, src)
  BY <1>2, ProjectedTwice
<1>7. Fronted(new, mid, <<b, L + 1>>, w)
  <2>1. L \in Nat
    BY <1>2, TermFacts, ItemFacts
  <2>2. L + 1 \in 1..L + 1
    <3> HIDE DEF L
    <3>1. QED
      BY <2>1
  <2>3. w = <<HookEffect(new[b].term)>>
    BY <1>3
  <2>4. QED
    BY <1>1, <1>2, <2>2, <2>3, CutFronted, Zenon
<1>8. LET l == <<b, L + 1>> IN Own(mid, l) /\ ItemAt(mid, l).at = m
  BY <1>2, TermPlace DEF Own
<1>9. Hooked(new, src, [f EXCEPT ![m] = Joined(@, w)], rear, start)
  <2> HIDE DEF f, L, m
  <2>1. QED
    BY <1>1, <1>2, <1>5, <1>6, <1>7, <1>8, FrontHooked, Zenon DEF HooksType
<1>10. [f EXCEPT ![m] = Joined(@, w)] = [front EXCEPT ![m] = Joined(@, Joined(u, w))]
  <2>1. front \in [Locations(src) -> Seq(EffectType)]
    BY DEF HooksType
  <2>2. PICK x \in Seq(EffectType) : x = front[m]
    BY <1>5, <2>1
  <2>3. Joined(Joined(x, u), w) = Joined(x, Joined(u, w))
    BY <1>4, JoinedApart, Zenon
  <2> HIDE DEF m
  <2>4. QED
    BY <1>5, <2>1, <2>2, <2>3, Zenon
<1>11. QED
  BY <1>5, <1>9, <1>10 DEF new, u

(* Behind gives an item the hook it puts on its normal edges.               *)
LEMMA BehindHooked ==
    ASSUME NEW bd \in Body, Targeted(bd), NEW src \in Body, Tagged(src), Projected(bd, src),
           NEW front, NEW rear, NEW start, HooksType(src, front, rear, start),
           Hooked(bd, src, front, rear, start),
           NEW b \in 1..Len(bd), bd[b].term.at # Nowhere,
           NEW stmts \in Seq(Statement), AllInserted(stmts), NEW of \in Names,
           NEW args \in Operands, NEW refs \in Seq(Statement), AllInserted(refs),
           NEW t, bd[b].term.to = {t}, NEW w \in Seq(EffectType),
           w = Append(EffectsOf(refs), Effect(<<"after", of>>, args, bd[b].term.unwind))
    PROVE  LET m == bd[b].term.at IN
           /\ m \in Locations(src)
           /\ Hooked(Behind(bd, b, stmts, of, args, refs), src,
                     [front EXCEPT ![m] = Joined(@, EffectsOf(stmts))],
                     [rear EXCEPT ![m] = Joined(w, @)], start)
<1> DEFINE new == Behind(bd, b, stmts, of, args, refs)
           mid == Apply(bd, b, stmts, bd[b].term, <<>>)
           m == bd[b].term.at
           u == EffectsOf(stmts)
           n == Len(bd) + 1
           L == Len(mid[b].stmts)
           M == Len(refs)
           e == Effect(<<"after", of>>, args, bd[b].term.unwind)
           f == [front EXCEPT ![m] = Joined(@, u)]
<1>1. new \in Body /\ Trailed(mid, new, b, t)
  BY BehindProjects, Zenon
<1>2. /\ mid \in Body /\ Projected(mid, bd) /\ Targeted(mid) /\ Len(mid) = Len(bd)
      /\ mid[b].term = bd[b].term
      /\ Fronted(mid, bd, <<b, Len(bd[b].stmts) + 1>>, u)
  BY PadFronted
<1>3. HookEffect(new[n].term) = e /\ new[n].stmts = refs
  <2> DEFINE hook == HookCall("after", of, args, bd[b].term.to, bd[b].term.unwind)
             term == [bd[b].term EXCEPT !.to = {n}]
             blk == [stmts |-> refs, term |-> hook, cleanup |-> FALSE]
  <2>1. /\ {n} \in SUBSET Nat /\ bd[b].term.unwind \in UnwindAction /\ "after" \in HookNames
        /\ bd[b].term \in Terminator /\ bd[b].term.to \in SUBSET Nat
    BY TermFacts, Zenon DEF HookNames
  <2>2. hook \in Terminator
    BY <2>1, HookCallFacts
  <2>3. HookEffect(hook) = e
    BY HookEffectOf
  <2> HIDE DEF e
  <2>4. term \in Terminator
    <3> HIDE DEF n
    <3>1. QED
      BY <2>1, Zenon DEF Terminator
  <2> HIDE DEF hook
  <2>5. blk \in BasicBlock /\ blk.stmts = refs /\ blk.term = hook
    BY <2>2 DEF BasicBlock
  <2> HIDE DEF term, blk
  <2>6. Patch(bd, b, stmts, term, blk)[n] = blk
    BY <2>4, <2>5, ApplyFacts
  <2>7. QED
    BY <2>3, <2>5, <2>6 DEF Behind, hook, blk, term
<1>4. e \in EffectType
  <2>1. new[n].term \in Terminator
    <3>1. n \in 1..Len(new)
      BY <1>1, <1>2, BlocksOf DEF Trailed
    <3> HIDE DEF n, new
    <3>2. QED
      BY <1>1, <3>1, TermFacts
  <2>2. HookEffect(new[n].term) \in EffectType
    <3> DEFINE l == <<n, Len(new[n].stmts) + 1>>
    <3>1. n \in 1..Len(new)
      BY <1>1, <1>2, BlocksOf DEF Trailed
    <3>2. l \in Locations(new) /\ IsTerm(new, l) /\ ItemAt(new, l) = new[n].term
      BY <1>1, <3>1, TermPlace
    <3> HIDE DEF l, new, n
    <3>3. EffectAt(new, l) \in EffectType
      BY <1>1, <3>2, EffectAtType
    <3>4. QED
      BY <3>2, <3>3 DEF EffectAt
  <2>3. QED
    BY <1>3, <2>2
<1> HIDE DEF new, mid, e
<1>5. u \in Seq(EffectType)
  BY EffectsOfType
<1> HIDE DEF u
<1>6. m \in Locations(src) /\ Hooked(mid, src, f, rear, start) /\ HooksType(src, f, rear, start)
  <2>1. LET l == <<b, Len(bd[b].stmts) + 1>> IN Own(bd, l) /\ ItemAt(bd, l).at = m
    BY TermPlace DEF Own
  <2>2. m \in Locations(src) /\ Hooked(mid, src, f, rear, start)
    BY <1>2, <2>1, FrontHooked, Zenon DEF HooksType
  <2>3. QED
    BY <1>5, <2>2, FrontTyped, Zenon
<1>7. Projected(mid, src)
  BY <1>2, ProjectedTwice
<1>8. /\ Len(w) = M + 1 /\ M \in Nat /\ w[M + 1] = e
      /\ \A k \in 1..M : w[k] = refs[k].effect
  <2> DEFINE v == EffectsOf(refs)
  <2>1. /\ v \in Seq(EffectType) /\ Len(v) = M /\ M \in Nat
        /\ \A k \in 1..M : v[k] = refs[k].effect
    BY EffectsOfType
  <2>2. w = Append(v, e)
    BY DEF e
  <2> HIDE DEF v, M
  <2>3. /\ Len(Append(v, e)) = Len(v) + 1 /\ Append(v, e)[Len(v) + 1] = e
        /\ \A k \in 1..Len(v) : Append(v, e)[k] = v[k]
    BY <1>4, <2>1, AppendFacts
  <2>4. QED
    BY <2>1, <2>2, <2>3, Zenon
<1>9. Trailing(new, mid, <<b, L + 1>>, w)
  <2>1. Len(mid) + 1 = n
    BY <1>2
  <2>2. n \in 1..Len(new)
    BY <1>1, <1>2, BlocksOf DEF Trailed
  <2> HIDE DEF n, M
  <2>3. ASSUME NEW k \in 1..M + 1 PROVE w[k] = EffectAt(new, <<n, k>>)
    <3> DEFINE l == <<n, k>>
    <3>1. l \in Locations(new) /\ l[1] = n /\ l[2] = k
      BY <1>1, <1>3, <2>2, PlaceFacts, Zenon DEF M
    <3>2. IsTerm(new, l) <=> k = M + 1
      BY <1>3, <3>1, Zenon DEF IsTerm, M
    <3> HIDE DEF l
    <3>3. CASE k = M + 1
      <4>1. ItemAt(new, l) = new[n].term
        BY <1>1, <3>1, <3>2, <3>3, PlaceOf, Zenon
      <4>2. QED
        BY <1>3, <1>8, <3>2, <3>3, <4>1 DEF EffectAt, l
    <3>4. CASE k # M + 1
      <4>1. k \in 1..M
        <5>1. M \in Nat
          BY <1>8, Zenon
        <5>2. QED
          BY <3>4, <5>1
      <4>2. ItemAt(new, l) = new[n].stmts[k]
        BY <1>1, <3>1, <3>2, <3>4, PlaceOf, Zenon
      <4>3. QED
        BY <1>3, <1>8, <3>2, <3>4, <4>1, <4>2 DEF EffectAt, l
    <3>5. QED
      BY <3>3, <3>4, Zenon
  <2>4. Len(w) = Len(new[n].stmts) + 1
    BY <1>3, <1>8 DEF M
  <2>5. \A k \in 1..Len(w) : w[k] = EffectAt(new, <<n, k>>)
    BY <1>8, <2>3, Zenon
  <2>6. QED
    BY <1>1, <1>2, <2>1, <2>4, <2>5, TrailedTrailing, Zenon
<1>10. LET l == <<b, L + 1>> IN Own(mid, l) /\ ItemAt(mid, l).at = m
  BY <1>2, TermPlace DEF Own
<1>11. Hooked(new, src, f, [rear EXCEPT ![m] = Joined(w, @)], start)
  <2> HIDE DEF f, L, m
  <2>1. QED
    BY <1>1, <1>2, <1>6, <1>7, <1>9, <1>10, TrailHooked, Zenon DEF HooksType
<1>12. QED
  BY <1>6, <1>11 DEF new, u

-----------------------------------------------------------------------------
(* An edited body and all it runs.                                          *)

(* bd is an edited src and runs front, rear and start.                      *)
Carries(bd, src, front, rear, start) ==
    /\ bd \in Body /\ Targeted(bd) /\ Projected(bd, src)
    /\ HooksType(src, front, rear, start) /\ Hooked(bd, src, front, rear, start)

(* The home of an own item is a location of the source body, with the same  *)
(* item.                                                                    *)
LEMMA OwnHome ==
    ASSUME NEW bd \in Body, NEW src \in Body, Tagged(src), Projected(bd, src),
           NEW l \in Locations(bd), Own(bd, l)
    PROVE  /\ ItemAt(bd, l).at \in Locations(src)
           /\ Bared(bd, l) = Bared(src, ItemAt(bd, l).at)
           /\ IsTerm(bd, l) <=> IsTerm(src, ItemAt(bd, l).at)
<1>1. PICK h, s : Projects(bd, src, h, s)
  BY DEF Projected
<1>2. ItemAt(bd, l).at = h[l] /\ h[l] \in Locations(src) /\ Copied(bd, l, src, h[l], h)
  BY <1>1, OwnIsCopied
<1>3. QED
  BY <1>2 DEF Copied

-----------------------------------------------------------------------------
(* First blocks and next items.                                             *)

(* A body that is not empty has a first block.                              *)
LEMMA FirstBlock ==
    ASSUME NEW bd \in Body, bd # <<>>
    PROVE  Len(bd) \in Nat /\ 1 \in 1..Len(bd)
BY DEF Body

(* Items that differ in their targets only agree in their other fields.     *)
LEMMA SameFields ==
    ASSUME NEW x \in Terminator, NEW y \in Terminator,
           [x EXCEPT !.to = {}] = [y EXCEPT !.to = {}]
    PROVE  /\ x.at = y.at /\ x.kind = y.kind /\ x.fn = y.fn /\ x.of = y.of
           /\ x.args = y.args /\ x.unwind = y.unwind /\ x.uses = y.uses
<1> DEFINE u == [x EXCEPT !.to = {}]
           v == [y EXCEPT !.to = {}]
<1>1. /\ u.at = x.at /\ u.kind = x.kind /\ u.fn = x.fn /\ u.of = x.of
      /\ u.args = x.args /\ u.unwind = x.unwind /\ u.uses = x.uses
  BY DEF Terminator
<1>2. /\ v.at = y.at /\ v.kind = y.kind /\ v.fn = y.fn /\ v.of = y.of
      /\ v.args = y.args /\ v.unwind = y.unwind /\ v.uses = y.uses
  BY DEF Terminator
<1>3. u = v
  OBVIOUS
<1> HIDE DEF u, v
<1>4. QED
  BY <1>1, <1>2, <1>3

(* An item of the program where it is now and where rustc put it.           *)
LEMMA HomeItem ==
    ASSUME NEW bd \in Body, NEW src \in Body, Tagged(src), Projected(bd, src),
           NEW l \in Locations(bd), Own(bd, l)
    PROVE  LET m == ItemAt(bd, l).at
               x == ItemAt(bd, l)
               y == ItemAt(src, m)
           IN  /\ m \in Locations(src) /\ (IsTerm(bd, l) <=> IsTerm(src, m))
               /\ IsTerm(bd, l) => /\ x \in Terminator /\ y \in Terminator
                                   /\ x.kind = y.kind /\ x.fn = y.fn /\ x.of = y.of
                                   /\ x.args = y.args /\ x.unwind = y.unwind
               /\ x.uses = y.uses
<1> DEFINE m == ItemAt(bd, l).at
           x == ItemAt(bd, l)
           y == ItemAt(src, m)
<1>1. /\ m \in Locations(src) /\ (IsTerm(bd, l) <=> IsTerm(src, m))
      /\ Bared(bd, l) = Bared(src, m)
  BY OwnHome
<1> HIDE DEF m
<1>2. CASE IsTerm(bd, l)
  <2>1. x \in Terminator /\ y \in Terminator
    BY <1>1, <1>2, BaredFacts
  <2>2. [x EXCEPT !.to = {}] = [y EXCEPT !.to = {}]
    BY <1>1, <1>2 DEF Bared
  <2> HIDE DEF x, y
  <2>3. /\ x.kind = y.kind /\ x.fn = y.fn /\ x.of = y.of
        /\ x.args = y.args /\ x.unwind = y.unwind /\ x.uses = y.uses
    BY <2>1, <2>2, SameFields, Zenon
  <2>4. QED
    BY <1>1, <2>1, <2>3 DEF x, y, m
<1>3. CASE ~IsTerm(bd, l)
  <2>1. x = y
    BY <1>1, <1>3 DEF Bared
  <2>2. QED
    BY <1>1, <1>3, <2>1 DEF m
<1>4. QED
  BY <1>2, <1>3

(* From an item of the program the next one is reached, never the first:    *)
(* nothing goes back there.                                                 *)
LEMMA NextItem ==
    ASSUME NEW bd \in Body, NEW src \in Body, Tagged(src), WellFormed(src), Projected(bd, src),
           NEW l \in Locations(bd), Own(bd, l), NEW x \in Successors(bd, l)
    PROVE  /\ x \in Locations(bd)
           /\ Reach(bd)[x].to \in Locations(src)
           /\ Reach(bd)[x].to # <<1, 1>>
<1>1. PICK h, s : Projects(bd, src, h, s) /\ \E K \in Nat : \A k \in Locations(bd) : s[k] < K
  BY DEF Projected
<1>2. PICK K \in Nat : \A k \in Locations(bd) : s[k] < K
  BY <1>1
<1>3. x \in Locations(bd) /\ h[x] \in Locations(src)
  BY <1>1 DEF Projects
<1>4. Reach(bd)[x].to = h[x]
  <2>1. Arrived(Reach(bd)[x], h[x])
    BY <1>1, <1>2, <1>3, ReachesItem
  <2>2. QED
    BY <2>1 DEF Arrived
<1> DEFINE m == h[l]
<1>5. m \in Locations(src) /\ Copied(bd, l, src, m, h)
  BY <1>1, OwnIsCopied
<1> HIDE DEF m
<1>6. h[x] \in Successors(src, m)
  BY <1>5 DEF Copied
<1>7. /\ m[1] \in 1..Len(src) /\ m[2] \in 1..Len(src[m[1]].stmts) + 1
      /\ Len(src[m[1]].stmts) \in Nat
      /\ IsTerm(src, m) => ItemAt(src, m) = src[m[1]].term
  BY <1>5, PlaceOf
<1>8. CASE IsTerm(src, m)
  <2>1. PICK t \in src[m[1]].term.to : h[x] = <<t, 1>>
    BY <1>6, <1>7, <1>8 DEF Successors
  <2>2. t # 1
    BY <1>7, <2>1, BlocksOf DEF WellFormed
  <2>3. QED
    BY <1>3, <1>4, <2>1, <2>2
<1>9. CASE ~IsTerm(src, m)
  <2>1. h[x] = <<m[1], m[2] + 1>>
    BY <1>6, <1>9 DEF Successors
  <2> DEFINE p == m[2]
  <2>2. p \in Nat /\ p >= 1
    BY <1>7
  <2> HIDE DEF p
  <2>3. p + 1 # 1
    BY <2>2
  <2>4. m[2] + 1 # 1
    BY <2>3 DEF p
  <2>5. QED
    BY <1>3, <1>4, <2>1, <2>4
<1>10. QED
  BY <1>8, <1>9

-----------------------------------------------------------------------------
(* From the hooks at the items to the labels of the edges.                  *)

(* The fields of an edge.                                                   *)
LEMMA EdgeFields ==
    ASSUME NEW from, NEW how, NEW reached
    PROVE  /\ Edge(from, how, reached).from = from /\ Edge(from, how, reached).how = how
           /\ Edge(from, how, reached).to = reached.to
           /\ Edge(from, how, reached).effects = reached.effects
BY DEF Edge

(* From everywhere an item of the program is reached, from a block of the   *)
(* program its first one.                                                   *)
LEMMA ReachedItem ==
    ASSUME NEW bd \in Body, NEW src \in Body, Tagged(src), Projected(bd, src)
    PROVE  /\ \A x \in Locations(bd) : Reach(bd)[x].to \in Locations(src)
           /\ \A t \in Blocks(src) : Reach(bd)[<<t, 1>>].to = <<t, 1>>
<1>1. PICK h, s : Projects(bd, src, h, s) /\ \E K \in Nat : \A k \in Locations(bd) : s[k] < K
  BY DEF Projected
<1>2. PICK K \in Nat : \A k \in Locations(bd) : s[k] < K
  BY <1>1
<1>3. ASSUME NEW x \in Locations(bd)
      PROVE  h[x] \in Locations(src) /\ Reach(bd)[x].to = h[x]
  <2>1. Arrived(Reach(bd)[x], h[x])
    BY <1>1, <1>2, ReachesItem
  <2>2. QED
    BY <1>1, <2>1 DEF Arrived, Projects
<1>4. ASSUME NEW t \in Blocks(src) PROVE Reach(bd)[<<t, 1>>].to = <<t, 1>>
  <2>1. h[<<t, 1>>] = <<t, 1>> /\ t \in Blocks(bd)
    BY <1>1 DEF Projects
  <2>2. <<t, 1>> \in Locations(bd)
    BY <2>1, FirstItem
  <2>3. QED
    BY <1>3, <2>1, <2>2
<1>5. QED
  BY <1>3, <1>4

(* Unwinding from an item of the program leads to a block of the program.   *)
LEMMA UnwindsHome ==
    ASSUME NEW bd \in Body, NEW src \in Body, Tagged(src), WellFormed(src), Projected(bd, src),
           NEW l \in Locations(bd), Own(bd, l), IsTerm(bd, l),
           ItemAt(bd, l).unwind.act = "cleanup"
    PROVE  ItemAt(bd, l).unwind.block \in Blocks(src) /\ ItemAt(bd, l).unwind.block # 1
<1> DEFINE m == ItemAt(bd, l).at
<1>1. /\ m \in Locations(src) /\ IsTerm(src, m)
      /\ ItemAt(bd, l).unwind = ItemAt(src, m).unwind
  BY HomeItem
<1> HIDE DEF m
<1>2. m[1] \in 1..Len(src) /\ ItemAt(src, m) = src[m[1]].term
  BY <1>1, PlaceOf
<1>3. QED
  BY <1>1, <1>2, BlocksOf DEF WellFormed

(* What the hooks do on an edge.                                            *)
OnEdge(e, front, rear, start) ==
    Joined(IF e.how = "start" THEN start ELSE IF e.how = "normal" THEN rear[e.from] ELSE <<>>,
           front[e.to])

(* Each edge of a body runs the rear of where it comes from and the front   *)
(* of where it leads.                                                       *)
LEMMA HookedEdges ==
    ASSUME NEW src \in Body, Tagged(src), WellFormed(src),
           NEW bd, NEW front, NEW rear, NEW start, Carries(bd, src, front, rear, start),
           NEW e \in Edges(bd)
    PROVE  /\ e.to \in Locations(src)
           /\ e.how = "normal" => e.from \in Locations(src)
           /\ e.how \in {"start", "normal", "unwind"}
           /\ e.effects = OnEdge(e, front, rear, start)
<1>1. /\ bd \in Body /\ Targeted(bd) /\ Projected(bd, src)
      /\ Hooked(bd, src, front, rear, start) /\ src # <<>>
  BY DEF Carries, WellFormed
<1>2. 1 \in Blocks(src)
  BY <1>1, FirstBlock, BlocksOf
<1>3. /\ \A x \in Locations(bd) : Reach(bd)[x].to \in Locations(src)
      /\ \A t \in Blocks(src) : Reach(bd)[<<t, 1>>].to = <<t, 1>>
      /\ \A t \in Blocks(src) : <<t, 1>> \in Locations(src)
  BY <1>1, ReachedItem, FirstItem
<1>4. CASE e = Edge(Nowhere, "start", Reach(bd)[<<1, 1>>])
  <2>1. /\ e.how = "start" /\ e.to = Reach(bd)[<<1, 1>>].to
        /\ e.effects = Reach(bd)[<<1, 1>>].effects
    BY <1>4, EdgeFields
  <2>2. e.to = <<1, 1>> /\ e.to \in Locations(src)
    BY <1>2, <1>3, <2>1
  <2>3. Effects(bd, <<1, 1>>) = Joined(start, front[<<1, 1>>])
    BY <1>1, <1>2 DEF Hooked
  <2>4. QED
    BY <2>1, <2>2, <2>3 DEF OnEdge, Effects
<1>5. ASSUME NEW l \in Locations(bd), e \in EdgesAt(bd, l)
      PROVE  /\ e.to \in Locations(src)
             /\ e.how = "normal" => e.from \in Locations(src)
             /\ e.how \in {"start", "normal", "unwind"}
             /\ e.effects = OnEdge(e, front, rear, start)
  <2>1. Own(bd, l)
    BY <1>5 DEF EdgesAt, Own
  <2> DEFINE m == ItemAt(bd, l).at
  <2>2. m \in Locations(src)
    BY <1>1, <2>1, HomeItem
  <2>3. ASSUME NEW x \in Successors(bd, l), e = Edge(m, "normal", Reach(bd)[x])
        PROVE  /\ e.to \in Locations(src)
               /\ e.how = "normal" => e.from \in Locations(src)
               /\ e.how \in {"start", "normal", "unwind"}
               /\ e.effects = OnEdge(e, front, rear, start)
    <3>1. /\ e.how = "normal" /\ e.from = m /\ e.to = Reach(bd)[x].to
          /\ e.effects = Reach(bd)[x].effects
      BY <2>3, EdgeFields
    <3>2. Reach(bd)[x].to \in Locations(src)
      BY <1>1, <2>1, NextItem
    <3>3. Effects(bd, x) = Joined(rear[m], front[Reach(bd)[x].to])
      BY <1>1, <2>1 DEF Hooked
    <3> HIDE DEF m
    <3>4. QED
      BY <2>2, <3>1, <3>2, <3>3 DEF OnEdge, Effects
  <2>4. CASE ~IsTerm(bd, l)
    <3> DEFINE x == <<l[1], l[2] + 1>>
    <3>1. e = Edge(m, "normal", Reach(bd)[x])
      BY <1>5, <2>1, <2>4 DEF EdgesAt, Own
    <3>2. x \in Successors(bd, l)
      BY <2>4 DEF Successors
    <3> HIDE DEF x, m
    <3>3. QED
      BY <2>3, <3>1, <3>2
  <2>5. CASE IsTerm(bd, l)
    <3>1. CASE \E t \in ItemAt(bd, l).to : e = Edge(m, "normal", Reach(bd)[<<t, 1>>])
      <4>1. PICK t \in ItemAt(bd, l).to : e = Edge(m, "normal", Reach(bd)[<<t, 1>>])
        BY <3>1
      <4> DEFINE x == <<t, 1>>
      <4>2. x \in Successors(bd, l)
        BY <2>5 DEF Successors
      <4>3. e = Edge(m, "normal", Reach(bd)[x])
        BY <4>1
      <4> HIDE DEF x, m
      <4>4. QED
        BY <2>3, <4>2, <4>3
    <3>2. CASE /\ ItemAt(bd, l).unwind.act = "cleanup"
               /\ e = Edge(m, "unwind", Reach(bd)[<<ItemAt(bd, l).unwind.block, 1>>])
      <4> DEFINE t == ItemAt(bd, l).unwind.block
      <4>1. t \in Blocks(src) /\ t # 1
        BY <1>1, <2>1, <2>5, <3>2, UnwindsHome
      <4>2. /\ e.how = "unwind" /\ e.to = Reach(bd)[<<t, 1>>].to
            /\ e.effects = Reach(bd)[<<t, 1>>].effects
        BY <3>2, EdgeFields
      <4> HIDE DEF t
      <4>3. e.to = <<t, 1>> /\ e.to \in Locations(src)
        BY <1>3, <4>1, <4>2
      <4>4. Effects(bd, <<t, 1>>) = Joined(<<>>, front[<<t, 1>>])
        BY <1>1, <4>1 DEF Hooked
      <4>5. QED
        BY <4>2, <4>3, <4>4 DEF OnEdge, Effects
    <3>3. QED
      BY <1>5, <2>1, <2>5, <3>1, <3>2 DEF EdgesAt, Own
  <2>6. QED
    BY <2>4, <2>5
<1>6. QED
  BY <1>4, <1>5, EdgesFromLocations
=============================================================================
