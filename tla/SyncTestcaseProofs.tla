------------------------- MODULE SyncTestcaseProofs -------------------------
(* That test_std_sync hangs where it is meant to and nowhere else, whatever *)
(* the schedule and however often a condition variable wakes a thread that  *)
(* nobody notified.  A place in a text tells which locks its thread holds;  *)
(* the objects fall into groups no two of which share a thread but main.    *)
EXTENDS SyncTestcase, FiniteSetTheorems, SequenceTheorems, TLAPS

Main == pc["main"]
Asleep == "main" \in sleeping \cup woken

(* The owner of a lock only main takes, in one function, at some places.    *)
MainOwns(x, f, places) ==
    owner[x] = IF function = f /\ Main \in places THEN "main" ELSE Nobody

MainReads(x, f, one, two) ==
    readers[x] = IF function = f /\ Main \in one THEN 1
                 ELSE IF function = f /\ Main \in two THEN 2 ELSE 0

(* A thread exists once main is past the place that spawns it.              *)
SpawnedAt(t, f, place) == pc[t] > 0 <=> function = f /\ Main > place

MainPlaces ==
    /\ function = "main" => Main \in 1..14
    /\ function = "testconvar" => Main \in 1..15
    /\ function = "test_multimutex" => Main \in 1..37
    /\ function = "test_conflict_lock" => Main \in 1..9
    /\ sleeping \subseteq {"main"} /\ woken \subseteq {"main"} \ sleeping
    /\ Asleep => function = "testconvar" /\ Main \in {3, 5, 7, 10, 13}
    /\ arrived["one"] = {} /\ arrived["alone1"] = {} /\ arrived["alone2"] = {}

MainLocks ==
    /\ MainOwns("mutex", "main", {2, 4}) /\ readers["mutex"] = 0
    /\ MainOwns("rwlock", "main", {8, 12}) /\ MainReads("rwlock", "main", {6, 10}, {})
    /\ MainOwns("a", "test_multimutex", 2..8 \cup 16..24 \cup 30..34) /\ readers["a"] = 0
    /\ MainOwns("b", "test_multimutex", 3..7 \cup 17..23 \cup 31..33) /\ readers["b"] = 0
    /\ MainOwns("c", "test_multimutex", 4..6 \cup 18..22 \cup 32..36) /\ readers["c"] = 0
    /\ MainOwns("d", "test_multimutex", {10, 21})
    /\ MainReads("d", "test_multimutex", {5, 12, 14, 19, 33, 34, 35}, {13})

(* The condition variable: a notifier main still sleeps for has not         *)
(* notified, and as long as the value is FALSE it has not set it.           *)
Awaits(place, n) ==
    Main = place => /\ ~Asleep => pc[n] = 1
                    /\ "main" \in sleeping => pc[n] <= 4
AwaitsValue(place, n) ==
    Main = place => /\ ~value => pc[n] <= 2
                    /\ "main" \in sleeping => pc[n] <= 4
Condvar ==
    /\ owner["cm"] \in {"main", Nobody} \cup Notifiers /\ readers["cm"] = 0
    /\ owner["cm"] = "main" <=> function = "testconvar" /\ Main \in 2..14 /\ ~Asleep
    /\ \A n \in Notifiers : pc[n] \in 0..5 /\ (owner["cm"] = n <=> pc[n] \in 2..3)
    /\ function = "testconvar" =>
         /\ Awaits(3, "n1") /\ Awaits(5, "n2") /\ Awaits(7, "n3")
         /\ AwaitsValue(10, "n4") /\ AwaitsValue(13, "n5")

(* A thread that locks twice.                                               *)
Relocks(t, x) ==
    /\ pc[t] \in 0..2 /\ readers[x] = 0
    /\ owner[x] = IF pc[t] = 2 THEN t ELSE Nobody

(* Reader and writer: one of them has the lock, the other does not get it.  *)
ReadOrWrite ==
    /\ pc["writer"] \in 0..2 /\ pc["reader"] \in 0..2
    /\ pc["writer"] # 2 \/ pc["reader"] # 2
    /\ owner["t"] = IF pc["writer"] = 2 THEN "writer" ELSE Nobody
    /\ readers["t"] = IF pc["reader"] = 2 THEN 1 ELSE 0
    /\ arrived["meet"] \subseteq {t \in {"reader", "writer"} : pc[t] = 2}

(* Two threads that take two locks crosswise, with a barrier in between.    *)
Crosses(u, v, x, y, meet) ==
    /\ pc[u] \in 0..3 /\ pc[v] \in 0..3 /\ (pc[u] = 3 <=> pc[v] = 3)
    /\ owner[x] = (IF pc[u] >= 2 THEN u ELSE Nobody) /\ readers[x] = 0
    /\ owner[y] = (IF pc[v] >= 2 THEN v ELSE Nobody) /\ readers[y] = 0
    /\ arrived[meet] \subseteq {t \in {u, v} : pc[t] = 2} /\ arrived[meet] # {u, v}

(* The "potential conflict".                                                *)
Takes(u, v) ==
    /\ pc[u] \in 0..6 /\ pc[v] \in 0..6 /\ (pc[u] >= 4 <=> pc[v] >= 2)
    /\ readers["p1"] = 0 /\ readers["p2"] = 0
    /\ owner["p1"] \in {u, v, Nobody} /\ owner["p2"] \in {u, v, Nobody}
    /\ owner["p1"] = u <=> pc[u] \in 2..5
    /\ owner["p1"] = v <=> pc[v] = 4
    /\ owner["p2"] = u <=> pc[u] \in 3..4
    /\ owner["p2"] = v <=> pc[v] \in 3..5
    /\ arrived["pp"] \subseteq {t \in {u, v} : (t = u /\ pc[u] = 3) \/ (t = v /\ pc[v] = 1)}
    /\ arrived["pp"] # {u, v}

(* Who is spawned when.                                                     *)
Spawned ==
    /\ SpawnedAt("n1", "testconvar", 2) /\ SpawnedAt("n2", "testconvar", 4)
    /\ SpawnedAt("n3", "testconvar", 6) /\ SpawnedAt("n4", "testconvar", 9)
    /\ SpawnedAt("n5", "testconvar", 12)
    /\ SpawnedAt("relock", "test_multimutex", 25) /\ SpawnedAt("writer", "test_multimutex", 26)
    /\ SpawnedAt("reader", "test_multimutex", 27) /\ SpawnedAt("rewrite", "test_multimutex", 28)
    /\ SpawnedAt("mm1", "test_conflict_lock", 1) /\ SpawnedAt("mm2", "test_conflict_lock", 2)
    /\ SpawnedAt("rr1", "test_conflict_lock", 3) /\ SpawnedAt("rr2", "test_conflict_lock", 4)
    /\ SpawnedAt("mr1", "test_conflict_lock", 5) /\ SpawnedAt("mr2", "test_conflict_lock", 6)
    /\ SpawnedAt("pp1", "test_conflict_lock", 7) /\ SpawnedAt("pp2", "test_conflict_lock", 8)

(* TypeOK as far as it needs no text.                                       *)
Typed ==
    /\ function \in Functions
    /\ pc \in [Threads -> Nat]
    /\ owner \in [Objects -> Threads \cup {Nobody}] /\ readers \in [Objects -> Int]
    /\ arrived \in [Barriers -> SUBSET Threads]
    /\ wakeups \in 0..MaxWakeups /\ value \in BOOLEAN /\ exited \in BOOLEAN

Groups ==
    /\ Relocks("relock", "r") /\ Relocks("rewrite", "w") /\ ReadOrWrite
    /\ Crosses("mm1", "mm2", "m1", "m2", "mm") /\ Crosses("rr1", "rr2", "r1", "r2", "rr")
    /\ Crosses("mr1", "mr2", "x1", "x2", "mr") /\ Takes("pp1", "pp2")

(* The inductive invariant.                                                 *)
IInv == Typed /\ MainPlaces /\ MainLocks /\ Spawned /\ Condvar /\ Groups

-----------------------------------------------------------------------------
(* The texts, place by place.                                               *)

LEMMA TextLengths ==
    /\ Len(MainText) = 13 /\ Len(NotifierText) = 4 /\ Len(TestconvarText) = 14
    /\ Len(ConflictText) = 8 /\ Len(WriterText) = 4 /\ Len(ReaderText) = 5
    /\ Len(PotentialText) = 5 /\ Len(PotentialCounterText) = 5
BY DEF MainText, NotifierText, TestconvarText, ConflictText, WriterText, ReaderText,
       PotentialText, PotentialCounterText

Things == {"a", "b", "c", "d", "relock", "writer", "reader", "rewrite"}
Words == {"lock", "read", "drop", "spawn"} \X Things

LEMMA Statements ==
    ASSUME NEW x \in Things
    PROVE  Lock(x) \in Words /\ Read(x) \in Words /\ Drop(x) \in Words /\ Spawn(x) \in Words
BY DEF Lock, Read, Drop, Spawn, Words

(* A text and what follows it.                                              *)
LEMMA Followed ==
    ASSUME NEW s \in Seq(Words), NEW t \in Seq(Words)
    PROVE  /\ s \o t \in Seq(Words) /\ Len(s \o t) = Len(s) + Len(t)
           /\ \A k \in 1..Len(s) : (s \o t)[k] = s[k]
           /\ \A k \in 1..Len(t) : (s \o t)[Len(s) + k] = t[k]
OBVIOUS

(* MultimutexText from its first place to its last.                         *)
Multimutex(k) ==
    IF k \in {1, 15, 29} THEN Lock("a")
    ELSE IF k \in {2, 16, 30} THEN Lock("b")
    ELSE IF k \in {3, 17, 31} THEN Lock("c")
    ELSE IF k \in {9, 20} THEN Lock("d")
    ELSE IF k \in {4, 11, 12, 18, 32} THEN Read("d")
    ELSE IF k \in {8, 24, 34} THEN Drop("a")
    ELSE IF k \in {7, 23, 33} THEN Drop("b")
    ELSE IF k \in {6, 22, 36} THEN Drop("c")
    ELSE IF k = 25 THEN Spawn("relock") ELSE IF k = 26 THEN Spawn("writer")
    ELSE IF k = 27 THEN Spawn("reader") ELSE IF k = 28 THEN Spawn("rewrite")
    ELSE Drop("d")

(* A text that agrees with it so far, and what follows.                     *)
Begins(s, n) ==
    s \in Seq(Words) /\ Len(s) = n /\ \A k \in 1..n : s[k] = Multimutex(k)

LEMMA BeginsMore ==
    ASSUME NEW s, NEW n \in Nat, Begins(s, n), NEW t \in Seq(Words), NEW m \in Nat, Len(t) = m,
           \A k \in 1..m : t[k] = Multimutex(n + k)
    PROVE  Begins(s \o t, n + m)
<1>1. /\ s \in Seq(Words) /\ Len(s) = n /\ s \o t \in Seq(Words) /\ Len(s \o t) = n + m
      /\ \A k \in 1..n : (s \o t)[k] = s[k] /\ s[k] = Multimutex(k)
      /\ \A k \in 1..m : (s \o t)[n + k] = t[k]
  BY Followed, Zenon DEF Begins
<1>2. ASSUME NEW k \in 1..n + m PROVE (s \o t)[k] = Multimutex(k)
  <2>1. CASE k \in 1..n
    BY <1>1, <2>1
  <2>2. CASE k \notin 1..n
    <3>1. k - n \in 1..m /\ n + (k - n) = k
      BY <2>2
    <3>2. QED
      BY <1>1, <3>1
  <2>3. QED
    BY <2>1, <2>2, Zenon
<1>3. QED
  BY <1>1, <1>2 DEF Begins

(* Four words that are the next ones of the text; two; and six.             *)
LEMMA FourMore ==
    ASSUME NEW s, NEW n \in Nat, Begins(s, n),
           Multimutex(n + 1) \in Words, Multimutex(n + 2) \in Words,
           Multimutex(n + 3) \in Words, Multimutex(n + 4) \in Words
    PROVE  Begins(s \o <<Multimutex(n + 1), Multimutex(n + 2), Multimutex(n + 3),
                         Multimutex(n + 4)>>, n + 4)
<1> DEFINE t == <<Multimutex(n + 1), Multimutex(n + 2), Multimutex(n + 3), Multimutex(n + 4)>>
<1>1. /\ t \in Seq(Words) /\ Len(t) = 4
      /\ t[1] = Multimutex(n + 1) /\ t[2] = Multimutex(n + 2)
      /\ t[3] = Multimutex(n + 3) /\ t[4] = Multimutex(n + 4)
  OBVIOUS
<1> HIDE DEF t
<1>2. \A k \in 1..4 : t[k] = Multimutex(n + k)
  <2>1. \A k \in 1..4 : k = 1 \/ k = 2 \/ k = 3 \/ k = 4
    OBVIOUS
  <2>2. QED
    BY <1>1, <2>1
<1>3. QED
  BY <1>1, <1>2, BeginsMore, Zenon DEF t

LEMMA TwoMore ==
    ASSUME NEW s, NEW n \in Nat, Begins(s, n),
           Multimutex(n + 1) \in Words, Multimutex(n + 2) \in Words
    PROVE  Begins(s \o <<Multimutex(n + 1), Multimutex(n + 2)>>, n + 2)
<1> DEFINE t == <<Multimutex(n + 1), Multimutex(n + 2)>>
<1>1. /\ t \in Seq(Words) /\ Len(t) = 2
      /\ t[1] = Multimutex(n + 1) /\ t[2] = Multimutex(n + 2)
  OBVIOUS
<1> HIDE DEF t
<1>2. \A k \in 1..2 : t[k] = Multimutex(n + k)
  <2>1. \A k \in 1..2 : k = 1 \/ k = 2
    OBVIOUS
  <2>2. QED
    BY <1>1, <2>1
<1>3. QED
  BY <1>1, <1>2, BeginsMore, Zenon DEF t

LEMMA SixMore ==
    ASSUME NEW s, NEW n \in Nat, Begins(s, n),
           Multimutex(n + 1) \in Words, Multimutex(n + 2) \in Words, Multimutex(n + 3) \in Words,
           Multimutex(n + 4) \in Words, Multimutex(n + 5) \in Words, Multimutex(n + 6) \in Words
    PROVE  Begins(s \o <<Multimutex(n + 1), Multimutex(n + 2), Multimutex(n + 3),
                         Multimutex(n + 4), Multimutex(n + 5), Multimutex(n + 6)>>, n + 6)
<1> DEFINE t == <<Multimutex(n + 1), Multimutex(n + 2), Multimutex(n + 3),
                  Multimutex(n + 4), Multimutex(n + 5), Multimutex(n + 6)>>
<1>1. /\ t \in Seq(Words) /\ Len(t) = 6
      /\ t[1] = Multimutex(n + 1) /\ t[2] = Multimutex(n + 2) /\ t[3] = Multimutex(n + 3)
      /\ t[4] = Multimutex(n + 4) /\ t[5] = Multimutex(n + 5) /\ t[6] = Multimutex(n + 6)
  OBVIOUS
<1> HIDE DEF t
<1>2. \A k \in 1..6 : t[k] = Multimutex(n + k)
  <2>1. \A k \in 1..6 : k = 1 \/ k = 2 \/ k = 3 \/ k = 4 \/ k = 5 \/ k = 6
    OBVIOUS
  <2>2. QED
    BY <1>1, <2>1, Zenon
<1>3. QED
  BY <1>1, <1>2, BeginsMore, Zenon DEF t

LEMMA MultimutexWords == \A k \in 1..36 : Multimutex(k) \in Words
<1>1. /\ \A x \in {"a", "b", "c", "d"} : Lock(x) \in Words /\ Read(x) \in Words /\ Drop(x) \in Words
      /\ \A x \in {"relock", "writer", "reader", "rewrite"} : Spawn(x) \in Words
  BY Statements DEF Things
<1>2. QED
  BY <1>1 DEF Multimutex

(* Concatenation is associative, so that a Nest is two more pieces.         *)
LEMMA NestAfter ==
    ASSUME NEW s \in Seq(Words), NEW t \in Seq(Words)
    PROVE  s \o Nest(t) = (s \o <<Lock("a"), Lock("b"), Lock("c"), Read("d")>>) \o t
<1> DEFINE four == <<Lock("a"), Lock("b"), Lock("c"), Read("d")>>
<1>1. four \in Seq(Words)
  <2>1. Lock("a") \in Words /\ Lock("b") \in Words /\ Lock("c") \in Words /\ Read("d") \in Words
    BY Statements DEF Things
  <2>2. QED
    BY <2>1
<1>2. Nest(t) = four \o t
  BY DEF Nest
<1> HIDE DEF four
<1>3. s \o (four \o t) = (s \o four) \o t
  BY <1>1, ConcatAssociative
<1>4. QED
  BY <1>2, <1>3, Zenon DEF four

LEMMA MultimutexPlaces ==
    Len(MultimutexText) = 36 /\ \A k \in 1..36 : MultimutexText[k] = Multimutex(k)
<1> DEFINE t1 == <<Lock("a"), Lock("b"), Lock("c"), Read("d")>>
           x2 == <<Drop("d"), Drop("c"), Drop("b"), Drop("a")>>
           x3 == <<Lock("d"), Drop("d")>>
           x4 == <<Read("d"), Read("d"), Drop("d"), Drop("d")>>
           x5 == <<Lock("a"), Lock("b"), Lock("c"), Read("d")>>
           x6 == <<Drop("d"), Lock("d"), Drop("d"), Drop("c"), Drop("b"), Drop("a")>>
           x7 == <<Spawn("relock"), Spawn("writer"), Spawn("reader"), Spawn("rewrite")>>
           x8 == <<Lock("a"), Lock("b"), Lock("c"), Read("d")>>
           x9 == <<Drop("b"), Drop("a"), Drop("d"), Drop("c")>>
           t2 == t1 \o x2
           t3 == t2 \o x3
           t4 == t3 \o x4
           t5 == t4 \o x5
           t6 == t5 \o x6
           t7 == t6 \o x7
           t8 == t7 \o x8
           t9 == t8 \o x9
<1>1. Begins(t1, 4)
  <2>1. /\ Multimutex(1) = Lock("a") /\ Multimutex(2) = Lock("b")
        /\ Multimutex(3) = Lock("c") /\ Multimutex(4) = Read("d")
    BY DEF Multimutex
  <2>2. /\ Multimutex(1) \in Words /\ Multimutex(2) \in Words
        /\ Multimutex(3) \in Words /\ Multimutex(4) \in Words
    BY MultimutexWords
  <2>3. /\ t1 \in Seq(Words) /\ Len(t1) = 4
        /\ t1[1] = Lock("a") /\ t1[2] = Lock("b") /\ t1[3] = Lock("c") /\ t1[4] = Read("d")
    BY <2>1, <2>2
  <2>4. \A k \in 1..4 : k = 1 \/ k = 2 \/ k = 3 \/ k = 4
    OBVIOUS
  <2> HIDE DEF t1
  <2>5. QED
    BY <2>1, <2>3, <2>4 DEF Begins
<1> HIDE DEF t1
<1>2. Begins(t2, 8)
  <2>1. /\ Multimutex(4 + 1) = Drop("d") /\ Multimutex(4 + 2) = Drop("c")
        /\ Multimutex(4 + 3) = Drop("b") /\ Multimutex(4 + 4) = Drop("a")
    BY DEF Multimutex
  <2>2. /\ Multimutex(4 + 1) \in Words /\ Multimutex(4 + 2) \in Words
        /\ Multimutex(4 + 3) \in Words /\ Multimutex(4 + 4) \in Words
    BY MultimutexWords
  <2>3. Begins(t2, 4 + 4)
    BY <1>1, <2>1, <2>2, FourMore
  <2>4. QED
    BY <2>3
<1> HIDE DEF t2
<1>3. Begins(t3, 10)
  <2>1. /\ Multimutex(8 + 1) = Lock("d") /\ Multimutex(8 + 2) = Drop("d")
    BY DEF Multimutex
  <2>2. /\ Multimutex(8 + 1) \in Words /\ Multimutex(8 + 2) \in Words
    BY MultimutexWords
  <2>3. Begins(t3, 8 + 2)
    BY <1>2, <2>1, <2>2, TwoMore
  <2>4. QED
    BY <2>3
<1> HIDE DEF t3
<1>4. Begins(t4, 14)
  <2>1. /\ Multimutex(10 + 1) = Read("d") /\ Multimutex(10 + 2) = Read("d")
        /\ Multimutex(10 + 3) = Drop("d") /\ Multimutex(10 + 4) = Drop("d")
    BY DEF Multimutex
  <2>2. /\ Multimutex(10 + 1) \in Words /\ Multimutex(10 + 2) \in Words
        /\ Multimutex(10 + 3) \in Words /\ Multimutex(10 + 4) \in Words
    BY MultimutexWords
  <2>3. Begins(t4, 10 + 4)
    BY <1>3, <2>1, <2>2, FourMore
  <2>4. QED
    BY <2>3
<1> HIDE DEF t4
<1>5. Begins(t5, 18)
  <2>1. /\ Multimutex(14 + 1) = Lock("a") /\ Multimutex(14 + 2) = Lock("b")
        /\ Multimutex(14 + 3) = Lock("c") /\ Multimutex(14 + 4) = Read("d")
    BY DEF Multimutex
  <2>2. /\ Multimutex(14 + 1) \in Words /\ Multimutex(14 + 2) \in Words
        /\ Multimutex(14 + 3) \in Words /\ Multimutex(14 + 4) \in Words
    BY MultimutexWords
  <2>3. Begins(t5, 14 + 4)
    BY <1>4, <2>1, <2>2, FourMore
  <2>4. QED
    BY <2>3
<1> HIDE DEF t5
<1>6. Begins(t6, 24)
  <2>1. /\ Multimutex(18 + 1) = Drop("d") /\ Multimutex(18 + 2) = Lock("d")
        /\ Multimutex(18 + 3) = Drop("d") /\ Multimutex(18 + 4) = Drop("c")
        /\ Multimutex(18 + 5) = Drop("b") /\ Multimutex(18 + 6) = Drop("a")
    BY DEF Multimutex
  <2>2. /\ Multimutex(18 + 1) \in Words /\ Multimutex(18 + 2) \in Words
        /\ Multimutex(18 + 3) \in Words /\ Multimutex(18 + 4) \in Words
        /\ Multimutex(18 + 5) \in Words /\ Multimutex(18 + 6) \in Words
    BY MultimutexWords
  <2>3. Begins(t6, 18 + 6)
    BY <1>5, <2>1, <2>2, SixMore
  <2>4. QED
    BY <2>3
<1> HIDE DEF t6
<1>7. Begins(t7, 28)
  <2>1. /\ Multimutex(24 + 1) = Spawn("relock") /\ Multimutex(24 + 2) = Spawn("writer")
        /\ Multimutex(24 + 3) = Spawn("reader") /\ Multimutex(24 + 4) = Spawn("rewrite")
    BY DEF Multimutex
  <2>2. /\ Multimutex(24 + 1) \in Words /\ Multimutex(24 + 2) \in Words
        /\ Multimutex(24 + 3) \in Words /\ Multimutex(24 + 4) \in Words
    BY MultimutexWords
  <2>3. Begins(t7, 24 + 4)
    BY <1>6, <2>1, <2>2, FourMore
  <2>4. QED
    BY <2>3
<1> HIDE DEF t7
<1>8. Begins(t8, 32)
  <2>1. /\ Multimutex(28 + 1) = Lock("a") /\ Multimutex(28 + 2) = Lock("b")
        /\ Multimutex(28 + 3) = Lock("c") /\ Multimutex(28 + 4) = Read("d")
    BY DEF Multimutex
  <2>2. /\ Multimutex(28 + 1) \in Words /\ Multimutex(28 + 2) \in Words
        /\ Multimutex(28 + 3) \in Words /\ Multimutex(28 + 4) \in Words
    BY MultimutexWords
  <2>3. Begins(t8, 28 + 4)
    BY <1>7, <2>1, <2>2, FourMore
  <2>4. QED
    BY <2>3
<1> HIDE DEF t8
<1>9. Begins(t9, 36)
  <2>1. /\ Multimutex(32 + 1) = Drop("b") /\ Multimutex(32 + 2) = Drop("a")
        /\ Multimutex(32 + 3) = Drop("d") /\ Multimutex(32 + 4) = Drop("c")
    BY DEF Multimutex
  <2>2. /\ Multimutex(32 + 1) \in Words /\ Multimutex(32 + 2) \in Words
        /\ Multimutex(32 + 3) \in Words /\ Multimutex(32 + 4) \in Words
    BY MultimutexWords
  <2>3. Begins(t9, 32 + 4)
    BY <1>8, <2>1, <2>2, FourMore
  <2>4. QED
    BY <2>3
<1> HIDE DEF t9
<1>10. MultimutexText = t9
  <2>1. t4 \in Seq(Words) /\ t7 \in Seq(Words)
    BY <1>4, <1>7 DEF Begins
  <2>2. x6 \in Seq(Words) /\ x9 \in Seq(Words)
    <3>1. Lock("d") \in Words /\ \A x \in {"a", "b", "c", "d"} : Drop(x) \in Words
      BY Statements DEF Things
    <3>2. QED
      BY <3>1
  <2>3. t2 = Nest(x2)
    BY DEF Nest, t1, t2
  <2>4. t4 = (Nest(x2) \o x3) \o x4
    BY <2>3 DEF t3, t4
  <2>5. t6 = t4 \o Nest(x6)
    BY <2>1, <2>2, NestAfter, Zenon DEF t5, t6
  <2>6. t9 = t7 \o Nest(x9)
    BY <2>1, <2>2, NestAfter, Zenon DEF t8, t9
  <2>7. t9 = (t6 \o x7) \o Nest(x9)
    BY <2>6 DEF t7
  <2>8. QED
    BY <2>4, <2>5, <2>7, Zenon DEF MultimutexText
<1>11. QED
  BY <1>9, <1>10 DEF Begins

-----------------------------------------------------------------------------
(* Steps.                                                                   *)

Goes(ts) == \A u \in Threads : pc'[u] = IF u \in ts THEN pc[u] + 1 ELSE pc[u]
Owners(x, t) == \A y \in Objects : owner'[y] = IF y = x THEN t ELSE owner[y]
Reads(x, n) == \A y \in Objects : readers'[y] = IF y = x THEN readers[x] + n ELSE readers[y]
Meets(b, ts) == \A c \in Barriers : arrived'[c] = IF c = b THEN ts ELSE arrived[c]

Still == UNCHANGED <<function, wakeups, exited>>

(* What each action makes of the state.                                     *)
Took(t, x) ==
    /\ Free(x) /\ Owners(x, t) /\ Goes({t})
    /\ Still /\ UNCHANGED <<readers, value, arrived, sleeping, woken>>
Shared(t, x) ==
    /\ owner[x] = Nobody /\ Reads(x, 1) /\ Goes({t})
    /\ Still /\ UNCHANGED <<owner, value, arrived, sleeping, woken>>
Released(t, x) ==
    /\ owner[x] = t => Owners(x, Nobody) /\ UNCHANGED readers
    /\ owner[x] # t => Reads(x, -1) /\ UNCHANGED owner
    /\ Goes({t})
    /\ Still /\ UNCHANGED <<value, arrived, sleeping, woken>>
Arrives(t, x) ==
    /\ t \notin arrived[x]
    /\ LET all == arrived[x] \cup {t} IN
         /\ Cardinality(all) = Size(x) => Meets(x, {}) /\ Goes(all)
         /\ Cardinality(all) # Size(x) => Meets(x, all) /\ Goes({})
    /\ Still /\ UNCHANGED <<owner, readers, value, sleeping, woken>>

LEMMA AcquireDoes ==
    ASSUME Typed, NEW t \in Threads, NEW x \in Objects, On(t) = x, Acquire(t)
    PROVE  Took(t, x) /\ Typed'
BY DEF Typed, Acquire, Took, Owners, Goes, Advance, Still, waits

LEMMA ShareDoes ==
    ASSUME Typed, NEW t \in Threads, NEW x \in Objects, On(t) = x, Share(t)
    PROVE  Shared(t, x) /\ Typed'
BY DEF Typed, Share, Shared, Reads, Goes, Advance, Still, waits

LEMMA ReleaseDoes ==
    ASSUME Typed, NEW t \in Threads, NEW x \in Objects, On(t) = x, Release(t)
    PROVE  Released(t, x) /\ Typed'
BY DEF Typed, Release, Released, Reads, Owners, Goes, Advance, Still, waits

LEMMA ArriveDoes ==
    ASSUME Typed, NEW t \in Threads, NEW x \in Barriers, On(t) = x, Arrive(t)
    PROVE  Arrives(t, x) /\ Typed'
<1> DEFINE all == arrived[x] \cup {t}
           full == Cardinality(all) = Size(x)
<1>1. /\ t \notin arrived[x]
      /\ arrived' = [arrived EXCEPT ![x] = IF full THEN {} ELSE all]
      /\ pc' = [u \in Threads |-> IF u \in (IF full THEN all ELSE {}) THEN pc[u] + 1 ELSE pc[u]]
      /\ Still /\ UNCHANGED <<owner, readers, value, sleeping, woken>>
  BY Zenon DEF Arrive, Advance, Still, locks
<1>2. all \in SUBSET Threads
  BY DEF Typed
<1> HIDE DEF all
<1>3. full => Meets(x, {}) /\ Goes(all)
  BY <1>1 DEF Meets, Goes, Typed
<1>4. ~full => Meets(x, all) /\ Goes({})
  BY <1>1 DEF Meets, Goes, Typed
<1>5. Arrives(t, x)
  BY <1>1, <1>3, <1>4, Zenon DEF Arrives, all
<1>6. Typed'
  <2>1. pc' \in [Threads -> Nat]
    BY <1>1 DEF Typed
  <2>2. arrived' \in [Barriers -> SUBSET Threads]
    BY <1>1, <1>2 DEF Typed
  <2>3. QED
    BY <2>1, <2>2, <1>1 DEF Typed, Still
<1>7. QED
  BY <1>5, <1>6

(* A thread whose next word is known takes a step of the action for it.     *)
LEMMA StepOf ==
    ASSUME NEW t \in Threads, NEW kind, Text(t)[pc[t]][1] = kind, t \notin woken, Step(t)
    PROVE  /\ ~exited /\ t \notin sleeping /\ pc[t] \in 1..Len(Text(t))
           /\ \/ kind \in {"lock", "try_lock"} /\ Acquire(t)
              \/ kind \in {"read", "try_read"} /\ Share(t)
              \/ kind = "drop" /\ Release(t)
              \/ kind = "barrier" /\ Arrive(t)
              \/ kind = "set" /\ Set(t)
              \/ kind = "spawn" /\ SpawnThread(t)
              \/ kind \in {"wait", "wait_while"} /\ Sleep(t)
              \/ kind = "notify" /\ Notify(t)
<1>1. \A W : At(t, W) => /\ kind \in W /\ ~exited /\ t \notin sleeping
                         /\ pc[t] \in 1..Len(Text(t))
  BY DEF At
<1>2. ~Reacquire(t)
  BY DEF Reacquire
<1>3. QED
  BY <1>1, <1>2 DEF Step, Acquire, Share, Release, Arrive, Set, SpawnThread, Sleep, Notify

LEMMA StepIs ==
    ASSUME NEW t \in Threads, NEW kind, NEW x, Text(t)[pc[t]] = <<kind, x>>, t \notin woken, Step(t)
    PROVE  /\ On(t) = x
           /\ \/ kind \in {"lock", "try_lock"} /\ Acquire(t)
              \/ kind \in {"read", "try_read"} /\ Share(t)
              \/ kind = "drop" /\ Release(t)
              \/ kind = "barrier" /\ Arrive(t)
              \/ kind = "set" /\ Set(t)
              \/ kind = "spawn" /\ SpawnThread(t)
              \/ kind \in {"wait", "wait_while"} /\ Sleep(t)
              \/ kind = "notify" /\ Notify(t)
<1>1. On(t) = x /\ Text(t)[pc[t]][1] = kind
  BY DEF On
<1>2. QED
  BY <1>1, StepOf

LEMMA SetWord ==
    ASSUME NEW v
    PROVE  SetTo(v)[1] = "set" /\ SetTo(v)[2] = v
BY DEF SetTo

LEMMA SetIs ==
    ASSUME NEW t \in Threads, NEW v \in BOOLEAN, Text(t)[pc[t]] = SetTo(v), t \notin woken, Step(t)
    PROVE  On(t) = v /\ Set(t)
<1>1. On(t) = v /\ Text(t)[pc[t]][1] = "set"
  BY SetWord DEF On
<1>2. QED
  BY <1>1, StepOf

-----------------------------------------------------------------------------
(* What each thread runs.                                                   *)

LEMMA ThreadTexts ==
    /\ \A n \in Notifiers : Text(n) = NotifierText
    /\ Text("relock") = RelockText("r") /\ Text("rewrite") = RelockText("w")
    /\ Text("writer") = WriterText /\ Text("reader") = ReaderText
    /\ Text("mm1") = CrossingText("m1", "m2", "mm") /\ Text("mm2") = CrossingText("m2", "m1", "mm")
    /\ Text("rr1") = CrossingText("r1", "r2", "rr") /\ Text("rr2") = CrossingText("r2", "r1", "rr")
    /\ Text("mr1") = CrossingText("x1", "x2", "mr") /\ Text("mr2") = CrossingText("x2", "x1", "mr")
    /\ Text("pp1") = PotentialText /\ Text("pp2") = PotentialCounterText
BY DEF Text, Notifiers

LEMMA MainTexts ==
    /\ function = "main" => Text("main") = MainText
    /\ function = "testconvar" => Text("main") = TestconvarText
    /\ function = "test_multimutex" => Text("main") = MultimutexText
    /\ function = "test_conflict_lock" => Text("main") = ConflictText
<1>1. Text("main") = CASE function = "main"            -> MainText
                       [] function = "testconvar"      -> TestconvarText
                       [] function = "test_multimutex" -> MultimutexText
                       [] OTHER                        -> ConflictText
  BY DEF Text, Notifiers
<1>2. function = "test_conflict_lock" => Text("main") = ConflictText
  <2>1. HAVE function = "test_conflict_lock"
  <2>2. function # "main" /\ function # "testconvar" /\ function # "test_multimutex"
    BY <2>1
  <2>3. QED
    BY <1>1, <2>2
<1>3. QED
  BY <1>1, <1>2

LEMMA OneFunction ==
    Typed => function \in {"main", "testconvar", "test_multimutex", "test_conflict_lock"}
BY TestcaseAssumption DEF Typed

-----------------------------------------------------------------------------
(* A step that only touches some threads, objects and barriers, and what    *)
(* else there is.                                                           *)

Local(ts, xs, bs) ==
    /\ function' = function
    /\ \A u \in Threads \ ts : pc'[u] = pc[u]
    /\ \A u \in ts : pc'[u] > 0 /\ pc[u] > 0
    /\ \A x \in Objects \ xs : owner'[x] = owner[x] /\ readers'[x] = readers[x]
    /\ \A b \in Barriers \ bs : arrived'[b] = arrived[b]

(* Nothing a thread other than main does changes who is spawned or what     *)
(* main holds.                                                              *)
LEMMA MainStays ==
    ASSUME MainPlaces, MainLocks, Spawned, NEW ts \in SUBSET Threads, NEW xs, NEW bs,
           Local(ts, xs, bs), "main" \notin ts,
           xs \cap {"mutex", "rwlock", "a", "b", "c", "d"} = {},
           bs \cap {"one", "alone1", "alone2"} = {},
           sleeping' \subseteq {"main"}, woken' \subseteq {"main"} \ sleeping',
           Asleep' <=> Asleep
    PROVE  MainPlaces' /\ MainLocks' /\ Spawned'
<1>1. Main' = Main /\ function' = function
  BY DEF Local, Main, Threads
<1>2. MainPlaces'
  <2>1. /\ arrived'["one"] = arrived["one"] /\ arrived'["alone1"] = arrived["alone1"]
        /\ arrived'["alone2"] = arrived["alone2"]
    BY DEF Local, Barriers
  <2>2. QED
    BY <1>1, <2>1 DEF MainPlaces
<1>3. MainLocks'
  <2>1. \A x \in {"mutex", "rwlock", "a", "b", "c", "d"} :
            owner'[x] = owner[x] /\ readers'[x] = readers[x]
    BY DEF Local, Objects
  <2>2. \A x \in {"mutex", "rwlock", "a", "b", "c", "d"} :
            /\ \A f, places : MainOwns(x, f, places) => MainOwns(x, f, places)'
            /\ \A f, one, two : MainReads(x, f, one, two) => MainReads(x, f, one, two)'
    BY <1>1, <2>1 DEF MainOwns, MainReads
  <2>3. QED
    BY <2>1, <2>2 DEF MainLocks
<1>4. Spawned'
  <2>1. \A t \in Threads : pc'[t] > 0 <=> pc[t] > 0
    BY DEF Local
  <2>2. \A t \in Threads : \A f, place : SpawnedAt(t, f, place) => SpawnedAt(t, f, place)'
    BY <1>1, <2>1 DEF SpawnedAt
  <2>3. QED
    BY <2>2 DEF Spawned, Threads, Notifiers
<1>5. QED
  BY <1>2, <1>3, <1>4

(* The groups of threads that are not main's.                               *)
LEMMA CondvarStays ==
    ASSUME Typed, Condvar, NEW ts, NEW xs, NEW bs, Local(ts, xs, bs),
           "main" \notin ts \/ function # "testconvar",
           ts \cap Notifiers = {}, "cm" \notin xs, UNCHANGED <<value, sleeping, woken>>
    PROVE  Condvar'
<1>1. /\ function = "testconvar" => Main' = Main
      /\ function' = function /\ (Asleep' <=> Asleep)
      /\ owner'["cm"] = owner["cm"] /\ readers'["cm"] = readers["cm"]
      /\ \A n \in Notifiers : pc'[n] = pc[n]
  BY DEF Local, Main, Asleep, Threads, Objects, Notifiers
<1>2. CASE function = "testconvar"
  <2>1. Main' = Main
    BY <1>1, <1>2
  <2>2. /\ Awaits(3, "n1")' /\ Awaits(5, "n2")' /\ Awaits(7, "n3")'
        /\ AwaitsValue(10, "n4")' /\ AwaitsValue(13, "n5")'
    BY <1>1, <1>2, <2>1 DEF Condvar, Notifiers, Awaits, AwaitsValue
  <2>3. QED
    BY <1>1, <1>2, <2>1, <2>2 DEF Condvar
<1>3. CASE function # "testconvar"
  BY <1>1, <1>3 DEF Condvar
<1>4. QED
  BY <1>2, <1>3

LEMMA RelocksStays ==
    ASSUME NEW t \in Threads, NEW x \in Objects, Relocks(t, x),
           NEW ts, NEW xs, NEW bs, Local(ts, xs, bs), t \notin ts, x \notin xs
    PROVE  Relocks(t, x)'
BY DEF Relocks, Local

LEMMA ReadOrWriteStays ==
    ASSUME ReadOrWrite, NEW ts, NEW xs, NEW bs, Local(ts, xs, bs),
           ts \cap {"reader", "writer"} = {}, "t" \notin xs, "meet" \notin bs
    PROVE  ReadOrWrite'
<1>1. /\ pc'["reader"] = pc["reader"] /\ pc'["writer"] = pc["writer"]
      /\ owner'["t"] = owner["t"] /\ readers'["t"] = readers["t"]
      /\ arrived'["meet"] = arrived["meet"]
  BY DEF Local, Threads, Objects, Barriers
<1>2. QED
  BY <1>1 DEF ReadOrWrite

LEMMA CrossesStays ==
    ASSUME NEW u \in Threads, NEW v \in Threads, NEW x \in Objects, NEW y \in Objects,
           NEW meet \in Barriers, Crosses(u, v, x, y, meet),
           NEW ts, NEW xs, NEW bs, Local(ts, xs, bs),
           u \notin ts, v \notin ts, x \notin xs, y \notin xs, meet \notin bs
    PROVE  Crosses(u, v, x, y, meet)'
<1>1. /\ pc'[u] = pc[u] /\ pc'[v] = pc[v] /\ arrived'[meet] = arrived[meet]
      /\ owner'[x] = owner[x] /\ owner'[y] = owner[y]
      /\ readers'[x] = readers[x] /\ readers'[y] = readers[y]
  BY DEF Local
<1>2. QED
  BY <1>1 DEF Crosses

LEMMA TakesStays ==
    ASSUME Takes("pp1", "pp2"), NEW ts, NEW xs, NEW bs, Local(ts, xs, bs),
           ts \cap {"pp1", "pp2"} = {}, xs \cap {"p1", "p2"} = {}, "pp" \notin bs
    PROVE  Takes("pp1", "pp2")'
<1>1. /\ pc'["pp1"] = pc["pp1"] /\ pc'["pp2"] = pc["pp2"] /\ arrived'["pp"] = arrived["pp"]
      /\ owner'["p1"] = owner["p1"] /\ owner'["p2"] = owner["p2"]
      /\ readers'["p1"] = readers["p1"] /\ readers'["p2"] = readers["p2"]
  BY DEF Local, Threads, Objects, Barriers
<1>2. QED
  BY <1>1 DEF Takes

-----------------------------------------------------------------------------
(* A thread that locks twice gets its lock once.                            *)
LEMMA RelockStep ==
    ASSUME Typed, NEW t \in Threads, NEW x \in Objects, Relocks(t, x), Text(t) = RelockText(x),
           t \notin woken, Step(t)
    PROVE  /\ Relocks(t, x)' /\ Local({t}, {x}, {}) /\ Typed'
           /\ UNCHANGED <<value, sleeping, woken>>
<1>1. pc[t] \in 1..3
  BY DEF Step, At, Acquire, Share, Release, Arrive, Set, SpawnThread, Sleep, Notify, Reacquire,
         RelockText
<1>2. Text(t)[1] = <<"lock", x>> /\ Text(t)[2] = <<"lock", x>>
  BY DEF RelockText, Lock
<1>3. pc[t] \in {1, 2}
  BY <1>1 DEF Relocks
<1>4. On(t) = x /\ Acquire(t)
  BY <1>2, <1>3, StepIs
<1>5. Took(t, x) /\ Typed'
  BY <1>4, AcquireDoes
<1>6. pc[t] = 1
  BY <1>3, <1>5 DEF Took, Free, Relocks, Nobody, Threads, Notifiers
<1>7. QED
  BY <1>5, <1>6 DEF Took, Owners, Goes, Still, Local, Relocks, Typed

(* A pair that meets between its two locks: each has one, neither gets the  *)
(* other.                                                                   *)
LEMMA CrossesBack ==
    ASSUME NEW u, NEW v, NEW x, NEW y, NEW meet, Crosses(u, v, x, y, meet)
    PROVE  Crosses(v, u, y, x, meet)
<1>1. {u, v} = {v, u} /\ {t \in {u, v} : pc[t] = 2} = {t \in {v, u} : pc[t] = 2}
  OBVIOUS
<1>2. QED
  BY <1>1 DEF Crosses

LEMMA CrossesBackNext ==
    ASSUME NEW u, NEW v, NEW x, NEW y, NEW meet, Crosses(u, v, x, y, meet)'
    PROVE  Crosses(v, u, y, x, meet)'
<1>1. {u, v} = {v, u} /\ {t \in {u, v} : pc'[t] = 2} = {t \in {v, u} : pc'[t] = 2}
  OBVIOUS
<1>2. QED
  BY <1>1 DEF Crosses

LEMMA Pairs ==
    ASSUME NEW u \in Threads, NEW v \in Threads, u # v
    PROVE  Cardinality({u}) = 1 /\ Cardinality({u, v}) = 2
<1>1. IsFiniteSet({u}) /\ Cardinality({u}) = 1
  BY FS_Singleton, Zenon
<1>2. Cardinality({u} \cup {v}) = Cardinality({u}) + 1
  BY <1>1, FS_AddElement, Zenon
<1>3. {u} \cup {v} = {u, v}
  OBVIOUS
<1>4. QED
  BY <1>1, <1>2, <1>3

LEMMA CrossesStep ==
    ASSUME Typed, NEW u \in Threads, NEW v \in Threads, NEW x \in Objects, NEW y \in Objects,
           NEW meet \in Barriers, u # v, x # y, Size(meet) = 2, Crosses(u, v, x, y, meet),
           Text(u) = CrossingText(x, y, meet), u \notin woken, Step(u)
    PROVE  /\ Crosses(u, v, x, y, meet)'
           /\ Local({u, v}, {x, y}, {meet}) \/ Local({u}, {x}, {meet})
           /\ Typed' /\ UNCHANGED <<value, sleeping, woken>>
<1>1. pc[u] \in 1..3
  BY DEF Step, At, Acquire, Share, Release, Arrive, Set, SpawnThread, Sleep, Notify, Reacquire,
         Crosses
<1>2. /\ Text(u)[1] = <<"lock", x>> /\ Text(u)[2] = <<"barrier", meet>>
      /\ Text(u)[3] = <<"lock", y>>
  BY DEF CrossingText, Lock, Wait
<1>3. u # Nobody /\ v # Nobody
  BY DEF Threads, Notifiers, Nobody
<1>4. CASE pc[u] = 1
  <2>1. On(u) = x /\ Acquire(u)
    BY <1>2, <1>4, StepIs
  <2>2. Took(u, x) /\ Typed'
    BY <2>1, AcquireDoes
  <2>3. Crosses(u, v, x, y, meet)'
    BY <2>2, <1>4, <1>3 DEF Took, Owners, Goes, Crosses, Typed
  <2>4. Local({u}, {x}, {meet})
    BY <2>2, <1>4 DEF Took, Owners, Goes, Still, Local, Typed
  <2>5. QED
    BY <2>2, <2>3, <2>4 DEF Took
<1>5. CASE pc[u] = 2
  <2>1. On(u) = meet /\ Arrive(u)
    BY <1>2, <1>5, StepIs
  <2>2. Arrives(u, meet) /\ Typed'
    BY <2>1, ArriveDoes
  <2>3. u \notin arrived[meet] /\ pc[u] = 2 /\ pc[v] \in 0..2
    BY <2>2, <1>5 DEF Arrives, Crosses
  <2>4. CASE v \in arrived[meet]
    <3>1. arrived[meet] \cup {u} = {u, v} /\ pc[v] = 2
      BY <2>3, <2>4 DEF Crosses
    <3>2. Meets(meet, {}) /\ Goes({u, v})
      BY <3>1, <2>2, Pairs DEF Arrives
    <3>3. Local({u, v}, {x, y}, {meet})
      BY <3>1, <3>2, <2>2, <2>3 DEF Arrives, Still, Goes, Meets, Local, Typed
    <3>4. Crosses(u, v, x, y, meet)'
      BY <3>1, <3>2, <2>2, <2>3 DEF Arrives, Still, Goes, Meets, Crosses, Typed
    <3>5. QED
      BY <3>3, <3>4, <2>2 DEF Arrives
  <2>5. CASE v \notin arrived[meet]
    <3>1. arrived[meet] \cup {u} = {u} /\ Cardinality({u}) = 1
      BY <2>5, FS_Singleton, Zenon DEF Crosses
    <3>2. Meets(meet, {u}) /\ Goes({})
      BY <3>1, <2>2 DEF Arrives
    <3>3. Local({u}, {x}, {meet})
      BY <3>2, <2>2, <2>3 DEF Arrives, Still, Goes, Meets, Local, Typed
    <3>4. Crosses(u, v, x, y, meet)'
      BY <3>2, <2>2, <2>3 DEF Arrives, Still, Goes, Meets, Crosses, Typed
    <3>5. QED
      BY <3>3, <3>4, <2>2 DEF Arrives
  <2>6. QED
    BY <2>4, <2>5
<1>6. CASE pc[u] = 3
  <2>1. On(u) = y /\ Acquire(u)
    BY <1>2, <1>6, StepIs
  <2>2. Took(u, y)
    BY <2>1, AcquireDoes
  <2>3. QED
    BY <2>2, <1>6, <1>3 DEF Took, Free, Crosses
<1>7. QED
  BY <1>1, <1>4, <1>5, <1>6

(* Reader and writer.                                                       *)
LEMMA ReadOrWriteStep ==
    ASSUME Typed, NEW t \in {"reader", "writer"}, ReadOrWrite, Spawned, t \notin woken, Step(t)
    PROVE  /\ ReadOrWrite' /\ Local({t}, {"t"}, {"meet"}) /\ Typed'
           /\ UNCHANGED <<value, sleeping, woken>>
<1>1. pc[t] \in {1, 2} /\ t \in Threads /\ "t" \in Objects /\ "meet" \in Barriers
  <2>1. pc[t] \in 1..2
    BY DEF Step, At, Acquire, Share, Release, Arrive, Set, SpawnThread, Sleep, Notify, Reacquire,
           ReadOrWrite
  <2>2. QED
    BY <2>1 DEF Threads, Objects, Barriers
<1>2. /\ Text("writer")[1] = <<"lock", "t">> /\ Text("reader")[1] = <<"read", "t">>
      /\ Text("writer")[2] = <<"barrier", "meet">> /\ Text("reader")[2] = <<"barrier", "meet">>
  BY ThreadTexts DEF WriterText, ReaderText, Lock, Read, Wait
<1>3. /\ "reader" \in Threads /\ "writer" \in Threads /\ "writer" # Nobody
  BY DEF Threads, Nobody
<1>4. CASE t = "writer" /\ pc[t] = 1
  <2>1. Took(t, "t") /\ Typed'
    BY <1>1, <1>2, <1>4, StepIs, AcquireDoes
  <2>2. QED
    BY <2>1, <1>1, <1>3, <1>4 DEF Took, Free, Owners, Goes, Still, Local, ReadOrWrite, Typed
<1>5. CASE t = "reader" /\ pc[t] = 1
  <2>1. Shared(t, "t") /\ Typed'
    BY <1>1, <1>2, <1>5, StepIs, ShareDoes
  <2>2. QED
    BY <2>1, <1>1, <1>3, <1>5 DEF Shared, Reads, Goes, Still, Local, ReadOrWrite, Typed
<1>6. CASE pc[t] = 2
  <2>1. Arrives(t, "meet") /\ Typed'
    BY <1>1, <1>2, <1>6, StepIs, ArriveDoes
  <2>2. arrived["meet"] \cup {t} = {t}
    BY <1>6 DEF ReadOrWrite
  <2>3. Meets("meet", {t}) /\ Goes({})
    <3>1. Cardinality({t}) = 1
      BY FS_Singleton, Zenon
    <3>2. QED
      BY <2>1, <2>2, <3>1 DEF Arrives, Size
  <2>4. QED
    BY <2>1, <2>3, <1>1, <1>3, <1>6 DEF Arrives, Meets, Goes, Still, Local, ReadOrWrite, Typed
<1>7. QED
  BY <1>1, <1>4, <1>5, <1>6

(* The "potential conflict": the second thread only begins when the first   *)
(* has both its locks and is about to give them back.                       *)
LEMMA TakesStep ==
    ASSUME Typed, NEW t \in {"pp1", "pp2"}, Takes("pp1", "pp2"), t \notin woken, Step(t)
    PROVE  /\ Takes("pp1", "pp2")' /\ Typed'
           /\ \/ Local({t}, {"p1", "p2"}, {"pp"})
              \/ Local({"pp1", "pp2"}, {"p1", "p2"}, {"pp"})
           /\ UNCHANGED <<value, sleeping, woken>>
<1> DEFINE u == "pp1"
           v == "pp2"
<1>1. /\ pc[t] \in 1..5 /\ t \in Threads /\ "p1" \in Objects /\ "p2" \in Objects
      /\ "pp" \in Barriers
  <2>1. pc[t] \in 1..5
    <3>1. Len(Text(t)) = 5
      BY ThreadTexts, TextLengths
    <3>2. QED
      BY <3>1 DEF Step, At, Acquire, Share, Release, Arrive, Set, SpawnThread, Sleep, Notify,
                  Reacquire
  <2>2. QED
    BY <2>1 DEF Threads, Objects, Barriers
<1>2. /\ Text(u)[1] = <<"lock", "p1">> /\ Text(u)[2] = <<"lock", "p2">>
      /\ Text(u)[3] = <<"barrier", "pp">> /\ Text(u)[4] = <<"drop", "p2">>
      /\ Text(u)[5] = <<"drop", "p1">>
      /\ Text(v)[1] = <<"barrier", "pp">> /\ Text(v)[2] = <<"lock", "p2">>
      /\ Text(v)[3] = <<"lock", "p1">> /\ Text(v)[4] = <<"drop", "p1">>
      /\ Text(v)[5] = <<"drop", "p2">>
  BY ThreadTexts DEF PotentialText, PotentialCounterText, Lock, Drop, Wait
<1>3. u \in Threads /\ v \in Threads /\ u # Nobody /\ v # Nobody /\ u # v
  BY DEF Threads, Nobody
<1>4. ASSUME NEW x \in {"p1", "p2"}, Text(t)[pc[t]] = <<"lock", x>>
      PROVE  /\ Takes(u, v)' /\ Local({t}, {"p1", "p2"}, {"pp"}) /\ Typed'
             /\ UNCHANGED <<value, sleeping, woken>>
  <2>1. Took(t, x) /\ Typed'
    BY <1>1, <1>4, StepIs, AcquireDoes
  <2>2. \/ t = u /\ x = "p1" /\ pc[u] = 1
        \/ t = u /\ x = "p2" /\ pc[u] = 2
        \/ t = v /\ x = "p2" /\ pc[v] = 2
        \/ t = v /\ x = "p1" /\ pc[v] = 3
    BY <1>1, <1>2, <1>4
  <2>3. Takes(u, v)'
    BY <2>1, <2>2, <1>1, <1>3 DEF Took, Free, Owners, Goes, Takes, Typed
  <2>4. Local({t}, {"p1", "p2"}, {"pp"})
    BY <2>1, <1>1 DEF Took, Owners, Goes, Still, Local, Typed
  <2>5. QED
    BY <2>1, <2>3, <2>4 DEF Took
<1>5. ASSUME NEW x \in {"p1", "p2"}, Text(t)[pc[t]] = <<"drop", x>>
      PROVE  /\ Takes(u, v)' /\ Local({t}, {"p1", "p2"}, {"pp"}) /\ Typed'
             /\ UNCHANGED <<value, sleeping, woken>>
  <2>1. Released(t, x) /\ Typed'
    BY <1>1, <1>5, StepIs, ReleaseDoes
  <2>2. \/ t = u /\ x = "p2" /\ pc[u] = 4
        \/ t = u /\ x = "p1" /\ pc[u] = 5
        \/ t = v /\ x = "p1" /\ pc[v] = 4
        \/ t = v /\ x = "p2" /\ pc[v] = 5
    BY <1>1, <1>2, <1>5
  <2>3. owner[x] = t
    BY <2>2 DEF Takes
  <2>4. Takes(u, v)'
    BY <2>1, <2>2, <2>3, <1>1, <1>3 DEF Released, Owners, Goes, Takes, Typed
  <2>5. Local({t}, {"p1", "p2"}, {"pp"})
    BY <2>1, <2>3, <1>1 DEF Released, Owners, Goes, Still, Local, Typed
  <2>6. QED
    BY <2>1, <2>4, <2>5 DEF Released
<1>6. ASSUME Text(t)[pc[t]] = <<"barrier", "pp">>
      PROVE  /\ Takes(u, v)' /\ Typed'
             /\ Local({t}, {"p1", "p2"}, {"pp"}) \/ Local({u, v}, {"p1", "p2"}, {"pp"})
             /\ UNCHANGED <<value, sleeping, woken>>
  <2>1. Arrives(t, "pp") /\ Typed'
    BY <1>1, <1>6, StepIs, ArriveDoes
  <2>2. (t = u /\ pc[u] = 3) \/ (t = v /\ pc[v] = 1)
    BY <1>1, <1>2, <1>6
  <2>3. /\ Cardinality({u}) = 1 /\ Cardinality({v}) = 1 /\ Cardinality({u, v}) = 2
        /\ Size("pp") = 2
    BY <1>3, Pairs DEF Size
  <2>4. CASE arrived["pp"] = {}
    <3>1. Meets("pp", {t}) /\ Goes({})
      <4>1. arrived["pp"] \cup {t} = {t} /\ Cardinality({t}) = 1
        BY <2>4, <2>3
      <4>2. QED
        BY <4>1, <2>1, <2>3 DEF Arrives
    <3>2. Takes(u, v)'
      BY <3>1, <2>1, <2>2, <1>3 DEF Arrives, Still, Meets, Goes, Takes, Typed, Barriers
    <3>3. Local({t}, {"p1", "p2"}, {"pp"})
      BY <3>1, <2>1, <1>1 DEF Arrives, Still, Meets, Goes, Local, Typed
    <3>4. QED
      BY <3>2, <3>3, <2>1 DEF Arrives
  <2>5. CASE arrived["pp"] # {}
    <3>1. arrived["pp"] \cup {t} = {u, v} /\ pc[u] = 3 /\ pc[v] = 1
      BY <2>1, <2>2, <2>5 DEF Arrives, Takes
    <3>2. Meets("pp", {}) /\ Goes({u, v})
      BY <3>1, <2>1, <2>3 DEF Arrives
    <3>3. Takes(u, v)'
      BY <3>1, <3>2, <2>1, <1>3 DEF Arrives, Still, Meets, Goes, Takes, Typed, Barriers
    <3>4. Local({u, v}, {"p1", "p2"}, {"pp"})
      BY <3>1, <3>2, <2>1, <1>3 DEF Arrives, Still, Meets, Goes, Local, Typed
    <3>5. QED
      BY <3>3, <3>4, <2>1 DEF Arrives
  <2>6. QED
    BY <2>4, <2>5
<1>7. \/ \E x \in {"p1", "p2"} : Text(t)[pc[t]] = <<"lock", x>> \/ Text(t)[pc[t]] = <<"drop", x>>
      \/ Text(t)[pc[t]] = <<"barrier", "pp">>
  BY <1>1, <1>2
<1>8. QED
  BY <1>4, <1>5, <1>6, <1>7

-----------------------------------------------------------------------------
(* The condition variable.                                                  *)

LEMMA SetDoes ==
    ASSUME Typed, NEW t \in Threads, NEW v \in BOOLEAN, On(t) = v, Set(t)
    PROVE  /\ value' = v /\ Goes({t}) /\ Typed'
           /\ Still /\ UNCHANGED <<owner, readers, arrived, sleeping, woken>>
BY DEF Typed, Set, Goes, Advance, Still, waits

LEMMA NotifyDoes ==
    ASSUME Typed, MainPlaces, NEW t \in Threads, Notify(t)
    PROVE  /\ sleeping' = {} /\ woken' = woken \cup sleeping /\ Goes({t}) /\ Typed'
           /\ Still /\ UNCHANGED <<owner, readers, value, arrived>>
<1>1. sleeping' = {} /\ woken' = woken \cup sleeping
  BY Zenon DEF Notify, MainPlaces
<1>2. QED
  BY <1>1 DEF Typed, Notify, Goes, Advance, Still, locks

(* A notifier touches the mutex while main is asleep or past its waits, and *)
(* its notification comes last.                                             *)
LEMMA NotifierStep ==
    ASSUME Typed, MainPlaces, Condvar, NEW n \in Notifiers, n \notin woken, Step(n)
    PROVE  /\ Condvar' /\ Local({n}, {"cm"}, {}) /\ Typed'
           /\ sleeping' \subseteq {"main"} /\ woken' \subseteq {"main"} \ sleeping'
           /\ Asleep' <=> Asleep
<1>1. /\ pc[n] \in 1..4 /\ n \in Threads /\ "cm" \in Objects /\ n # "main" /\ n # Nobody
      /\ Notifiers \subseteq Threads /\ "main" # Nobody /\ "main" \notin Notifiers
      /\ "main" \in Threads /\ Nobody \notin Notifiers
  <2>1. Len(Text(n)) = 4
    BY ThreadTexts, TextLengths
  <2>2. pc[n] \in 1..4
    BY <2>1 DEF Step, At, Acquire, Share, Release, Arrive, Set, SpawnThread, Sleep, Notify, Reacquire
  <2>3. QED
    BY <2>2 DEF Threads, Objects, Notifiers, Nobody
<1>2. /\ Text(n)[1] = <<"lock", "cm">> /\ Text(n)[2] = SetTo(TRUE)
      /\ Text(n)[3] = <<"drop", "cm">> /\ Text(n)[4] = <<"notify", "cm">>
  <2>1. /\ NotifierText[1] = Lock("cm") /\ NotifierText[2] = SetTo(TRUE)
        /\ NotifierText[3] = Drop("cm") /\ NotifierText[4] = <<"notify", "cm">>
    BY DEF NotifierText
  <2>2. Lock("cm") = <<"lock", "cm">> /\ Drop("cm") = <<"drop", "cm">>
    BY DEF Lock, Drop
  <2>3. QED
    BY <2>1, <2>2, ThreadTexts, Zenon
<1>3. pc[n] \in 2..3 => Asleep \/ ~(function = "testconvar" /\ Main \in 2..14)
  BY <1>1 DEF Condvar
<1>4. SUFFICES
      /\ Local({n}, {"cm"}, {}) /\ Typed'
      /\ sleeping' \subseteq {"main"} /\ woken' \subseteq {"main"} \ sleeping'
      /\ Asleep' <=> Asleep
      /\ owner'["cm"] \in {"main", Nobody} \cup Notifiers /\ readers'["cm"] = 0
      /\ owner'["cm"] = "main" <=> owner["cm"] = "main"
      /\ \A m \in Notifiers : pc'[m] \in 0..5 /\ (owner'["cm"] = m <=> pc'[m] \in 2..3)
      /\ \A m \in Notifiers \ {n} : pc'[m] = pc[m]
      /\ ~Asleep /\ function = "testconvar" /\ Main \in 2..14 /\ pc[n] = 1 => pc'[n] = 1
      /\ "main" \in sleeping' => "main" \in sleeping /\ pc'[n] <= 4
      /\ ~value' => ~value /\ (pc[n] <= 2 => pc'[n] <= 2)
  <2>1. Main' = Main /\ function' = function
    BY <1>1, <1>4 DEF Local, Main
  <2>2. ASSUME function = "testconvar", NEW place \in 2..14, NEW m \in Notifiers
        PROVE  /\ Awaits(place, m) => Awaits(place, m)'
               /\ AwaitsValue(place, m) => AwaitsValue(place, m)'
    <3>1. CASE m = n
      BY <1>4, <2>1, <2>2, <3>1 DEF Awaits, AwaitsValue
    <3>2. CASE m # n
      BY <1>4, <2>1, <2>2, <3>2 DEF Awaits, AwaitsValue
    <3>3. QED
      BY <3>1, <3>2
  <2>3. function = "testconvar" =>
          /\ Awaits(3, "n1")' /\ Awaits(5, "n2")' /\ Awaits(7, "n3")'
          /\ AwaitsValue(10, "n4")' /\ AwaitsValue(13, "n5")'
    <3>1. /\ 3 \in 2..14 /\ 5 \in 2..14 /\ 7 \in 2..14 /\ 10 \in 2..14 /\ 13 \in 2..14
          /\ "n1" \in Notifiers /\ "n2" \in Notifiers /\ "n3" \in Notifiers
          /\ "n4" \in Notifiers /\ "n5" \in Notifiers
      BY DEF Notifiers
    <3>2. QED
      BY <2>2, <3>1 DEF Condvar
  <2>4. Condvar'
    BY <1>4, <2>1, <2>3 DEF Condvar
  <2>5. QED
    BY <1>4, <2>4
<1>5. CASE pc[n] = 1
  <2>1. Took(n, "cm") /\ Typed'
    BY <1>1, <1>2, <1>5, StepIs, AcquireDoes
  <2>2. ~(function = "testconvar" /\ Main \in 2..14 /\ ~Asleep)
    BY <2>1, <1>1 DEF Took, Free, Condvar
  <2>3. Local({n}, {"cm"}, {})
    BY <2>1, <1>1, <1>5 DEF Took, Owners, Goes, Still, Local, Typed
  <2>4. /\ owner'["cm"] = n /\ owner["cm"] = Nobody /\ readers'["cm"] = 0
        /\ \A m \in Notifiers : pc'[m] = IF m = n THEN 2 ELSE pc[m]
    BY <2>1, <1>1, <1>5 DEF Took, Free, Owners, Goes, Condvar
  <2>5. \A m \in Notifiers : pc[m] \in 0..5 /\ pc[m] \notin 2..3
    BY <2>4, <1>1 DEF Condvar
  <2>6. QED
    BY <2>1, <2>2, <2>3, <2>4, <2>5, <1>1 DEF Took, MainPlaces, Asleep
<1>6. CASE pc[n] = 2
  <2>1. /\ value' = TRUE /\ Goes({n}) /\ Typed'
        /\ Still /\ UNCHANGED <<owner, readers, arrived, sleeping, woken>>
    <3>1. On(n) = TRUE /\ Set(n)
      BY <1>1, <1>2, <1>6, SetIs, Zenon
    <3>2. QED
      BY <3>1, <1>1, SetDoes, Zenon
  <2>2. Local({n}, {"cm"}, {})
    BY <2>1, <1>1, <1>6 DEF Goes, Still, Local, Typed
  <2>3. /\ \A m \in Notifiers : pc'[m] = IF m = n THEN 3 ELSE pc[m]
        /\ \A m \in Notifiers : pc[m] \in 0..5 /\ (owner["cm"] = m <=> pc[m] \in 2..3)
    BY <2>1, <1>1, <1>6 DEF Goes, Condvar
  <2>4. owner["cm"] \in {"main", Nobody} \cup Notifiers /\ readers["cm"] = 0
    BY DEF Condvar
  <2>5. QED
    BY <2>1, <2>2, <2>3, <2>4, <1>3, <1>6 DEF MainPlaces, Asleep
<1>7. CASE pc[n] = 3
  <2>1. Released(n, "cm") /\ Typed'
    BY <1>1, <1>2, <1>7, StepIs, ReleaseDoes
  <2>2. owner["cm"] = n /\ Owners("cm", Nobody) /\ UNCHANGED readers
    BY <2>1, <1>7 DEF Released, Condvar
  <2>3. Local({n}, {"cm"}, {})
    BY <2>1, <2>2, <1>1, <1>7 DEF Released, Owners, Goes, Still, Local, Typed
  <2>4. /\ owner'["cm"] = Nobody /\ readers'["cm"] = 0
        /\ \A m \in Notifiers : pc'[m] = IF m = n THEN 4 ELSE pc[m]
    BY <2>1, <2>2, <1>1, <1>7 DEF Released, Owners, Goes, Condvar
  <2>5. \A m \in Notifiers : pc[m] \in 0..5 /\ (m # n => pc[m] \notin 2..3)
    BY <2>2, <1>1 DEF Condvar
  <2>6. QED
    BY <2>1, <2>2, <2>3, <2>4, <2>5, <1>1, <1>3, <1>7 DEF Released, MainPlaces, Asleep
<1>8. CASE pc[n] = 4
  <2>1. /\ sleeping' = {} /\ woken' = woken \cup sleeping /\ Goes({n}) /\ Typed'
        /\ Still /\ UNCHANGED <<owner, readers, value, arrived>>
    BY <1>1, <1>2, <1>8, StepIs, NotifyDoes, Zenon
  <2>2. Local({n}, {"cm"}, {})
    BY <2>1, <1>1, <1>8 DEF Goes, Still, Local, Typed
  <2>3. /\ \A m \in Notifiers : pc'[m] = IF m = n THEN 5 ELSE pc[m]
        /\ \A m \in Notifiers : pc[m] \in 0..5 /\ (owner["cm"] = m <=> pc[m] \in 2..3)
    BY <2>1, <1>1, <1>8 DEF Goes, Condvar
  <2>4. owner["cm"] \in {"main", Nobody} \cup Notifiers /\ readers["cm"] = 0
    BY DEF Condvar
  <2>5. QED
    BY <2>1, <2>2, <2>3, <2>4, <1>3, <1>8 DEF MainPlaces, Asleep
<1>9. QED
  BY <1>1, <1>5, <1>6, <1>7, <1>8

-----------------------------------------------------------------------------
(* A step of a thread other than main.                                      *)

LEMMA ThreadStep ==
    ASSUME IInv, NEW t \in Threads, t # "main", Step(t)
    PROVE  IInv'
<1>1. /\ Typed /\ MainPlaces /\ MainLocks /\ Spawned /\ Condvar /\ Groups
      /\ t \notin woken
  BY Zenon DEF IInv, MainPlaces
<1>2. /\ UNCHANGED <<value, sleeping, woken>> =>
           /\ sleeping' \subseteq {"main"} /\ woken' \subseteq {"main"} \ sleeping'
           /\ Asleep' <=> Asleep
  BY <1>1, Zenon DEF MainPlaces, Asleep
<1>3. /\ "relock" \in Threads /\ "rewrite" \in Threads /\ "r" \in Objects /\ "w" \in Objects
      /\ "mm1" \in Threads /\ "mm2" \in Threads /\ "rr1" \in Threads /\ "rr2" \in Threads
      /\ "mr1" \in Threads /\ "mr2" \in Threads /\ "m1" \in Objects /\ "m2" \in Objects
      /\ "r1" \in Objects /\ "r2" \in Objects /\ "x1" \in Objects /\ "x2" \in Objects
      /\ "mm" \in Barriers /\ "rr" \in Barriers /\ "mr" \in Barriers
  BY DEF Threads, Objects, Barriers
<1>4. /\ Relocks("relock", "r") /\ Relocks("rewrite", "w") /\ ReadOrWrite
      /\ Crosses("mm1", "mm2", "m1", "m2", "mm") /\ Crosses("rr1", "rr2", "r1", "r2", "rr")
      /\ Crosses("mr1", "mr2", "x1", "x2", "mr") /\ Takes("pp1", "pp2")
  BY <1>1 DEF Groups
<1>5. CASE t \in Notifiers
  <2>1. /\ Condvar' /\ Local({t}, {"cm"}, {}) /\ Typed'
        /\ sleeping' \subseteq {"main"} /\ woken' \subseteq {"main"} \ sleeping'
        /\ Asleep' <=> Asleep
    BY <1>1, <1>5, NotifierStep, Zenon
  <2>2. t \notin {"relock", "rewrite", "reader", "writer", "mm1", "mm2", "rr1", "rr2", "mr1",
                  "mr2", "pp1", "pp2"}
    BY <1>5 DEF Notifiers
  <2>3. MainPlaces' /\ MainLocks' /\ Spawned'
    BY <1>1, <2>1, MainStays, Zenon
  <2>4. Groups'
    BY <1>3, <1>4, <2>1, <2>2, RelocksStays, ReadOrWriteStays, CrossesStays, TakesStays, Zenon
       DEF Groups
  <2>5. QED
    BY <2>1, <2>3, <2>4 DEF IInv
<1>6. CASE t \in {"relock", "rewrite"}
  <2>1. PICK x \in {"r", "w"} : (t = "relock" /\ x = "r") \/ (t = "rewrite" /\ x = "w")
    BY <1>6
  <2>2. /\ Relocks(t, x)' /\ Local({t}, {x}, {}) /\ Typed' /\ UNCHANGED <<value, sleeping, woken>>
    BY <1>1, <1>3, <1>4, <2>1, ThreadTexts, RelockStep, Zenon
  <2>3. MainPlaces' /\ MainLocks' /\ Spawned'
    BY <1>1, <1>2, <1>6, <2>2, MainStays
  <2>4. Condvar'
    BY <1>1, <1>6, <2>2, CondvarStays DEF Notifiers
  <2>5. Relocks("relock", "r")' /\ Relocks("rewrite", "w")'
    BY <1>3, <1>4, <2>1, <2>2, RelocksStays
  <2>6. Groups'
    BY <1>3, <1>4, <1>6, <2>2, <2>5, ReadOrWriteStays, CrossesStays, TakesStays, Zenon DEF Groups
  <2>7. QED
    BY <2>2, <2>3, <2>4, <2>6 DEF IInv
<1>7. CASE t \in {"reader", "writer"}
  <2>1. /\ ReadOrWrite' /\ Local({t}, {"t"}, {"meet"}) /\ Typed'
        /\ UNCHANGED <<value, sleeping, woken>>
    BY <1>1, <1>4, <1>7, ReadOrWriteStep
  <2>2. MainPlaces' /\ MainLocks' /\ Spawned'
    BY <1>1, <1>2, <1>7, <2>1, MainStays
  <2>3. Condvar'
    BY <1>1, <1>7, <2>1, CondvarStays DEF Notifiers
  <2>4. Groups'
    BY <1>3, <1>4, <1>7, <2>1, RelocksStays, CrossesStays, TakesStays, Zenon DEF Groups
  <2>5. QED
    BY <2>1, <2>2, <2>3, <2>4 DEF IInv
<1>8. CASE t \in {"pp1", "pp2"}
  <2>1. PICK ts \in {{t}, {"pp1", "pp2"}} : Local(ts, {"p1", "p2"}, {"pp"})
    BY <1>1, <1>4, <1>8, TakesStep
  <2>2. Takes("pp1", "pp2")' /\ Typed' /\ UNCHANGED <<value, sleeping, woken>>
    BY <1>1, <1>4, <1>8, TakesStep
  <2>3. ts \subseteq {"pp1", "pp2"} /\ ts \in SUBSET Threads
    BY <1>8, <2>1 DEF Threads
  <2>4. MainPlaces' /\ MainLocks' /\ Spawned'
    BY <1>1, <1>2, <2>1, <2>2, <2>3, MainStays
  <2>5. Condvar'
    BY <1>1, <2>1, <2>2, <2>3, CondvarStays DEF Notifiers
  <2>6. Groups'
    BY <1>3, <1>4, <2>1, <2>2, <2>3, RelocksStays, CrossesStays, ReadOrWriteStays, Zenon DEF Groups
  <2>7. QED
    BY <2>2, <2>4, <2>5, <2>6 DEF IInv
<1>9. CASE t \in {"mm1", "mm2", "rr1", "rr2", "mr1", "mr2"}
  <2>1. Size("mm") = 2 /\ Size("rr") = 2 /\ Size("mr") = 2
    BY DEF Size
  <2>2. /\ Crosses("mm2", "mm1", "m2", "m1", "mm") /\ Crosses("rr2", "rr1", "r2", "r1", "rr")
        /\ Crosses("mr2", "mr1", "x2", "x1", "mr")
    BY <1>4, CrossesBack
  <2>3. PICK u \in {"mm1", "mm2", "rr1", "rr2", "mr1", "mr2"},
             x \in {"m1", "m2", "r1", "r2", "x1", "x2"},
             y \in {"m1", "m2", "r1", "r2", "x1", "x2"}, meet \in {"mm", "rr", "mr"} :
               \/ t = "mm1" /\ u = "mm2" /\ x = "m1" /\ y = "m2" /\ meet = "mm"
               \/ t = "mm2" /\ u = "mm1" /\ x = "m2" /\ y = "m1" /\ meet = "mm"
               \/ t = "rr1" /\ u = "rr2" /\ x = "r1" /\ y = "r2" /\ meet = "rr"
               \/ t = "rr2" /\ u = "rr1" /\ x = "r2" /\ y = "r1" /\ meet = "rr"
               \/ t = "mr1" /\ u = "mr2" /\ x = "x1" /\ y = "x2" /\ meet = "mr"
               \/ t = "mr2" /\ u = "mr1" /\ x = "x2" /\ y = "x1" /\ meet = "mr"
    BY <1>9
  <2>4. /\ t # u /\ x # y /\ Size(meet) = 2 /\ Text(t) = CrossingText(x, y, meet)
        /\ u \in Threads /\ x \in Objects /\ y \in Objects /\ meet \in Barriers
    BY <1>3, <2>1, <2>3, ThreadTexts
  <2>5. Crosses(t, u, x, y, meet)
    BY <1>4, <2>2, <2>3
  <2>6. /\ Crosses(t, u, x, y, meet)' /\ Typed' /\ UNCHANGED <<value, sleeping, woken>>
        /\ Local({t, u}, {x, y}, {meet}) \/ Local({t}, {x}, {meet})
    BY <1>1, <2>4, <2>5, CrossesStep, Zenon
  <2>7. PICK ts \in {{t, u}, {t}}, xs \in {{x, y}, {x}} : Local(ts, xs, {meet})
    BY <2>6
  <2>8. /\ ts \subseteq {t, u} /\ xs \subseteq {x, y} /\ ts \in SUBSET Threads /\ "main" \notin ts
    BY <2>4, <2>3, <2>7
  <2>9. MainPlaces' /\ MainLocks' /\ Spawned'
    <3>1. /\ xs \cap {"mutex", "rwlock", "a", "b", "c", "d"} = {}
          /\ {meet} \cap {"one", "alone1", "alone2"} = {}
      BY <2>3, <2>8
    <3>2. QED
      BY <1>1, <1>2, <2>6, <2>7, <2>8, <3>1, MainStays
  <2>10. Condvar'
    <3>1. ts \cap Notifiers = {} /\ "cm" \notin xs
      BY <2>3, <2>8 DEF Notifiers
    <3>2. QED
      BY <1>1, <2>6, <2>7, <2>8, <3>1, CondvarStays
  <2>11. Relocks("relock", "r")' /\ Relocks("rewrite", "w")' /\ ReadOrWrite' /\ Takes("pp1", "pp2")'
    <3>1. /\ ts \cap {"relock", "rewrite", "reader", "writer", "pp1", "pp2"} = {}
          /\ xs \cap {"r", "w", "t", "p1", "p2"} = {} /\ {meet} \cap {"meet", "pp"} = {}
      BY <2>3, <2>8
    <3>2. QED
      BY <1>3, <1>4, <2>7, <3>1, RelocksStays, ReadOrWriteStays, TakesStays
  <2>12. Crosses("mm1", "mm2", "m1", "m2", "mm")'
    <3>1. CASE meet = "mm"
      <4>1. Crosses(u, t, y, x, meet)'
        BY <2>6, CrossesBackNext
      <4>2. QED
        BY <2>3, <2>6, <3>1, <4>1
    <3>2. CASE meet # "mm"
      BY <1>3, <1>4, <2>3, <2>7, <2>8, <3>2, CrossesStays, Zenon
    <3>3. QED
      BY <3>1, <3>2
  <2>13. Crosses("rr1", "rr2", "r1", "r2", "rr")'
    <3>1. CASE meet = "rr"
      <4>1. Crosses(u, t, y, x, meet)'
        BY <2>6, CrossesBackNext
      <4>2. QED
        BY <2>3, <2>6, <3>1, <4>1
    <3>2. CASE meet # "rr"
      BY <1>3, <1>4, <2>3, <2>7, <2>8, <3>2, CrossesStays, Zenon
    <3>3. QED
      BY <3>1, <3>2
  <2>14. Crosses("mr1", "mr2", "x1", "x2", "mr")'
    <3>1. CASE meet = "mr"
      <4>1. Crosses(u, t, y, x, meet)'
        BY <2>6, CrossesBackNext
      <4>2. QED
        BY <2>3, <2>6, <3>1, <4>1
    <3>2. CASE meet # "mr"
      BY <1>3, <1>4, <2>3, <2>7, <2>8, <3>2, CrossesStays, Zenon
    <3>3. QED
      BY <3>1, <3>2
  <2>15. QED
    BY <2>6, <2>9, <2>10, <2>11, <2>12, <2>13, <2>14 DEF IInv, Groups
<1>10. QED
  BY <1>5, <1>6, <1>7, <1>8, <1>9 DEF Threads

-----------------------------------------------------------------------------
(* A step of main.                                                          *)

LEMMA GroupsStay ==
    ASSUME Groups, NEW xs, NEW bs, Local({"main"}, xs, bs),
           xs \subseteq {"mutex", "rwlock", "cm", "a", "b", "c", "d"}, bs \subseteq {"one"}
    PROVE  Groups'
<1>1. /\ "relock" \in Threads /\ "rewrite" \in Threads /\ "r" \in Objects /\ "w" \in Objects
      /\ "mm1" \in Threads /\ "mm2" \in Threads /\ "rr1" \in Threads /\ "rr2" \in Threads
      /\ "mr1" \in Threads /\ "mr2" \in Threads /\ "m1" \in Objects /\ "m2" \in Objects
      /\ "r1" \in Objects /\ "r2" \in Objects /\ "x1" \in Objects /\ "x2" \in Objects
      /\ "mm" \in Barriers /\ "rr" \in Barriers /\ "mr" \in Barriers
  BY DEF Threads, Objects, Barriers
<1>2. /\ Relocks("relock", "r")' /\ Relocks("rewrite", "w")'
  BY <1>1, RelocksStays DEF Groups
<1>3. ReadOrWrite' /\ Takes("pp1", "pp2")'
  BY ReadOrWriteStays, TakesStays DEF Groups
<1>4. /\ Crosses("mm1", "mm2", "m1", "m2", "mm")' /\ Crosses("rr1", "rr2", "r1", "r2", "rr")'
      /\ Crosses("mr1", "mr2", "x1", "x2", "mr")'
  BY <1>1, CrossesStays DEF Groups
<1>5. QED
  BY <1>2, <1>3, <1>4 DEF Groups

(* Main goes on, at a place that spawns nobody.                             *)
LEMMA SpawnedStays ==
    ASSUME Typed, MainPlaces, Spawned, NEW xs, NEW bs, Local({"main"}, xs, bs),
           Main' \in {Main, Main + 1},
           function = "testconvar" => Main \notin {2, 4, 6, 9, 12},
           function = "test_multimutex" => Main \notin {25, 26, 27, 28},
           function # "test_conflict_lock"
    PROVE  Spawned'
<1>1. \A t \in Threads : t # "main" => pc'[t] = pc[t]
  BY DEF Local
<1>2. function' = function /\ Main \in Nat
  BY DEF Local, Main, Typed, Threads
<1>3. \A t \in {"n1", "n2", "n3", "n4", "n5", "relock", "writer", "reader", "rewrite", "mm1", "mm2",
              "rr1", "rr2", "mr1", "mr2", "pp1", "pp2"} : pc'[t] = pc[t]
  BY <1>1 DEF Threads, Notifiers
<1>4. QED
  BY <1>2, <1>3 DEF Spawned, SpawnedAt

(* What main's steps on its own locks have in common.                       *)
LEMMA MainMoves ==
    ASSUME Typed, MainPlaces, Goes({"main"}), Main > 0
    PROVE  /\ Main' = Main + 1 /\ pc["main"] > 0 /\ pc'["main"] > 0
           /\ \A u \in Threads \ {"main"} : pc'[u] = pc[u]
           /\ "main" \in Threads /\ "main" # Nobody
BY DEF Goes, Main, Threads, Nobody, Typed

LEMMA MainStep ==
    ASSUME IInv, function = "main", Step("main")
    PROVE  IInv'
<1>1. /\ Typed /\ MainPlaces /\ MainLocks /\ Spawned /\ Condvar /\ Groups
      /\ "main" \notin woken /\ ~Asleep /\ "main" \in Threads /\ "main" # Nobody
      /\ "mutex" \in Objects /\ "rwlock" \in Objects /\ "one" \in Barriers
  BY DEF IInv, MainPlaces, Asleep, Threads, Objects, Barriers, Nobody
<1>2. Main \in 1..13
  <2>1. Len(Text("main")) = 13
    BY MainTexts, TextLengths
  <2>2. pc["main"] \in 1..13
    BY <1>1, <2>1, Zenon
       DEF Step, At, Acquire, Share, Release, Arrive, Set, SpawnThread, Sleep, Notify,
                      Reacquire
  <2>3. QED
    BY <2>2 DEF Main
<1>3. /\ MainText[1] = <<"lock", "mutex">> /\ MainText[2] = <<"drop", "mutex">>
      /\ MainText[3] = <<"try_lock", "mutex">> /\ MainText[4] = <<"drop", "mutex">>
      /\ MainText[5] = <<"read", "rwlock">> /\ MainText[6] = <<"drop", "rwlock">>
      /\ MainText[7] = <<"lock", "rwlock">> /\ MainText[8] = <<"drop", "rwlock">>
      /\ MainText[9] = <<"try_read", "rwlock">> /\ MainText[10] = <<"drop", "rwlock">>
      /\ MainText[11] = <<"try_lock", "rwlock">> /\ MainText[12] = <<"drop", "rwlock">>
      /\ MainText[13] = <<"barrier", "one">>
  BY DEF MainText, Lock, Drop, Read, Wait
<1>4. Text("main") = MainText /\ pc["main"] = Main
  BY MainTexts DEF Main
<1>5. SUFFICES
      /\ Local({"main"}, {"mutex", "rwlock"}, {"one"}) /\ Typed' /\ Main' = Main + 1
      /\ arrived'["one"] = {} /\ MainLocks' /\ UNCHANGED <<value, sleeping, woken>>
  <2>1. Spawned'
    BY <1>1, <1>5, SpawnedStays
  <2>2. Groups'
    BY <1>1, <1>5, GroupsStay
  <2>3. Condvar'
    BY <1>1, <1>5, CondvarStays DEF Notifiers
  <2>4. MainPlaces'
    <3>1. /\ function' = function /\ arrived'["alone1"] = arrived["alone1"]
          /\ arrived'["alone2"] = arrived["alone2"] /\ (Asleep' <=> Asleep)
      BY <1>5 DEF Local, Barriers, Asleep
    <3>2. QED
      BY <1>1, <1>2, <1>5, <3>1 DEF MainPlaces
  <2>5. QED
    BY <1>5, <2>1, <2>2, <2>3, <2>4 DEF IInv
<1>6. ASSUME NEW x \in {"mutex", "rwlock"},
             Text("main")[Main] = <<"lock", x>> \/ Text("main")[Main] = <<"try_lock", x>>
      PROVE  <1>5!1
  <2>1. Took("main", x) /\ Typed'
    BY <1>1, <1>4, <1>6, StepIs, AcquireDoes
  <2>2. /\ Main' = Main + 1 /\ pc["main"] > 0 /\ pc'["main"] > 0
        /\ \A u \in Threads \ {"main"} : pc'[u] = pc[u]
    BY <1>1, <1>2, <2>1, MainMoves DEF Took
  <2>3. (x = "mutex" /\ Main \in {1, 3}) \/ (x = "rwlock" /\ Main \in {7, 11})
    BY <1>2, <1>3, <1>4, <1>6
  <2>4. MainLocks'
    BY <1>1, <2>1, <2>2, <2>3
    DEF Took, Owners, Still, MainLocks, MainOwns, MainReads, Objects
  <2>5. QED
    BY <1>1, <2>1, <2>2, <2>4 DEF Took, Owners, Still, Local, MainPlaces
<1>7. ASSUME Text("main")[Main] = <<"read", "rwlock">> \/ Text("main")[Main] = <<"try_read", "rwlock">>
      PROVE  <1>5!1
  <2>1. Shared("main", "rwlock") /\ Typed'
    BY <1>1, <1>4, <1>7, StepIs, ShareDoes
  <2>2. /\ Main' = Main + 1 /\ pc["main"] > 0 /\ pc'["main"] > 0
        /\ \A u \in Threads \ {"main"} : pc'[u] = pc[u]
    BY <1>1, <1>2, <2>1, MainMoves DEF Shared
  <2>3. Main \in {5, 9}
    BY <1>2, <1>3, <1>4, <1>7
  <2>4. MainLocks'
    BY <1>1, <2>1, <2>2, <2>3
    DEF Shared, Reads, Still, MainLocks, MainOwns, MainReads, Objects
  <2>5. QED
    BY <1>1, <2>1, <2>2, <2>4 DEF Shared, Reads, Still, Local, MainPlaces
<1>8. ASSUME NEW x \in {"mutex", "rwlock"}, Text("main")[Main] = <<"drop", x>>
      PROVE  <1>5!1
  <2>1. Released("main", x) /\ Typed'
    BY <1>1, <1>4, <1>8, StepIs, ReleaseDoes
  <2>2. /\ Main' = Main + 1 /\ pc["main"] > 0 /\ pc'["main"] > 0
        /\ \A u \in Threads \ {"main"} : pc'[u] = pc[u]
    BY <1>1, <1>2, <2>1, MainMoves DEF Released
  <2>3. (x = "mutex" /\ Main \in {2, 4}) \/ (x = "rwlock" /\ Main \in {6, 8, 10, 12})
    BY <1>2, <1>3, <1>4, <1>8
  <2>4. MainLocks'
    BY <1>1, <2>1, <2>2, <2>3
    DEF Released, Owners, Reads, Still, MainLocks, MainOwns, MainReads, Objects
  <2>5. QED
    BY <1>1, <2>1, <2>2, <2>4 DEF Released, Owners, Reads, Still, Local, MainPlaces
<1>9. ASSUME Text("main")[Main] = <<"barrier", "one">>
      PROVE  <1>5!1
  <2>1. Arrives("main", "one") /\ Typed'
    BY <1>1, <1>4, <1>9, StepIs, ArriveDoes
  <2>2. arrived["one"] \cup {"main"} = {"main"} /\ Cardinality({"main"}) = 1 /\ Size("one") = 1
    BY <1>1, FS_Singleton, Zenon DEF MainPlaces, Size
  <2>3. Meets("one", {}) /\ Goes({"main"})
    BY <2>1, <2>2 DEF Arrives
  <2>4. /\ Main' = Main + 1 /\ pc["main"] > 0 /\ pc'["main"] > 0
        /\ \A u \in Threads \ {"main"} : pc'[u] = pc[u]
    BY <1>1, <1>2, <2>3, MainMoves
  <2>5. Main = 13
    BY <1>2, <1>3, <1>4, <1>9
  <2>6. MainLocks'
    BY <1>1, <2>1, <2>4, <2>5 DEF Arrives, Still, MainLocks, MainOwns, MainReads
  <2>7. QED
    BY <1>1, <2>1, <2>3, <2>4, <2>6 DEF Arrives, Meets, Still, Local
<1>10. \/ \E x \in {"mutex", "rwlock"} :
            \/ Text("main")[Main] = <<"lock", x>> \/ Text("main")[Main] = <<"try_lock", x>>
            \/ Text("main")[Main] = <<"drop", x>>
       \/ Text("main")[Main] = <<"read", "rwlock">> \/ Text("main")[Main] = <<"try_read", "rwlock">>
       \/ Text("main")[Main] = <<"barrier", "one">>
  BY <1>2, <1>3, <1>4
<1>11. QED
  BY <1>6, <1>7, <1>8, <1>9, <1>10

(* Main spawns a thread.                                                    *)
Spawns(u) ==
    /\ \A t \in Threads : pc'[t] = IF t = "main" THEN pc[t] + 1 ELSE IF t = u THEN 1 ELSE pc[t]
    /\ Still /\ UNCHANGED <<owner, readers, value, arrived, sleeping, woken>>

LEMMA SpawnDoes ==
    ASSUME Typed, NEW u \in Threads, u # "main", On("main") = u, SpawnThread("main")
    PROVE  Spawns(u) /\ Typed'
<1>1. "main" \in Threads
  BY DEF Threads
<1>2. QED
  BY <1>1 DEF Typed, SpawnThread, Spawns, Still, locks, waits

(* A thread that begins holds nothing and waits for nothing.                *)
LEMMA GroupsSpawn ==
    ASSUME Typed, Groups, NEW u \in Threads, u # "main", pc[u] = 0, Spawns(u)
    PROVE  Groups'
<1>1. /\ \A t \in Threads : t # "main" /\ t # u => pc'[t] = pc[t]
      /\ pc'[u] = 1 /\ UNCHANGED <<owner, readers, arrived>>
  BY DEF Spawns
<1>2. Relocks("relock", "r")' /\ Relocks("rewrite", "w")'
  <2>1. "relock" \in Threads /\ "rewrite" \in Threads
    BY DEF Threads
  <2>2. QED
    BY <1>1, <2>1 DEF Groups, Relocks
<1>3. ReadOrWrite'
  <2>1. "reader" \in Threads /\ "writer" \in Threads
    BY DEF Threads
  <2>2. QED
    BY <1>1, <2>1 DEF Groups, ReadOrWrite
<1>4. ASSUME NEW t \in Threads, NEW v \in Threads, t # "main", v # "main",
             NEW x, NEW y, NEW meet, Crosses(t, v, x, y, meet)
      PROVE  Crosses(t, v, x, y, meet)'
  BY <1>1, <1>4 DEF Crosses
<1>5. /\ Crosses("mm1", "mm2", "m1", "m2", "mm")' /\ Crosses("rr1", "rr2", "r1", "r2", "rr")'
      /\ Crosses("mr1", "mr2", "x1", "x2", "mr")'
  <2>1. /\ "mm1" \in Threads /\ "mm2" \in Threads /\ "rr1" \in Threads /\ "rr2" \in Threads
        /\ "mr1" \in Threads /\ "mr2" \in Threads
    BY DEF Threads
  <2>2. QED
    BY <1>4, <2>1 DEF Groups
<1>6. Takes("pp1", "pp2")'
  <2>1. "pp1" \in Threads /\ "pp2" \in Threads
    BY DEF Threads
  <2>2. QED
    BY <1>1, <2>1 DEF Groups, Takes
<1>7. QED
  BY <1>2, <1>3, <1>5, <1>6 DEF Groups

(* The condition variable is not concerned, in the functions that spawn     *)
(* other threads.                                                           *)
LEMMA CondvarSpawn ==
    ASSUME Typed, Condvar, NEW u \in Threads \ Notifiers, u # "main", Spawns(u),
           function # "testconvar"
    PROVE  Condvar'
<1>1. /\ \A n \in Notifiers : pc'[n] = pc[n]
      /\ function' = function /\ UNCHANGED <<owner, readers>>
  BY DEF Spawns, Threads, Notifiers, Still
<1>2. QED
  BY <1>1 DEF Condvar

LEMMA MultimutexStep ==
    ASSUME IInv, function = "test_multimutex", Step("main")
    PROVE  IInv'
<1>1. /\ Typed /\ MainPlaces /\ MainLocks /\ Spawned /\ Condvar /\ Groups
      /\ "main" \notin woken /\ ~Asleep /\ "main" \in Threads /\ "main" # Nobody
      /\ "a" \in Objects /\ "b" \in Objects /\ "c" \in Objects /\ "d" \in Objects
  BY DEF IInv, MainPlaces, Asleep, Threads, Objects, Nobody
<1>2. Main \in 1..36
  <2>1. Len(Text("main")) = 36
    BY MainTexts, MultimutexPlaces
  <2>2. pc["main"] \in 1..36
    BY <1>1, <2>1, Zenon
       DEF Step, At, Acquire, Share, Release, Arrive, Set, SpawnThread, Sleep, Notify,
                      Reacquire
  <2>3. QED
    BY <2>2 DEF Main
<1>3. Text("main")[Main] = Multimutex(Main) /\ pc["main"] = Main
  BY <1>2, MainTexts, MultimutexPlaces DEF Main
<1> DEFINE Moves ==
      /\ Local({"main"}, {"a", "b", "c", "d"}, {}) /\ Typed' /\ Main' = Main + 1
      /\ MainLocks' /\ Main \notin 25..28 /\ UNCHANGED <<value, sleeping, woken>>
<1>4. ASSUME Moves PROVE IInv'
  <2>1. Spawned'
    BY <1>1, <1>4, SpawnedStays
  <2>2. Groups'
    BY <1>1, <1>4, GroupsStay
  <2>3. Condvar'
    BY <1>1, <1>4, CondvarStays DEF Notifiers
  <2>4. MainPlaces'
    <3>1. /\ function' = function /\ arrived'["alone1"] = arrived["alone1"]
          /\ arrived'["one"] = arrived["one"]
          /\ arrived'["alone2"] = arrived["alone2"] /\ (Asleep' <=> Asleep)
      BY <1>4 DEF Local, Barriers, Asleep
    <3>2. QED
      BY <1>1, <1>2, <1>4, <3>1 DEF MainPlaces
  <2>5. QED
    BY <1>4, <2>1, <2>2, <2>3, <2>4 DEF IInv
<1>5. ASSUME NEW x \in {"a", "b", "c", "d"}, Multimutex(Main) = <<"lock", x>>,
             \/ x = "a" /\ Main \in {1, 15, 29}
             \/ x = "b" /\ Main \in {2, 16, 30}
             \/ x = "c" /\ Main \in {3, 17, 31}
             \/ x = "d" /\ Main \in {9, 20}
      PROVE  Moves
  <2>1. Took("main", x) /\ Typed'
    BY <1>1, <1>3, <1>5, StepIs, AcquireDoes
  <2>2. /\ Main' = Main + 1 /\ pc["main"] > 0 /\ pc'["main"] > 0
        /\ \A u \in Threads \ {"main"} : pc'[u] = pc[u]
    BY <1>1, <1>2, <2>1, MainMoves DEF Took
  <2>3. MainLocks'
    BY <1>1, <1>5, <2>1, <2>2
    DEF Took, Owners, Still, MainLocks, MainOwns, MainReads, Objects
  <2>4. QED
    BY <1>1, <1>5, <2>1, <2>2, <2>3 DEF Took, Owners, Still, Local
<1>6. ASSUME Multimutex(Main) = <<"read", "d">>, Main \in {4, 11, 12, 18, 32}
      PROVE  Moves
  <2>1. Shared("main", "d") /\ Typed'
    BY <1>1, <1>3, <1>6, StepIs, ShareDoes
  <2>2. /\ Main' = Main + 1 /\ pc["main"] > 0 /\ pc'["main"] > 0
        /\ \A u \in Threads \ {"main"} : pc'[u] = pc[u]
    BY <1>1, <1>2, <2>1, MainMoves DEF Shared
  <2>3. MainLocks'
    BY <1>1, <1>6, <2>1, <2>2
    DEF Shared, Reads, Still, MainLocks, MainOwns, MainReads, Objects
  <2>4. QED
    BY <1>1, <1>6, <2>1, <2>2, <2>3 DEF Shared, Reads, Still, Local
<1>7. ASSUME NEW x \in {"a", "b", "c", "d"}, Multimutex(Main) = <<"drop", x>>,
             \/ x = "a" /\ Main \in {8, 24, 34}
             \/ x = "b" /\ Main \in {7, 23, 33}
             \/ x = "c" /\ Main \in {6, 22, 36}
             \/ x = "d" /\ Main \in {5, 10, 13, 14, 19, 21, 35}
      PROVE  Moves
  <2>1. Released("main", x) /\ Typed'
    BY <1>1, <1>3, <1>7, StepIs, ReleaseDoes
  <2>2. /\ Main' = Main + 1 /\ pc["main"] > 0 /\ pc'["main"] > 0
        /\ \A u \in Threads \ {"main"} : pc'[u] = pc[u]
    BY <1>1, <1>2, <2>1, MainMoves DEF Released
  <2>3. MainLocks'
    BY <1>1, <1>7, <2>1, <2>2
    DEF Released, Owners, Reads, Still, MainLocks, MainOwns, MainReads, Objects
  <2>4. QED
    BY <1>1, <1>7, <2>1, <2>2, <2>3 DEF Released, Owners, Reads, Still, Local
<1>8. ASSUME NEW u \in {"relock", "writer", "reader", "rewrite"}, Multimutex(Main) = <<"spawn", u>>,
             \/ u = "relock" /\ Main = 25
             \/ u = "writer" /\ Main = 26
             \/ u = "reader" /\ Main = 27
             \/ u = "rewrite" /\ Main = 28
      PROVE  IInv'
  <2>1. /\ u \in Threads \ Notifiers /\ u # "main"
    BY <1>8 DEF Threads, Notifiers
  <2>2. Spawns(u) /\ Typed'
    BY <1>1, <1>3, <1>8, <2>1, StepIs, SpawnDoes
  <2>3. ~ pc[u] > 0 /\ pc[u] \in Nat
    BY <1>1, <1>8, <2>1 DEF Spawned, SpawnedAt, Typed
  <2>4. Groups'
    BY <1>1, <2>1, <2>2, <2>3, GroupsSpawn
  <2>5. Condvar'
    BY <1>1, <2>1, <2>2, CondvarSpawn
  <2>6. /\ Main' = Main + 1 /\ function' = function /\ (Asleep' <=> Asleep)
        /\ UNCHANGED <<owner, readers, arrived, sleeping, woken>>
    BY <1>1, <2>2 DEF Spawns, Still, Main, Asleep
  <2>7. MainPlaces' /\ MainLocks'
    BY <1>1, <1>8, <2>6 DEF MainPlaces, MainLocks, MainOwns, MainReads
  <2>8. Spawned'
    <3>1. \A t \in {"n1", "n2", "n3", "n4", "n5", "relock", "writer", "reader", "rewrite", "mm1",
                    "mm2", "rr1", "rr2", "mr1", "mr2", "pp1", "pp2"} :
              pc'[t] = IF t = u THEN 1 ELSE pc[t]
      BY <2>2 DEF Spawns, Threads, Notifiers
    <3>2. QED
      BY <1>1, <1>8, <2>6, <3>1 DEF Spawned, SpawnedAt
  <2>9. QED
    BY <2>2, <2>4, <2>5, <2>7, <2>8 DEF IInv
<1>9. QED
  <2>1. CASE Main \in {1, 2, 3, 9, 15, 16, 17, 20, 29, 30, 31}
    <3>1. PICK x \in {"a", "b", "c", "d"} :
             /\ Multimutex(Main) = <<"lock", x>>
             /\ \/ x = "a" /\ Main \in {1, 15, 29}
                \/ x = "b" /\ Main \in {2, 16, 30}
                \/ x = "c" /\ Main \in {3, 17, 31}
                \/ x = "d" /\ Main \in {9, 20}
      BY <2>1 DEF Multimutex, Lock
    <3>2. QED
      BY <1>4, <1>5, <3>1
  <2>2. CASE Main \in {4, 11, 12, 18, 32}
    <3>1. Multimutex(Main) = <<"read", "d">>
      BY <2>2 DEF Multimutex, Read
    <3>2. QED
      BY <1>4, <1>6, <2>2, <3>1
  <2>3. CASE Main \in {5, 6, 7, 8, 10, 13, 14, 19, 21, 22, 23, 24, 33, 34, 35, 36}
    <3>1. PICK x \in {"a", "b", "c", "d"} :
             /\ Multimutex(Main) = <<"drop", x>>
             /\ \/ x = "a" /\ Main \in {8, 24, 34}
                \/ x = "b" /\ Main \in {7, 23, 33}
                \/ x = "c" /\ Main \in {6, 22, 36}
                \/ x = "d" /\ Main \in {5, 10, 13, 14, 19, 21, 35}
      BY <2>3 DEF Multimutex, Drop
    <3>2. QED
      BY <1>4, <1>7, <3>1
  <2>4. CASE Main \in 25..28
    <3>1. PICK u \in {"relock", "writer", "reader", "rewrite"} :
             /\ Multimutex(Main) = <<"spawn", u>>
             /\ \/ u = "relock" /\ Main = 25
                \/ u = "writer" /\ Main = 26
                \/ u = "reader" /\ Main = 27
                \/ u = "rewrite" /\ Main = 28
      BY <2>4 DEF Multimutex, Spawn
    <3>2. QED
      BY <1>8, <3>1
  <2>5. QED
    BY <1>2, <2>1, <2>2, <2>3, <2>4

LEMMA ConflictStep ==
    ASSUME IInv, function = "test_conflict_lock", Step("main")
    PROVE  IInv'
<1>1. /\ Typed /\ MainPlaces /\ MainLocks /\ Spawned /\ Condvar /\ Groups
      /\ "main" \notin woken /\ ~Asleep /\ "main" \in Threads
  BY DEF IInv, MainPlaces, Asleep, Threads
<1>2. pc["main"] \in 1..8 /\ Main \in 1..8 /\ Main = pc["main"]
  <2>1. Len(Text("main")) = 8
    BY MainTexts, TextLengths
  <2>2. pc["main"] \in 1..8
    BY <1>1, <2>1 DEF Step, At, Acquire, Share, Release, Arrive, Set, SpawnThread, Sleep, Notify,
                      Reacquire
  <2>3. QED
    BY <2>2 DEF Main
<1>3. PICK u \in {"mm1", "mm2", "rr1", "rr2", "mr1", "mr2", "pp1", "pp2"} :
        /\ ConflictText[pc["main"]] = <<"spawn", u>>
        /\ Main = CASE u = "mm1" -> 1 [] u = "mm2" -> 2 [] u = "rr1" -> 3 [] u = "rr2" -> 4
                    [] u = "mr1" -> 5 [] u = "mr2" -> 6 [] u = "pp1" -> 7 [] u = "pp2" -> 8
  BY <1>2 DEF ConflictText, Spawn
<1>4. u \in Threads \ Notifiers /\ u # "main"
  BY DEF Threads, Notifiers
<1>5. Spawns(u) /\ Typed'
  BY <1>1, <1>3, <1>4, MainTexts, StepIs, SpawnDoes
<1>6. ~ pc[u] > 0 /\ pc[u] \in Nat
  BY <1>1, <1>3, <1>4 DEF Spawned, SpawnedAt, Typed
<1>7. Groups' /\ Condvar'
  BY <1>1, <1>4, <1>5, <1>6, GroupsSpawn, CondvarSpawn
<1>8. /\ Main' = Main + 1 /\ function' = function /\ (Asleep' <=> Asleep)
      /\ UNCHANGED <<owner, readers, arrived, sleeping, woken>>
  BY <1>1, <1>5 DEF Spawns, Still, Main, Asleep
<1>9. MainPlaces' /\ MainLocks'
  BY <1>1, <1>2, <1>8 DEF MainPlaces, MainLocks, MainOwns, MainReads
<1>10. Spawned'
  <2>1. \A t \in {"n1", "n2", "n3", "n4", "n5", "relock", "writer", "reader", "rewrite", "mm1",
                  "mm2", "rr1", "rr2", "mr1", "mr2", "pp1", "pp2"} :
            pc'[t] = IF t = u THEN 1 ELSE pc[t]
    BY <1>5 DEF Spawns, Threads, Notifiers
  <2>2. QED
    BY <1>1, <1>2, <1>3, <1>8, <2>1 DEF Spawned, SpawnedAt
<1>11. QED
  BY <1>5, <1>7, <1>9, <1>10 DEF IInv

(* Testconvar: main and its notifiers.                                      *)
LEMMA SleepDoes ==
    ASSUME Typed, MainPlaces, "main" \notin sleeping \cup woken, owner["cm"] = "main",
           On("main") = "cm", Sleep("main")
    PROVE  /\ UNCHANGED <<readers, value, arrived, woken>> /\ Still /\ Typed'
           /\ \/ /\ value /\ Text("main")[pc["main"]][1] = "wait_while"
                 /\ Goes({"main"}) /\ UNCHANGED <<owner, sleeping>>
              \/ /\ ~value \/ Text("main")[pc["main"]][1] # "wait_while"
                 /\ Goes({}) /\ Owners("cm", Nobody) /\ sleeping' = {"main"}
<1>1. "main" \in Threads /\ "cm" \in Objects
  BY DEF Threads, Objects
<1>2. At("main", {"wait_while"}) <=> Text("main")[pc["main"]][1] = "wait_while"
  BY DEF Sleep, At
<1>3. CASE At("main", {"wait_while"}) /\ value
  BY <1>1, <1>2, <1>3 DEF Typed, Sleep, Goes, Advance, Still
<1>4. CASE ~(At("main", {"wait_while"}) /\ value)
  BY <1>1, <1>2, <1>4 DEF Typed, Sleep, Goes, Owners, Still, MainPlaces
<1>5. QED
  BY <1>3, <1>4

LEMMA ReacquireDoes ==
    ASSUME Typed, MainPlaces, On("main") = "cm", Reacquire("main")
    PROVE  /\ "main" \in woken /\ Free("cm") /\ Owners("cm", "main") /\ Typed'
           /\ sleeping = {} /\ sleeping' = {} /\ woken' = {}
           /\ UNCHANGED <<readers, value, arrived>> /\ Still
           /\ IF Text("main")[pc["main"]][1] = "wait_while" /\ ~value THEN Goes({}) ELSE Goes({"main"})
<1>1. "main" \in Threads /\ "cm" \in Objects
  BY DEF Threads, Objects
<1>2. "main" \in woken /\ sleeping = {} /\ woken = {"main"}
  BY Zenon DEF Reacquire, MainPlaces
<1>3. QED
  BY <1>1, <1>2 DEF Typed, Reacquire, Goes, Owners, Advance, Still

(* The words of testconvar.                                                 *)
LEMMA TestconvarWords ==
    /\ TestconvarText[1] = <<"lock", "cm">> /\ TestconvarText[14] = <<"drop", "cm">>
    /\ TestconvarText[2] = <<"spawn", "n1">> /\ TestconvarText[4] = <<"spawn", "n2">>
    /\ TestconvarText[6] = <<"spawn", "n3">> /\ TestconvarText[9] = <<"spawn", "n4">>
    /\ TestconvarText[12] = <<"spawn", "n5">>
    /\ TestconvarText[3] = <<"wait", "cm">> /\ TestconvarText[5] = <<"wait", "cm">>
    /\ TestconvarText[7] = <<"wait", "cm">>
    /\ TestconvarText[10] = <<"wait_while", "cm">> /\ TestconvarText[13] = <<"wait_while", "cm">>
    /\ TestconvarText[8] = SetTo(FALSE) /\ TestconvarText[11] = SetTo(FALSE)
<1>1. /\ TestconvarText[1] = Lock("cm") /\ TestconvarText[14] = Drop("cm")
      /\ TestconvarText[2] = Spawn("n1") /\ TestconvarText[4] = Spawn("n2")
      /\ TestconvarText[6] = Spawn("n3") /\ TestconvarText[9] = Spawn("n4")
      /\ TestconvarText[12] = Spawn("n5")
      /\ TestconvarText[3] = CondvarWait("wait") /\ TestconvarText[5] = CondvarWait("wait")
      /\ TestconvarText[7] = CondvarWait("wait")
      /\ TestconvarText[10] = CondvarWait("wait_while")
      /\ TestconvarText[13] = CondvarWait("wait_while")
      /\ TestconvarText[8] = SetTo(FALSE) /\ TestconvarText[11] = SetTo(FALSE)
  BY DEF TestconvarText
<1>2. QED
  BY <1>1 DEF Lock, Drop, Spawn, CondvarWait

LEMMA TestconvarStep ==
    ASSUME IInv, function = "testconvar", Step("main")
    PROVE  IInv'
<1>1. /\ Typed /\ MainPlaces /\ MainLocks /\ Spawned /\ Condvar /\ Groups
      /\ "main" \in Threads /\ "main" # Nobody /\ "cm" \in Objects
      /\ "main" \notin Notifiers /\ Nobody \notin Notifiers /\ Notifiers \subseteq Threads
      /\ \A n \in Notifiers : n # "main"
  BY DEF IInv, Threads, Objects, Nobody, Notifiers
<1>2. pc["main"] \in 1..14 /\ Main \in 1..14 /\ Main = pc["main"]
  <2>1. Len(Text("main")) = 14
    BY MainTexts, TextLengths
  <2>2. CASE "main" \in woken
    BY <1>1, <2>2 DEF MainPlaces, Asleep, Main
  <2>3. CASE "main" \notin woken
    <3>1. pc["main"] \in 1..14
      BY <2>1, <2>3, Zenon
         DEF Step, At, Acquire, Share, Release, Arrive, Set, SpawnThread, Sleep, Notify,
                        Reacquire
    <3>2. QED
      BY <3>1 DEF Main
  <2>4. QED
    BY <2>2, <2>3
<1>3. Text("main") = TestconvarText
  BY MainTexts
<1> DEFINE Moves ==
      /\ Local({"main"}, {"cm"}, {}) /\ Typed' /\ Main' \in {Main, Main + 1}
      /\ Main \notin {2, 4, 6, 9, 12} /\ readers'["cm"] = 0
      /\ sleeping' \subseteq {"main"} /\ woken' \subseteq {"main"} \ sleeping'
      /\ Asleep' => Main' \in {3, 5, 7, 10, 13}
      /\ owner'["cm"] \in {"main", Nobody}
      /\ owner'["cm"] = "main" <=> Main' \in 2..14 /\ ~Asleep'
      /\ \A n \in Notifiers : pc[n] \notin 2..3
      /\ Awaits(3, "n1")' /\ Awaits(5, "n2")' /\ Awaits(7, "n3")'
      /\ AwaitsValue(10, "n4")' /\ AwaitsValue(13, "n5")'
<1>4. ASSUME Moves PROVE IInv'
  <2>1. Spawned'
    BY <1>1, <1>4, SpawnedStays
  <2>2. Groups'
    BY <1>1, <1>4, GroupsStay
  <2>3. function' = function /\ \A n \in Notifiers : pc'[n] = pc[n]
    BY <1>1, <1>4 DEF Local
  <2>4. Condvar'
    BY <1>1, <1>4, <2>3 DEF Condvar
  <2>5. MainPlaces'
    <3>1. /\ arrived'["alone1"] = arrived["alone1"] /\ arrived'["one"] = arrived["one"]
          /\ arrived'["alone2"] = arrived["alone2"]
      BY <1>4 DEF Local, Barriers
    <3>2. QED
      BY <1>1, <1>2, <1>4, <2>3, <3>1 DEF MainPlaces
  <2>6. MainLocks'
    <3>1. \A x \in {"mutex", "rwlock", "a", "b", "c", "d"} :
              owner'[x] = owner[x] /\ readers'[x] = readers[x]
      BY <1>4 DEF Local, Objects
    <3>2. QED
      BY <1>1, <2>3, <3>1 DEF MainLocks, MainOwns, MainReads
  <2>7. QED
    BY <1>4, <2>1, <2>2, <2>4, <2>5, <2>6 DEF IInv
<1>5. ASSUME Asleep PROVE Moves
  <2>1. On("main") = "cm" /\ Main \in {3, 5, 7, 10, 13}
    BY <1>1, <1>2, <1>3, <1>5, TestconvarWords DEF MainPlaces, On
  <2>2. Reacquire("main")
    BY <1>5 DEF Asleep, Step, At, Acquire, Share, Release, Arrive, Set, SpawnThread, Sleep, Notify
  <2>3. /\ "main" \in woken /\ Free("cm") /\ Owners("cm", "main") /\ Typed'
        /\ sleeping = {} /\ sleeping' = {} /\ woken' = {}
        /\ UNCHANGED <<readers, value, arrived>> /\ Still
        /\ IF Text("main")[pc["main"]][1] = "wait_while" /\ ~value THEN Goes({}) ELSE Goes({"main"})
    BY <1>1, <2>1, <2>2, ReacquireDoes
  <2>4. \A n \in Notifiers : pc[n] \notin 2..3
    BY <1>1, <2>3 DEF Free, Condvar
  <2>5. ~Asleep' /\ owner'["cm"] = "main" /\ readers'["cm"] = 0
    BY <1>1, <2>3 DEF Asleep, Owners, Condvar
  <2>6. CASE Goes({"main"})
    <3>1. Main' = Main + 1 /\ \A u \in Threads \ {"main"} : pc'[u] = pc[u]
      BY <1>1, <1>2, <2>6, MainMoves
    <3>2. Local({"main"}, {"cm"}, {})
      BY <1>2, <2>3, <3>1 DEF Local, Owners, Still, Main
    <3>3. QED
      BY <2>1, <2>3, <2>4, <2>5, <3>1, <3>2 DEF Awaits, AwaitsValue
  <2>7. CASE ~Goes({"main"})
    <3>1. Goes({}) /\ Text("main")[pc["main"]][1] = "wait_while" /\ ~value
      BY <2>3, <2>7
    <3>2. \A u \in Threads : pc'[u] = pc[u]
      BY <3>1 DEF Goes
    <3>3. Main' = Main
      BY <1>1, <3>2 DEF Main
    <3>4. Local({"main"}, {"cm"}, {})
      BY <1>2, <2>3, <3>2, <3>3 DEF Local, Owners, Still, Main
    <3>5. Main \in {10, 13}
      BY <1>2, <1>3, <2>1, <3>1, TestconvarWords
    <3>6. AwaitsValue(10, "n4")' /\ AwaitsValue(13, "n5")'
      <4>1. "n4" \in Threads /\ "n5" \in Threads /\ value' = value
        BY <2>3 DEF Threads, Notifiers
      <4>2. QED
        BY <1>1, <2>3, <3>2, <3>3, <4>1 DEF Condvar, AwaitsValue
    <3>7. QED
      BY <2>1, <2>3, <2>4, <2>5, <3>3, <3>4, <3>5, <3>6 DEF Awaits
  <2>8. QED
    BY <2>6, <2>7
<1>6. ASSUME ~Asleep, Main = 1 PROVE Moves
  <2>1. Took("main", "cm") /\ Typed'
    <3>1. Text("main")[pc["main"]] = <<"lock", "cm">> /\ "main" \notin woken
      BY <1>2, <1>3, <1>6, TestconvarWords DEF Asleep
    <3>2. On("main") = "cm" /\ Acquire("main")
      BY <1>1, <3>1, StepIs
    <3>3. QED
      BY <1>1, <3>2, AcquireDoes
  <2>2. /\ Main' = Main + 1 /\ pc["main"] > 0 /\ pc'["main"] > 0
        /\ \A u \in Threads \ {"main"} : pc'[u] = pc[u]
    BY <1>1, <1>6, <2>1, MainMoves DEF Took
  <2>3. Local({"main"}, {"cm"}, {})
    BY <2>1, <2>2 DEF Took, Owners, Still, Local
  <2>4. /\ owner'["cm"] = "main" /\ readers'["cm"] = 0 /\ ~Asleep'
        /\ \A n \in Notifiers : pc[n] \notin 2..3
    BY <1>1, <1>6, <2>1 DEF Took, Owners, Free, Condvar, Asleep
  <2>5. QED
    BY <1>1, <1>6, <2>1, <2>2, <2>3, <2>4 DEF Took, MainPlaces, Awaits, AwaitsValue
<1>7. ASSUME ~Asleep, Main \in 2..14
      PROVE  /\ owner["cm"] = "main" /\ readers["cm"] = 0
             /\ \A n \in Notifiers : pc[n] \notin 2..3
  BY <1>1, <1>7 DEF Condvar
<1>8. ASSUME ~Asleep, Main \in {8, 11} PROVE Moves
  <2>1. Text("main")[pc["main"]] = SetTo(FALSE)
    BY <1>2, <1>3, <1>8, TestconvarWords, Zenon
  <2>2. On("main") = FALSE /\ Set("main")
    BY <1>1, <1>8, <2>1, SetIs, Zenon DEF Asleep
  <2>3. /\ value' = FALSE /\ Goes({"main"}) /\ Typed'
        /\ Still /\ UNCHANGED <<owner, readers, arrived, sleeping, woken>>
    BY <1>1, <2>2, SetDoes, Zenon
  <2>4. /\ Main' = Main + 1 /\ pc["main"] > 0 /\ pc'["main"] > 0
        /\ \A u \in Threads \ {"main"} : pc'[u] = pc[u]
    BY <1>1, <1>8, <2>3, MainMoves
  <2>5. Local({"main"}, {"cm"}, {}) /\ ~Asleep'
    BY <1>8, <2>3, <2>4 DEF Still, Local, Asleep
  <2>6. QED
    BY <1>1, <1>7, <1>8, <2>3, <2>4, <2>5 DEF MainPlaces, Awaits, AwaitsValue
<1>9. ASSUME ~Asleep, Main = 14 PROVE Moves
  <2>1. Released("main", "cm") /\ Typed'
    <3>1. Text("main")[pc["main"]] = <<"drop", "cm">> /\ "main" \notin woken
      BY <1>2, <1>3, <1>9, TestconvarWords DEF Asleep
    <3>2. On("main") = "cm" /\ Release("main")
      BY <1>1, <3>1, StepIs
    <3>3. QED
      BY <1>1, <3>2, ReleaseDoes
  <2>2. /\ Main' = Main + 1 /\ pc["main"] > 0 /\ pc'["main"] > 0
        /\ \A u \in Threads \ {"main"} : pc'[u] = pc[u]
    BY <1>1, <1>9, <2>1, MainMoves DEF Released
  <2>3. Owners("cm", Nobody) /\ UNCHANGED readers
    BY <1>7, <1>9, <2>1 DEF Released
  <2>4. Local({"main"}, {"cm"}, {}) /\ ~Asleep'
    BY <1>9, <2>1, <2>2, <2>3 DEF Released, Owners, Still, Local, Asleep
  <2>5. owner'["cm"] = Nobody /\ readers'["cm"] = 0
    BY <1>1, <1>7, <1>9, <2>3 DEF Owners
  <2>6. QED
    BY <1>1, <1>7, <1>9, <2>1, <2>2, <2>4, <2>5 DEF Released, MainPlaces, Awaits, AwaitsValue
<1>10. ASSUME ~Asleep, Main \in {3, 5, 7, 10, 13} PROVE Moves
  <2>1. /\ On("main") = "cm" /\ Sleep("main")
        /\ Text("main")[pc["main"]][1] = "wait_while" <=> Main \in {10, 13}
    <3>1. PICK kind \in {"wait", "wait_while"} :
            /\ Text("main")[pc["main"]] = <<kind, "cm">>
            /\ kind = "wait_while" <=> Main \in {10, 13}
      BY <1>2, <1>3, <1>10, TestconvarWords
    <3>2. "main" \notin woken
      BY <1>10 DEF Asleep
    <3>3. QED
      BY <1>1, <3>1, <3>2, StepIs
  <2>2. /\ UNCHANGED <<readers, value, arrived, woken>> /\ Still /\ Typed'
        /\ \/ /\ value /\ Main \in {10, 13}
              /\ Goes({"main"}) /\ UNCHANGED <<owner, sleeping>>
           \/ /\ ~value \/ Main \notin {10, 13}
              /\ Goes({}) /\ Owners("cm", Nobody) /\ sleeping' = {"main"}
    <3>1. "main" \notin sleeping \cup woken /\ owner["cm"] = "main"
      BY <1>7, <1>10 DEF Asleep
    <3>2. QED
      BY <1>1, <2>1, <3>1, SleepDoes
  <2>3. CASE value /\ Main \in {10, 13} /\ Goes({"main"}) /\ UNCHANGED <<owner, sleeping>>
    <3>1. /\ Main' = Main + 1 /\ pc["main"] > 0 /\ pc'["main"] > 0
          /\ \A u \in Threads \ {"main"} : pc'[u] = pc[u]
      BY <1>1, <1>10, <2>3, MainMoves
    <3>2. Local({"main"}, {"cm"}, {}) /\ ~Asleep'
      BY <1>10, <2>2, <2>3, <3>1 DEF Still, Local, Asleep
    <3>3. QED
      BY <1>1, <1>7, <1>10, <2>2, <2>3, <3>1, <3>2 DEF MainPlaces, Awaits, AwaitsValue
  <2>4. CASE /\ ~value \/ Main \notin {10, 13}
             /\ Goes({}) /\ Owners("cm", Nobody) /\ sleeping' = {"main"}
    <3>1. Main' = Main /\ \A u \in Threads : pc'[u] = pc[u]
      BY <1>1, <2>4 DEF Goes, Main
    <3>2. Local({"main"}, {"cm"}, {}) /\ Asleep'
      BY <1>2, <2>2, <2>4, <3>1 DEF Owners, Still, Local, Asleep, Main
    <3>3. /\ owner'["cm"] = Nobody /\ readers'["cm"] = 0 /\ value' = value
          /\ woken' = {} /\ sleeping' = {"main"}
      BY <1>1, <1>7, <1>10, <2>2, <2>4 DEF Owners, MainPlaces, Asleep
    <3>4. /\ Awaits(3, "n1")' /\ Awaits(5, "n2")' /\ Awaits(7, "n3")'
          /\ AwaitsValue(10, "n4")' /\ AwaitsValue(13, "n5")'
      <4>1. /\ "n1" \in Threads /\ "n2" \in Threads /\ "n3" \in Threads /\ "n4" \in Threads
            /\ "n5" \in Threads
        BY DEF Threads, Notifiers
      <4>2. /\ Awaits(3, "n1") /\ Awaits(5, "n2") /\ Awaits(7, "n3")
            /\ AwaitsValue(10, "n4") /\ AwaitsValue(13, "n5")
            /\ pc["n4"] \in 0..5 /\ pc["n5"] \in 0..5
        BY <1>1 DEF Condvar, Notifiers
      <4>3. QED
        BY <1>10, <2>4, <3>1, <3>2, <3>3, <4>1, <4>2 DEF Awaits, AwaitsValue
    <3>5. QED
      BY <1>1, <1>7, <1>10, <2>2, <3>1, <3>2, <3>3, <3>4
  <2>5. QED
    BY <2>2, <2>3, <2>4
<1>11. ASSUME ~Asleep, Main \in {2, 4, 6, 9, 12} PROVE IInv'
  <2>1. PICK u \in Notifiers :
          /\ Text("main")[pc["main"]] = <<"spawn", u>>
          /\ Main = CASE u = "n1" -> 2 [] u = "n2" -> 4 [] u = "n3" -> 6 [] u = "n4" -> 9
                      [] u = "n5" -> 12
    BY <1>2, <1>3, <1>11, TestconvarWords DEF Notifiers
  <2>2. Spawns(u) /\ Typed'
    BY <1>1, <1>11, <2>1, StepIs, SpawnDoes DEF Asleep
  <2>3. ~ pc[u] > 0 /\ pc[u] = 0
    BY <1>1, <2>1 DEF Spawned, SpawnedAt, Typed, Notifiers
  <2>4. Groups'
    BY <1>1, <2>2, <2>3, GroupsSpawn
  <2>5. /\ Main' = Main + 1 /\ function' = function /\ (Asleep' <=> Asleep)
        /\ UNCHANGED <<owner, readers, arrived, sleeping, woken, value>>
    BY <1>1, <2>2 DEF Spawns, Still, Main, Asleep
  <2>6. MainPlaces' /\ MainLocks'
    BY <1>1, <1>11, <2>5 DEF MainPlaces, MainLocks, MainOwns, MainReads
  <2>7. Spawned'
    <3>1. \A t \in {"n1", "n2", "n3", "n4", "n5", "relock", "writer", "reader", "rewrite", "mm1",
                    "mm2", "rr1", "rr2", "mr1", "mr2", "pp1", "pp2"} :
              pc'[t] = IF t = u THEN 1 ELSE pc[t]
      BY <2>2 DEF Spawns, Threads, Notifiers
    <3>2. QED
      BY <1>1, <2>1, <2>5, <3>1 DEF Spawned, SpawnedAt, Notifiers
  <2>8. Condvar'
    <3>1. \A n \in Notifiers : pc'[n] = IF n = u THEN 1 ELSE pc[n]
      BY <1>1, <2>2 DEF Spawns
    <3>2. Main \in 2..14 /\ Main' \in 2..14
      BY <1>11, <2>5
    <3>3. /\ Awaits(3, "n1")' /\ Awaits(5, "n2")' /\ Awaits(7, "n3")'
          /\ AwaitsValue(10, "n4")' /\ AwaitsValue(13, "n5")'
      BY <1>11, <2>1, <2>5, <3>1 DEF Awaits, AwaitsValue, Asleep, Notifiers
    <3>4. /\ \A n \in Notifiers : pc[n] \in 0..5 /\ pc[n] \notin 2..3
          /\ owner["cm"] = "main" /\ readers["cm"] = 0
      BY <1>1, <1>7, <1>11, <3>2 DEF Condvar
    <3>5. QED
      BY <1>1, <1>11, <2>5, <3>1, <3>2, <3>3, <3>4 DEF Condvar
  <2>9. QED
    BY <2>2, <2>4, <2>6, <2>7, <2>8 DEF IInv
<1>12. QED
  <2>1. Main \in {1, 8, 11, 14, 3, 5, 7, 10, 13, 2, 4, 6, 9, 12}
    BY <1>2
  <2>2. Moves => IInv'
    BY <1>4
  <2> HIDE DEF Moves
  <2>3. QED
    BY <1>5, <1>6, <1>8, <1>9, <1>10, <1>11, <2>1, <2>2

-----------------------------------------------------------------------------
(* The invariant is inductive.                                              *)

LEMMA InitEstablishes == Init => IInv
<1> SUFFICES ASSUME Init PROVE IInv
  OBVIOUS
<1>1. /\ Main = 1 /\ \A t \in Threads : t # "main" => pc[t] = 0
      /\ \A x \in Objects : owner[x] = Nobody /\ readers[x] = 0
      /\ \A b \in Barriers : arrived[b] = {}
      /\ sleeping = {} /\ woken = {} /\ ~Asleep
  BY DEF Init, Main, Threads, Asleep
<1>2. Typed
  <2>1. /\ pc \in [Threads -> Nat] /\ owner \in [Objects -> Threads \cup {Nobody}]
        /\ readers \in [Objects -> Int] /\ arrived \in [Barriers -> SUBSET Threads]
    BY DEF Init
  <2>2. wakeups \in 0..MaxWakeups /\ function \in Functions
    BY TestcaseAssumption DEF Init
  <2>3. value \in BOOLEAN /\ exited \in BOOLEAN
    BY Zenon DEF Init
  <2>4. QED
    BY <2>1, <2>2, <2>3 DEF Typed
<1>3. /\ {"n1", "n2", "n3", "n4", "n5", "relock", "writer", "reader", "rewrite", "mm1", "mm2",
          "rr1", "rr2", "mr1", "mr2", "pp1", "pp2"} \subseteq Threads
      /\ Objects = {"mutex", "rwlock", "cm", "a", "b", "c", "d", "r", "t", "w",
                    "m1", "m2", "r1", "r2", "x1", "x2", "p1", "p2"}
      /\ Barriers = {"one", "meet", "alone1", "alone2", "mm", "rr", "mr", "pp"}
      /\ "main" # Nobody /\ \A n \in Notifiers : n # Nobody /\ n \in Threads /\ n # "main"
  BY DEF Threads, Notifiers, Objects, Barriers, Nobody
<1>4. MainPlaces
  BY <1>1, <1>3 DEF MainPlaces
<1>5. MainLocks
  BY <1>1, <1>3 DEF MainLocks, MainOwns, MainReads
<1>6. Spawned
  BY <1>1, <1>3 DEF Spawned, SpawnedAt
<1>7. Condvar
  BY <1>1, <1>3 DEF Condvar, Awaits, AwaitsValue
<1>8. Relocks("relock", "r") /\ Relocks("rewrite", "w")
  BY <1>1, <1>3 DEF Relocks
<1>9. ReadOrWrite
  BY <1>1, <1>3 DEF ReadOrWrite
<1>10. /\ Crosses("mm1", "mm2", "m1", "m2", "mm") /\ Crosses("rr1", "rr2", "r1", "r2", "rr")
       /\ Crosses("mr1", "mr2", "x1", "x2", "mr")
  BY <1>1, <1>3 DEF Crosses
<1>11. Takes("pp1", "pp2")
  BY <1>1, <1>3 DEF Takes, Nobody
<1>12. QED
  BY <1>2, <1>4, <1>5, <1>6, <1>7, <1>8, <1>9, <1>10, <1>11 DEF IInv, Groups

(* A wake-up without a notify, and the end of the process.                  *)
LEMMA WakeUpKeeps ==
    ASSUME IInv, WakeUp
    PROVE  IInv'
<1>1. /\ Typed /\ MainPlaces /\ MainLocks /\ Spawned /\ Condvar /\ Groups
  BY DEF IInv
<1>2. /\ sleeping' = {} /\ woken' = {"main"} /\ "main" \in sleeping
      /\ UNCHANGED <<function, pc, owner, readers, value, arrived, exited>>
  BY <1>1, Zenon DEF WakeUp, MainPlaces, locks
<1>3. Typed'
  BY <1>1, <1>2, TestcaseAssumption DEF Typed, WakeUp
<1>4. (Asleep' <=> Asleep) /\ Main' = Main
  BY <1>2 DEF Asleep, Main
<1>5. MainPlaces' /\ MainLocks' /\ Spawned'
  BY <1>1, <1>2, <1>4 DEF MainPlaces, MainLocks, MainOwns, MainReads, Spawned, SpawnedAt
<1>6. Condvar'
  BY <1>1, <1>2, <1>4 DEF Condvar, Awaits, AwaitsValue
<1>7. Groups'
  BY <1>1, <1>2 DEF Groups, Relocks, ReadOrWrite, Crosses, Takes
<1>8. QED
  BY <1>3, <1>5, <1>6, <1>7 DEF IInv

LEMMA QuietKeeps ==
    ASSUME IInv, Exit \/ UNCHANGED vars
    PROVE  IInv'
<1>1. /\ UNCHANGED <<function, pc, owner, readers, value, arrived, sleeping, woken, wakeups>>
      /\ exited' \in BOOLEAN
  BY Zenon DEF IInv, Typed, Exit, vars, locks, waits
<1>2. (Asleep' <=> Asleep) /\ Main' = Main
  BY <1>1 DEF Asleep, Main
<1>3. Typed' /\ MainPlaces' /\ MainLocks' /\ Spawned'
  BY <1>1, <1>2 DEF IInv, Typed, MainPlaces, MainLocks, MainOwns, MainReads, Spawned, SpawnedAt
<1>4. Condvar'
  BY <1>1, <1>2 DEF IInv, Condvar, Awaits, AwaitsValue
<1>5. Groups'
  BY <1>1 DEF IInv, Groups, Relocks, ReadOrWrite, Crosses, Takes
<1>6. QED
  BY <1>3, <1>4, <1>5 DEF IInv

LEMMA NextKeeps == IInv /\ [Next]_vars => IInv'
<1> SUFFICES ASSUME IInv, [Next]_vars PROVE IInv'
  OBVIOUS
<1>1. ASSUME NEW t \in Threads, Step(t) PROVE IInv'
  <2>1. CASE t # "main"
    BY <1>1, <2>1, ThreadStep
  <2>2. CASE t = "main"
    BY <1>1, <2>2, OneFunction, MainStep, TestconvarStep, MultimutexStep, ConflictStep DEF IInv
  <2>3. QED
    BY <2>1, <2>2
<1>2. QED
  BY <1>1, WakeUpKeeps, QuietKeeps DEF Next

(* Every reachable state satisfies it.                                      *)
THEOREM Inductive == Spec => []IInv
BY InitEstablishes, NextKeeps, PTL DEF Spec

-----------------------------------------------------------------------------
(* What it says of a single state.                                          *)

LEMMA Lengths ==
    ASSUME Typed
    PROVE  /\ \A n \in Notifiers : Len(Text(n)) = 4
           /\ Len(Text("relock")) = 3 /\ Len(Text("rewrite")) = 3
           /\ Len(Text("writer")) = 4 /\ Len(Text("reader")) = 5
           /\ \A t \in Crossing : Len(Text(t)) = 4
           /\ Len(Text("pp1")) = 5 /\ Len(Text("pp2")) = 5
           /\ function = "main" => Len(Text("main")) = 13
           /\ function = "testconvar" => Len(Text("main")) = 14
           /\ function = "test_multimutex" => Len(Text("main")) = 36
           /\ function = "test_conflict_lock" => Len(Text("main")) = 8
<1>1. \A x, y, m : Len(RelockText(x)) = 3 /\ Len(CrossingText(x, y, m)) = 4
  BY DEF RelockText, CrossingText
<1>2. \A t \in Crossing : Len(Text(t)) = 4
  BY <1>1, ThreadTexts DEF Crossing
<1>3. QED
  BY <1>1, <1>2, ThreadTexts, MainTexts, TextLengths, MultimutexPlaces

LEMMA WhereThreadsAre ==
    ASSUME IInv
    PROVE  /\ \A n \in Notifiers : pc[n] \in 0..5
           /\ \A t \in {"relock", "rewrite", "writer", "reader"} : pc[t] \in 0..2
           /\ \A t \in Crossing : pc[t] \in 0..3
           /\ pc["pp1"] \in 0..6 /\ pc["pp2"] \in 0..6
BY DEF IInv, Groups, Condvar, Relocks, ReadOrWrite, Crossing, Crosses, Takes

(* The end of a text is the place behind its last word.                     *)
LEMMA Within ==
    ASSUME NEW s, NEW n \in Nat, Len(s) = n, NEW p \in 0..(n + 1)
    PROVE  p <= Len(s) + 1
OBVIOUS

LEMMA TypeFollows == IInv => TypeOK
<1> SUFFICES ASSUME IInv PROVE TypeOK
  OBVIOUS
<1>1. Typed /\ MainPlaces /\ MainLocks /\ Condvar /\ Groups
  BY DEF IInv
<1>2. \A t \in Threads : pc[t] <= Len(Text(t)) + 1
  <2>1. pc["main"] <= Len(Text("main")) + 1
    <3>1. CASE function = "main"
      <4>1. Len(Text("main")) = 13
        BY <1>1, <3>1, Lengths
      <4>2. pc["main"] \in 0..(13 + 1)
        BY <1>1, <3>1 DEF MainPlaces, Main
      <4>3. QED
        BY <4>1, <4>2, Within, Zenon
    <3>2. CASE function = "testconvar"
      <4>1. Len(Text("main")) = 14
        BY <1>1, <3>2, Lengths
      <4>2. pc["main"] \in 0..(14 + 1)
        BY <1>1, <3>2 DEF MainPlaces, Main
      <4>3. QED
        BY <4>1, <4>2, Within, Zenon
    <3>3. CASE function = "test_multimutex"
      <4>1. Len(Text("main")) = 36
        BY <1>1, <3>3, Lengths
      <4>2. pc["main"] \in 0..(36 + 1)
        BY <1>1, <3>3 DEF MainPlaces, Main
      <4>3. QED
        BY <4>1, <4>2, Within, Zenon
    <3>4. CASE function = "test_conflict_lock"
      <4>1. Len(Text("main")) = 8
        BY <1>1, <3>4, Lengths
      <4>2. pc["main"] \in 0..(8 + 1)
        BY <1>1, <3>4 DEF MainPlaces, Main
      <4>3. QED
        BY <4>1, <4>2, Within, Zenon
    <3>5. QED
      BY <1>1, <3>1, <3>2, <3>3, <3>4, OneFunction
  <2>2. ASSUME NEW t \in Threads \ {"main"} PROVE pc[t] <= Len(Text(t)) + 1
    <3>1. CASE t \in Notifiers \cup Crossing
      <4>1. Len(Text(t)) = 4 /\ pc[t] \in 0..(4 + 1)
        BY <1>1, <3>1, Lengths, WhereThreadsAre
      <4>2. QED
        BY <4>1, Within
    <3>2. CASE t \in {"relock", "rewrite"}
      <4>1. Len(Text(t)) = 3 /\ pc[t] \in 0..(3 + 1)
        BY <1>1, <3>2, Lengths, WhereThreadsAre
      <4>2. QED
        BY <4>1, Within
    <3>3. CASE t = "writer"
      <4>1. Len(Text(t)) = 4 /\ pc[t] \in 0..(4 + 1)
        BY <1>1, <3>3, Lengths, WhereThreadsAre
      <4>2. QED
        BY <4>1, Within
    <3>4. CASE t \in {"reader", "pp1", "pp2"}
      <4>1. Len(Text(t)) = 5 /\ pc[t] \in 0..(5 + 1)
        BY <1>1, <3>4, Lengths, WhereThreadsAre
      <4>2. QED
        BY <4>1, Within
    <3>5. QED
      BY <3>1, <3>2, <3>3, <3>4 DEF Threads, Crossing
  <2>3. QED
    BY <2>1, <2>2
<1>3. readers \in [Objects -> Nat]
  <2>1. \A x \in {"mutex", "rwlock", "a", "b", "c", "d"} : readers[x] \in Nat
    BY <1>1 DEF MainLocks, MainReads
  <2>2. \A x \in Objects \ {"mutex", "rwlock", "a", "b", "c", "d"} : readers[x] \in Nat
    BY <1>1 DEF Condvar, Groups, Relocks, ReadOrWrite, Crosses, Takes, Objects
  <2>3. QED
    BY <1>1, <2>1, <2>2 DEF Typed
<1>4. sleeping \subseteq Threads /\ woken \subseteq Threads \ sleeping
  BY <1>1 DEF MainPlaces, Threads
<1>5. QED
  BY <1>1, <1>2, <1>3, <1>4 DEF Typed, TypeOK

(* Types, and every thread within its text or at its end.                   *)
THEOREM TypeCorrect == Spec => []TypeOK
BY Inductive, TypeFollows, PTL

(* The words at the places threads come to.                                 *)
LEMMA PairWords ==
    /\ \A x : RelockText(x)[1] = <<"lock", x>> /\ RelockText(x)[2] = <<"lock", x>>
    /\ \A x, y, m : /\ CrossingText(x, y, m)[1] = <<"lock", x>>
                    /\ CrossingText(x, y, m)[2] = <<"barrier", m>>
                    /\ CrossingText(x, y, m)[3] = <<"lock", y>>
    /\ WriterText[1] = <<"lock", "t">> /\ WriterText[2] = <<"barrier", "meet">>
    /\ ReaderText[1] = <<"read", "t">> /\ ReaderText[2] = <<"barrier", "meet">>
BY DEF RelockText, CrossingText, WriterText, ReaderText, Lock, Read, Wait

LEMMA PotentialWords ==
    /\ PotentialText[1] = <<"lock", "p1">> /\ PotentialText[2] = <<"lock", "p2">>
    /\ PotentialText[3] = <<"barrier", "pp">> /\ PotentialText[4] = <<"drop", "p2">>
    /\ PotentialText[5] = <<"drop", "p1">>
    /\ PotentialCounterText[1] = <<"barrier", "pp">> /\ PotentialCounterText[2] = <<"lock", "p2">>
    /\ PotentialCounterText[3] = <<"lock", "p1">> /\ PotentialCounterText[4] = <<"drop", "p1">>
    /\ PotentialCounterText[5] = <<"drop", "p2">>
BY DEF PotentialText, PotentialCounterText, Lock, Drop, Wait

LEMMA NotifierWords ==
    /\ NotifierText[1] = <<"lock", "cm">> /\ NotifierText[2][1] = "set"
    /\ NotifierText[3] = <<"drop", "cm">> /\ NotifierText[4] = <<"notify", "cm">>
<1>1. /\ NotifierText[1] = Lock("cm") /\ NotifierText[2] = SetTo(TRUE)
      /\ NotifierText[3] = Drop("cm") /\ NotifierText[4] = <<"notify", "cm">>
  BY DEF NotifierText
<1>2. QED
  BY <1>1, SetWord, Zenon DEF Lock, Drop

LEMMA MainWords ==
    /\ MainText[1] = <<"lock", "mutex">> /\ MainText[2] = <<"drop", "mutex">>
    /\ MainText[3] = <<"try_lock", "mutex">> /\ MainText[4] = <<"drop", "mutex">>
    /\ MainText[5] = <<"read", "rwlock">> /\ MainText[6] = <<"drop", "rwlock">>
    /\ MainText[7] = <<"lock", "rwlock">> /\ MainText[8] = <<"drop", "rwlock">>
    /\ MainText[9] = <<"try_read", "rwlock">> /\ MainText[10] = <<"drop", "rwlock">>
    /\ MainText[11] = <<"try_lock", "rwlock">> /\ MainText[12] = <<"drop", "rwlock">>
    /\ MainText[13] = <<"barrier", "one">>
BY DEF MainText, Lock, Drop, Read, Wait

(* A thread that is at a place is at one of its text.                       *)
LEMMA Places ==
    ASSUME IInv, NEW t \in Threads, pc[t] \in 1..Len(Text(t))
    PROVE  /\ t \in Notifiers => pc[t] \in 1..4
           /\ t \in {"relock", "rewrite", "writer", "reader"} => pc[t] \in 1..2
           /\ t \in Crossing => pc[t] \in 1..3
           /\ t \in {"pp1", "pp2"} => pc[t] \in 1..5
           /\ t = "main" /\ function = "main" => pc[t] \in 1..13
           /\ t = "main" /\ function = "testconvar" => pc[t] \in 1..14
           /\ t = "main" /\ function = "test_multimutex" => pc[t] \in 1..36
           /\ t = "main" /\ function = "test_conflict_lock" => pc[t] \in 1..8
<1>1. Typed
  BY DEF IInv
<1>2. \A n \in {4, 5, 8, 13, 14, 36} : Len(Text(t)) = n => pc[t] \in 1..n
  OBVIOUS
<1>3. t \in Notifiers \/ t \in {"pp1", "pp2"} \/ t = "main" =>
        /\ t \in Notifiers => pc[t] \in 1..4
        /\ t \in {"pp1", "pp2"} => pc[t] \in 1..5
        /\ t = "main" /\ function = "main" => pc[t] \in 1..13
        /\ t = "main" /\ function = "testconvar" => pc[t] \in 1..14
        /\ t = "main" /\ function = "test_multimutex" => pc[t] \in 1..36
        /\ t = "main" /\ function = "test_conflict_lock" => pc[t] \in 1..8
  BY <1>1, <1>2, Lengths
<1>4. /\ t \in {"relock", "rewrite", "writer", "reader"} => pc[t] \in 1..2
      /\ t \in Crossing => pc[t] \in 1..3
  BY WhereThreadsAre
<1>5. QED
  BY <1>3, <1>4

LEMMA ThreadWords ==
    ASSUME IInv, NEW t \in Threads, pc[t] \in 1..Len(Text(t))
    PROVE  \/ t # "main" /\ Text(t)[pc[t]][1] \in {"lock", "read", "drop", "barrier", "set", "notify"}
           \/ t = "main" /\ function = "main"
           \/ /\ t = "main"
              /\ Text(t)[pc[t]][1] \in {"lock", "read", "drop", "spawn", "set", "wait", "wait_while"}
<1>1. CASE t \in Notifiers
  BY <1>1, Places, ThreadTexts, NotifierWords DEF Notifiers
<1>2. CASE t \in {"relock", "rewrite", "writer", "reader"} \cup Crossing
  BY <1>2, Places, ThreadTexts, PairWords DEF Crossing
<1>3. CASE t \in {"pp1", "pp2"}
  BY <1>3, Places, ThreadTexts, PotentialWords
<1>4. CASE t = "main" /\ function = "testconvar"
  <2>1. pc[t] \in 1..14 /\ Text(t) = TestconvarText
    BY <1>4, Places, MainTexts
  <2>2. TestconvarText[8][1] = "set" /\ TestconvarText[11][1] = "set"
    BY TestconvarWords, SetWord, Zenon
  <2>3. \A k \in 1..14 \ {8, 11} :
          TestconvarText[k][1] \in {"lock", "drop", "spawn", "wait", "wait_while"}
    BY TestconvarWords
  <2>4. TestconvarText[pc[t]][1] \in {"lock", "drop", "spawn", "set", "wait", "wait_while"}
    BY <2>1, <2>2, <2>3, Zenon
  <2>5. QED
    BY <1>4, <2>1, <2>4
<1>5. CASE t = "main" /\ function = "test_multimutex"
  <2>1. pc[t] \in 1..36 /\ Text(t)[pc[t]] = Multimutex(pc[t])
    BY <1>5, Places, MainTexts, MultimutexPlaces, Zenon
  <2>2. Multimutex(pc[t]) \in Words
    BY <2>1, MultimutexWords, Zenon
  <2>3. QED
    BY <1>5, <2>1, <2>2 DEF Words
<1>6. CASE t = "main" /\ function = "test_conflict_lock"
  <2>1. pc[t] \in 1..8 /\ Text(t) = ConflictText
    BY <1>6, Places, MainTexts
  <2>2. ConflictText[pc[t]][1] = "spawn"
    BY <2>1 DEF ConflictText, Spawn
  <2>3. QED
    BY <1>6, <2>1, <2>2
<1>7. QED
  BY <1>1, <1>2, <1>3, <1>4, <1>5, <1>6, OneFunction DEF Threads, Crossing, IInv

LEMMA PanicFree == IInv => NobodyPanics
<1> SUFFICES ASSUME IInv, NEW t \in Threads
             PROVE  /\ ~At(t, {"unreachable"})
                    /\ At(t, {"try_lock"}) => Free(On(t))
                    /\ At(t, {"try_read"}) => owner[On(t)] = Nobody
  BY DEF NobodyPanics
<1>1. ASSUME NEW kind \in {"unreachable", "try_lock", "try_read"}, At(t, {kind})
      PROVE  pc[t] \in 1..Len(Text(t)) /\ Text(t)[pc[t]][1] = kind
  BY <1>1 DEF At
<1>2. ASSUME NEW kind \in {"unreachable", "try_lock", "try_read"}, At(t, {kind})
      PROVE  t = "main" /\ function = "main" /\ Text(t) = MainText /\ pc[t] \in 1..13
  <2>1. t = "main" /\ function = "main"
    BY <1>1, <1>2, ThreadWords, Zenon
  <2>2. QED
    BY <1>1, <1>2, <2>1, Places, MainTexts, Zenon
<1>3. ASSUME At(t, {"unreachable"}) PROVE FALSE
  <2>1. pc[t] \in 1..13 /\ MainText[pc[t]][1] = "unreachable"
    BY <1>1, <1>2, <1>3
  <2>2. QED
    BY <2>1, MainWords
<1>4. ASSUME At(t, {"try_lock"}) PROVE Free(On(t))
  <2>1. (pc[t] = 3 /\ On(t) = "mutex") \/ (pc[t] = 11 /\ On(t) = "rwlock")
    <3>1. pc[t] \in 1..13 /\ MainText[pc[t]][1] = "try_lock" /\ On(t) = MainText[pc[t]][2]
      BY <1>1, <1>2, <1>4 DEF On
    <3>2. QED
      BY <3>1, MainWords
  <2>2. t = "main" /\ function = "main" /\ Main = pc[t]
    BY <1>2, <1>4 DEF Main
  <2>3. QED
    BY <2>1, <2>2 DEF IInv, MainLocks, MainOwns, MainReads, Free
<1>5. ASSUME At(t, {"try_read"}) PROVE owner[On(t)] = Nobody
  <2>1. pc[t] = 9 /\ On(t) = "rwlock"
    <3>1. pc[t] \in 1..13 /\ MainText[pc[t]][1] = "try_read" /\ On(t) = MainText[pc[t]][2]
      BY <1>1, <1>2, <1>5 DEF On
    <3>2. QED
      BY <3>1, MainWords
  <2>2. t = "main" /\ function = "main" /\ Main = pc[t]
    BY <1>2, <1>5 DEF Main
  <2>3. QED
    BY <2>1, <2>2 DEF IInv, MainLocks, MainOwns
<1>6. QED
  BY <1>3, <1>4, <1>5

(* Whatever the schedule: no thread gets past the deadlock it is meant to   *)
(* run into, and no try_ call finds its lock taken.                         *)
THEOREM NoPanic == Spec => []NobodyPanics
BY Inductive, PanicFree, PTL

-----------------------------------------------------------------------------
(* When nothing moves any more.                                             *)

LEMMA Stuck ==
    ASSUME Quiet, NEW t \in Threads, t \notin sleeping \cup woken, NEW n \in Nat,
           Len(Text(t)) = n, pc[t] \in 1..n
    PROVE  /\ Text(t)[pc[t]][1] \in {"lock", "try_lock"} => ~Free(Text(t)[pc[t]][2])
           /\ Text(t)[pc[t]][1] \in {"read", "try_read"} => owner[Text(t)[pc[t]][2]] # Nobody
           /\ Text(t)[pc[t]][1] = "barrier" => t \in arrived[Text(t)[pc[t]][2]]
           /\ Text(t)[pc[t]][1] \notin {"drop", "set", "spawn", "wait", "wait_while", "notify"}
<1>1. \A W : Text(t)[pc[t]][1] \in W => At(t, W)
  BY DEF Quiet, At
<1>2. ~CanMove(t)
  BY DEF Quiet
<1>3. /\ ~(At(t, {"lock", "try_lock"}) /\ Free(On(t)))
      /\ ~(At(t, {"read", "try_read"}) /\ owner[On(t)] = Nobody)
      /\ ~(At(t, {"barrier"}) /\ t \notin arrived[On(t)])
      /\ ~At(t, {"drop", "set", "spawn", "wait", "wait_while", "notify"})
  BY <1>2 DEF CanMove
<1>4. QED
  BY <1>1, <1>3 DEF On

(* The same, of a thread whose word is known.                               *)
LEMMA StuckAt ==
    ASSUME Quiet, NEW t \in Threads, t \notin sleeping \cup woken, NEW n \in Nat,
           Len(Text(t)) = n, pc[t] \in 1..n, NEW kind, NEW x, Text(t)[pc[t]] = <<kind, x>>
    PROVE  /\ kind \in {"lock", "try_lock"} => ~Free(x)
           /\ kind \in {"read", "try_read"} => owner[x] # Nobody
           /\ kind = "barrier" => t \in arrived[x]
           /\ kind \notin {"drop", "set", "spawn", "wait", "wait_while", "notify"}
<1>1. Text(t)[pc[t]][1] = kind /\ Text(t)[pc[t]][2] = x
  OBVIOUS
<1>2. QED
  BY <1>1, Stuck

(* The mutex of the condition variable is free, main is not asleep, and no  *)
(* notifier is on its way.                                                  *)
LEMMA NotifiersDone ==
    ASSUME IInv, Quiet, function = "testconvar"
    PROVE  Main = 15 /\ \A n \in Notifiers : pc[n] \in {0, 5}
<1>1. Typed /\ MainPlaces /\ Spawned /\ Condvar
  BY DEF IInv
<1>2. /\ \A n \in Notifiers : /\ n \in Threads /\ n \notin sleeping \cup woken /\ n # "main"
                              /\ n # Nobody /\ Text(n) = NotifierText /\ Len(Text(n)) = 4
                              /\ pc[n] \in 0..5
      /\ "main" \in Threads /\ "main" # Nobody /\ Nobody \notin Notifiers
  <2>1. \A n \in Notifiers : Text(n) = NotifierText /\ Len(Text(n)) = 4
    BY ThreadTexts, TextLengths
  <2>2. QED
    BY <1>1, <2>1 DEF MainPlaces, Condvar, Threads, Notifiers, Nobody
<1>3. \A n \in Notifiers : pc[n] \notin 2..4
  <2>1. SUFFICES ASSUME NEW n \in Notifiers, pc[n] \in 2..4 PROVE FALSE
    OBVIOUS
  <2>2. NotifierText[pc[n]][1] \in {"set", "drop", "notify"}
    <3>1. /\ NotifierText[2][1] = "set" /\ NotifierText[3][1] = "drop"
          /\ NotifierText[4][1] = "notify"
      BY NotifierWords
    <3>2. pc[n] = 2 \/ pc[n] = 3 \/ pc[n] = 4
      BY <2>1
    <3>3. QED
      BY <3>1, <3>2
  <2>3. n \in Threads /\ n \notin sleeping \cup woken /\ Len(Text(n)) = 4 /\ pc[n] \in 1..4
    BY <1>2, <2>1
  <2>4. Text(n)[pc[n]][1] \notin {"drop", "set", "spawn", "wait", "wait_while", "notify"}
    BY <2>3, Stuck, Zenon
  <2>5. QED
    BY <1>2, <2>2, <2>4
<1>4. owner["cm"] \in {"main", Nobody} /\ readers["cm"] = 0
  BY <1>1, <1>3 DEF Condvar
<1>5. ASSUME owner["cm"] = Nobody
      PROVE  \A n \in Notifiers : pc[n] # 1
  <2>1. SUFFICES ASSUME NEW n \in Notifiers, pc[n] = 1 PROVE FALSE
    OBVIOUS
  <2>2. /\ n \in Threads /\ n \notin sleeping \cup woken /\ Len(Text(n)) = 4 /\ pc[n] \in 1..4
        /\ Text(n)[pc[n]] = <<"lock", "cm">>
    BY <1>2, <2>1, NotifierWords
  <2>3. ~Free("cm")
    BY <2>2, StuckAt, Zenon
  <2>4. QED
    BY <1>4, <1>5, <2>3 DEF Free
<1>6. ~Asleep
  <2>1. SUFFICES ASSUME Asleep PROVE FALSE
    OBVIOUS
  <2>2. owner["cm"] = Nobody /\ Free("cm") /\ Main \in {3, 5, 7, 10, 13}
    BY <1>1, <1>4, <2>1 DEF Condvar, Free, MainPlaces
  <2>3. On("main") = "cm"
    <3>1. TestconvarText[Main][2] = "cm"
      BY <2>2, TestconvarWords
    <3>2. QED
      BY <3>1, MainTexts DEF On, Main
  <2>4. "main" \notin woken
    BY <1>2, <2>2, <2>3 DEF Quiet, CanMove
  <2>5. "main" \in sleeping
    BY <2>1, <2>4 DEF Asleep
  <2>6. \E n \in Notifiers : pc[n] <= 4 /\ pc[n] > 0
    BY <1>1, <2>2, <2>5 DEF Condvar, Awaits, AwaitsValue, Spawned, SpawnedAt, Notifiers
  <2>7. QED
    BY <1>2, <1>3, <1>5, <2>2, <2>6
<1>7. Main = 15
  <2>1. SUFFICES ASSUME Main # 15 PROVE FALSE
    OBVIOUS
  <2>2. Main \in 1..14 /\ pc["main"] \in 1..14 /\ Main = pc["main"]
    BY <1>1, <2>1 DEF MainPlaces, Main
  <2>3. /\ "main" \notin sleeping \cup woken /\ Len(Text("main")) = 14
        /\ Text("main") = TestconvarText
    BY <1>6, MainTexts, TextLengths DEF Asleep
  <2>4. CASE Main = 1
    <3>1. owner["cm"] = Nobody
      BY <1>1, <1>4, <2>4 DEF Condvar
    <3>2. Text("main")[pc["main"]] = <<"lock", "cm">>
      BY <2>2, <2>3, <2>4, TestconvarWords
    <3>3. ~Free("cm")
      BY <1>2, <2>2, <2>3, <3>2, StuckAt, Zenon
    <3>4. QED
      BY <1>4, <3>1, <3>3 DEF Free
  <2>5. CASE Main # 1
    <3>1. TestconvarText[8][1] = "set" /\ TestconvarText[11][1] = "set"
      BY TestconvarWords, SetWord, Zenon
    <3>2. \A k \in 2..14 \ {8, 11} :
            TestconvarText[k][1] \in {"drop", "spawn", "wait", "wait_while"}
      BY TestconvarWords
    <3>3. Text("main")[pc["main"]][1] \in {"drop", "set", "spawn", "wait", "wait_while", "notify"}
      BY <2>2, <2>3, <2>5, <3>1, <3>2
    <3>4. QED
      BY <1>2, <2>2, <2>3, <3>3, Stuck, Zenon
  <2>6. QED
    BY <2>4, <2>5
<1>8. owner["cm"] = Nobody
  BY <1>1, <1>4, <1>7 DEF Condvar
<1>9. QED
  BY <1>2, <1>3, <1>5, <1>7, <1>8

(* Main is at its end in the other functions too: it never finds a lock     *)
(* taken, and its barrier is for one.                                       *)
LEMMA MainDone ==
    ASSUME IInv, Quiet
    PROVE  /\ function = "main" => Main = 14
           /\ function = "testconvar" => Main = 15
           /\ function = "test_multimutex" => Main = 37
           /\ function = "test_conflict_lock" => Main = 9
<1>1. Typed /\ MainPlaces /\ MainLocks /\ "main" \in Threads /\ Main = pc["main"]
  BY DEF IInv, Threads, Main
<1>2. function # "testconvar" => "main" \notin sleeping \cup woken
  BY <1>1 DEF MainPlaces, Asleep
<1>3. ASSUME function = "main", Main # 14 PROVE FALSE
  <2>1. Main \in 1..13 /\ pc["main"] \in 1..13
    BY <1>1, <1>3 DEF MainPlaces
  <2>2. Len(Text("main")) = 13 /\ Text("main") = MainText
    BY <1>3, MainTexts, TextLengths
  <2>3. /\ MainText[Main][1] \in {"lock", "try_lock"} => ~Free(MainText[Main][2])
        /\ MainText[Main][1] \in {"read", "try_read"} => owner[MainText[Main][2]] # Nobody
        /\ MainText[Main][1] = "barrier" => "main" \in arrived[MainText[Main][2]]
        /\ MainText[Main][1] \notin {"drop", "set", "spawn", "wait", "wait_while", "notify"}
    BY <1>1, <1>2, <1>3, <2>1, <2>2, Stuck, Zenon
  <2>4. Main \in {1, 3, 5, 7, 9, 11, 13}
    BY <2>1, <2>3, MainWords
  <2>5. CASE Main \in {1, 3}
    <3>1. ~Free("mutex")
      BY <2>3, <2>5, MainWords
    <3>2. QED
      BY <1>1, <1>3, <2>5, <3>1 DEF MainLocks, MainOwns, Free
  <2>6. CASE Main \in {7, 11}
    <3>1. ~Free("rwlock")
      BY <2>3, <2>6, MainWords
    <3>2. QED
      BY <1>1, <1>3, <2>6, <3>1 DEF MainLocks, MainOwns, MainReads, Free
  <2>7. CASE Main \in {5, 9}
    <3>1. owner["rwlock"] # Nobody
      BY <2>3, <2>7, MainWords
    <3>2. QED
      BY <1>1, <1>3, <2>7, <3>1 DEF MainLocks, MainOwns
  <2>8. CASE Main = 13
    <3>1. "main" \in arrived["one"]
      BY <2>3, <2>8, MainWords
    <3>2. QED
      BY <1>1, <3>1 DEF MainPlaces
  <2>9. QED
    BY <2>4, <2>5, <2>6, <2>7, <2>8
<1>4. ASSUME function = "test_multimutex", Main # 37 PROVE FALSE
  <2>1. Main \in 1..36 /\ pc["main"] \in 1..36
    BY <1>1, <1>4 DEF MainPlaces
  <2>2. Len(Text("main")) = 36 /\ Text("main")[pc["main"]] = Multimutex(Main)
    BY <1>1, <1>4, <2>1, MainTexts, MultimutexPlaces
  <2>3. ASSUME NEW x, Multimutex(Main) = <<"lock", x>> PROVE ~Free(x)
    BY <1>1, <1>2, <1>4, <2>1, <2>2, <2>3, StuckAt, Zenon
  <2>4. CASE Main \in {1, 15, 29}
    <3>1. Multimutex(Main) = <<"lock", "a">>
      BY <2>4 DEF Multimutex, Lock
    <3>2. QED
      BY <1>1, <1>4, <2>3, <2>4, <3>1 DEF MainLocks, MainOwns, Free
  <2>5. CASE Main \in {2, 16, 30}
    <3>1. Multimutex(Main) = <<"lock", "b">>
      BY <2>5 DEF Multimutex, Lock
    <3>2. QED
      BY <1>1, <1>4, <2>3, <2>5, <3>1 DEF MainLocks, MainOwns, Free
  <2>6. CASE Main \in {3, 17, 31}
    <3>1. Multimutex(Main) = <<"lock", "c">>
      BY <2>6 DEF Multimutex, Lock
    <3>2. QED
      BY <1>1, <1>4, <2>3, <2>6, <3>1 DEF MainLocks, MainOwns, Free
  <2>7. CASE Main \in {9, 20}
    <3>1. Multimutex(Main) = <<"lock", "d">>
      BY <2>7 DEF Multimutex, Lock
    <3>2. QED
      BY <1>1, <1>4, <2>3, <2>7, <3>1 DEF MainLocks, MainOwns, MainReads, Free
  <2>8. CASE Main \in {4, 11, 12, 18, 32}
    <3>1. Multimutex(Main) = <<"read", "d">>
      BY <2>8 DEF Multimutex, Read
    <3>2. owner["d"] # Nobody
      BY <1>1, <1>2, <1>4, <2>1, <2>2, <3>1, StuckAt, Zenon
    <3>3. QED
      BY <1>1, <1>4, <2>8, <3>2 DEF MainLocks, MainOwns
  <2>9. CASE Main \notin {1, 15, 29, 2, 16, 30, 3, 17, 31, 9, 20, 4, 11, 12, 18, 32}
    <3>1. PICK kind \in {"drop", "spawn"}, x \in Things : Multimutex(Main) = <<kind, x>>
      BY <2>9 DEF Multimutex, Drop, Spawn, Things
    <3>2. kind \notin {"drop", "set", "spawn", "wait", "wait_while", "notify"}
      BY <1>1, <1>2, <1>4, <2>1, <2>2, <3>1, StuckAt, Zenon
    <3>3. QED
      BY <3>2
  <2>10. QED
    BY <2>1, <2>4, <2>5, <2>6, <2>7, <2>8, <2>9
<1>5. ASSUME function = "test_conflict_lock", Main # 9 PROVE FALSE
  <2>1. Main \in 1..8 /\ pc["main"] \in 1..8
    BY <1>1, <1>5 DEF MainPlaces
  <2>2. Len(Text("main")) = 8 /\ Text("main") = ConflictText
    BY <1>5, MainTexts, TextLengths
  <2>3. ConflictText[Main][1] = "spawn"
    BY <2>1 DEF ConflictText, Spawn
  <2>4. QED
    BY <1>1, <1>2, <1>5, <2>1, <2>2, <2>3, Stuck, Zenon
<1>6. QED
  BY <1>3, <1>4, <1>5, NotifiersDone

(* A thread that locks twice hangs at its second lock.                      *)
LEMMA RelockHangs ==
    ASSUME IInv, Quiet, NEW t \in {"relock", "rewrite"}, pc[t] > 0
    PROVE  pc[t] = 2
<1>1. SUFFICES ASSUME pc[t] # 2 PROVE FALSE
  OBVIOUS
<1>2. PICK x \in {"r", "w"} : Relocks(t, x) /\ Text(t) = RelockText(x)
  BY ThreadTexts DEF IInv, Groups
<1>3. /\ t \in Threads /\ t \notin sleeping \cup woken /\ Len(Text(t)) = 3
      /\ pc[t] = 1 /\ pc[t] \in 1..3 /\ Text(t)[pc[t]] = <<"lock", x>>
  <2>1. t \in Threads /\ t \notin sleeping \cup woken
    BY DEF IInv, MainPlaces, Threads
  <2>2. pc[t] = 1
    BY <1>1, <1>2 DEF Relocks
  <2>3. Len(Text(t)) = 3
    BY Lengths DEF IInv
  <2>4. QED
    BY <1>2, <2>1, <2>2, <2>3, PairWords
<1>4. ~Free(x)
  BY <1>3, StuckAt, Zenon
<1>5. QED
  BY <1>2, <1>3, <1>4 DEF Relocks, Free

(* Of a pair that locks crosswise, each hangs at its second lock.           *)
LEMMA CrossesHang ==
    ASSUME Quiet, NEW u \in Threads, NEW v \in Threads, u # v,
           u \notin sleeping \cup woken, v \notin sleeping \cup woken,
           NEW x, NEW y, NEW meet, Crosses(u, v, x, y, meet),
           Text(u) = CrossingText(x, y, meet), Text(v) = CrossingText(y, x, meet),
           Len(Text(u)) = 4, Len(Text(v)) = 4, pc[u] > 0, pc[v] > 0
    PROVE  pc[u] = 3 /\ pc[v] = 3
<1>1. pc[u] \in 1..4 /\ pc[v] \in 1..4 /\ pc[u] \in 1..3 /\ pc[v] \in 1..3
  BY DEF Crosses
<1>2. pc[u] # 1
  <2>1. SUFFICES ASSUME pc[u] = 1 PROVE FALSE
    OBVIOUS
  <2>2. Text(u)[pc[u]] = <<"lock", x>>
    BY <2>1, PairWords
  <2>3. ~Free(x)
    BY <1>1, <2>2, StuckAt, Zenon
  <2>4. QED
    BY <2>1, <2>3 DEF Crosses, Free
<1>3. pc[v] # 1
  <2>1. SUFFICES ASSUME pc[v] = 1 PROVE FALSE
    OBVIOUS
  <2>2. Text(v)[pc[v]] = <<"lock", y>>
    BY <2>1, PairWords
  <2>3. ~Free(y)
    BY <1>1, <2>2, StuckAt, Zenon
  <2>4. readers[y] = 0 /\ owner[y] = Nobody
    BY <2>1 DEF Crosses
  <2>5. QED
    BY <2>3, <2>4 DEF Free
<1>4. pc[u] = 2 => u \in arrived[meet]
  <2>1. SUFFICES ASSUME pc[u] = 2 PROVE u \in arrived[meet]
    OBVIOUS
  <2>2. Text(u)[pc[u]] = <<"barrier", meet>>
    BY <2>1, PairWords
  <2>3. QED
    BY <1>1, <2>2, StuckAt, Zenon
<1>5. pc[v] = 2 => v \in arrived[meet]
  <2>1. SUFFICES ASSUME pc[v] = 2 PROVE v \in arrived[meet]
    OBVIOUS
  <2>2. Text(v)[pc[v]] = <<"barrier", meet>>
    BY <2>1, PairWords
  <2>3. QED
    BY <1>1, <2>2, StuckAt, Zenon
<1>6. ~(u \in arrived[meet] /\ v \in arrived[meet])
  BY DEF Crosses
<1>7. QED
  BY <1>1, <1>2, <1>3, <1>4, <1>5, <1>6 DEF Crosses

(* One of reader and writer has the lock and waits for the other.           *)
LEMMA ReadOrWriteHangs ==
    ASSUME IInv, Quiet, pc["reader"] > 0, pc["writer"] > 0
    PROVE  pc["reader"] <= 2 /\ pc["writer"] <= 2 /\ pc["reader"] + pc["writer"] = 3
<1>1. ReadOrWrite
  BY DEF IInv, Groups
<1>2. /\ pc["reader"] \in {1, 2} /\ pc["writer"] \in {1, 2}
      /\ pc["writer"] # 2 \/ pc["reader"] # 2
  BY <1>1 DEF ReadOrWrite
<1>3. ~(pc["reader"] = 1 /\ pc["writer"] = 1)
  <2>1. SUFFICES ASSUME pc["reader"] = 1, pc["writer"] = 1 PROVE FALSE
    OBVIOUS
  <2>2. /\ "writer" \in Threads /\ "writer" \notin sleeping \cup woken
        /\ Len(Text("writer")) = 4 /\ pc["writer"] \in 1..4
        /\ Text("writer")[pc["writer"]] = <<"lock", "t">>
    <3>1. Len(Text("writer")) = 4
      BY ThreadTexts, TextLengths
    <3>2. QED
      BY <2>1, <3>1, ThreadTexts, PairWords DEF IInv, MainPlaces, Threads
  <2>3. ~Free("t")
    BY <2>2, StuckAt, Zenon
  <2>4. QED
    BY <1>1, <2>1, <2>3 DEF ReadOrWrite, Free
<1>4. QED
  BY <1>2, <1>3

(* The "potential conflict" comes to its end.                               *)
LEMMA TakesEnd ==
    ASSUME IInv, Quiet, pc["pp1"] > 0, pc["pp2"] > 0
    PROVE  pc["pp1"] = 6 /\ pc["pp2"] = 6
<1> DEFINE u == "pp1"
           v == "pp2"
<1>1. Takes("pp1", "pp2") /\ pc[u] \in 1..6 /\ pc[v] \in 1..6 /\ u # v
  BY DEF IInv, Groups, Takes
<1>2. /\ u \in Threads /\ v \in Threads /\ u \notin sleeping \cup woken /\ v \notin sleeping \cup woken
      /\ Len(Text(u)) = 5 /\ Len(Text(v)) = 5
      /\ Text(u) = PotentialText /\ Text(v) = PotentialCounterText
  <2>1. Len(Text(u)) = 5 /\ Len(Text(v)) = 5
    BY ThreadTexts, TextLengths
  <2>2. QED
    BY <2>1, ThreadTexts DEF IInv, MainPlaces, Threads
<1>3. ASSUME NEW kind, NEW x, pc[u] \in 1..5, PotentialText[pc[u]] = <<kind, x>>
      PROVE  /\ kind = "lock" => ~Free(x)
             /\ kind = "barrier" => u \in arrived[x]
             /\ kind # "drop"
  BY <1>2, <1>3, StuckAt, Zenon
<1>4. ASSUME NEW kind, NEW x, pc[v] \in 1..5, PotentialCounterText[pc[v]] = <<kind, x>>
      PROVE  /\ kind = "lock" => ~Free(x)
             /\ kind = "barrier" => v \in arrived[x]
             /\ kind # "drop"
  BY <1>2, <1>4, StuckAt, Zenon
<1>5. pc[u] \notin {4, 5} /\ pc[v] \notin {4, 5}
  <2>1. pc[u] # 4 /\ pc[u] # 5
    BY <1>3, PotentialWords
  <2>2. pc[v] # 4 /\ pc[v] # 5
    BY <1>4, PotentialWords
  <2>3. QED
    BY <2>1, <2>2
<1>6. /\ pc[u] = 1 => ~Free("p1")
      /\ pc[u] = 2 => ~Free("p2")
      /\ pc[u] = 3 => u \in arrived["pp"]
  BY <1>3, PotentialWords
<1>7. /\ pc[v] = 1 => v \in arrived["pp"]
      /\ pc[v] = 2 => ~Free("p2")
      /\ pc[v] = 3 => ~Free("p1")
  BY <1>4, PotentialWords
<1>8. /\ owner["p1"] # v
      /\ owner["p1"] = u <=> pc[u] \in 2..5
      /\ owner["p2"] = u <=> pc[u] \in 3..4
      /\ owner["p2"] = v <=> pc[v] = 3
      /\ owner["p1"] \in {u, v, Nobody} /\ owner["p2"] \in {u, v, Nobody}
      /\ readers["p1"] = 0 /\ readers["p2"] = 0
      /\ (pc[u] >= 4 <=> pc[v] >= 2) /\ ~(u \in arrived["pp"] /\ v \in arrived["pp"])
  BY <1>1, <1>5 DEF Takes
<1>9. QED
  BY <1>1, <1>5, <1>6, <1>7, <1>8 DEF Free

LEMMA HangsFollow == IInv => HangsAsMeant
<1> SUFFICES ASSUME IInv, Quiet, NEW t \in Threads, pc[t] > 0
             PROVE  CASE t \in {"relock", "rewrite"} -> pc[t] = 2
                      [] t \in Crossing -> pc[t] = 3
                      [] t \in {"reader", "writer"} ->
                            pc[t] <= 2 /\ pc["reader"] + pc["writer"] = 3
                      [] OTHER -> Returned(t)
  BY Zenon DEF HangsAsMeant
<1>1. Typed /\ Spawned /\ MainPlaces /\ Groups
  BY DEF IInv
<1>2. function = "test_conflict_lock" =>
        /\ pc["mm1"] > 0 /\ pc["mm2"] > 0 /\ pc["rr1"] > 0 /\ pc["rr2"] > 0
        /\ pc["mr1"] > 0 /\ pc["mr2"] > 0 /\ pc["pp1"] > 0 /\ pc["pp2"] > 0
  BY <1>1, MainDone DEF Spawned, SpawnedAt
<1>3. function = "test_multimutex" => pc["reader"] > 0 /\ pc["writer"] > 0
  BY <1>1, MainDone DEF Spawned, SpawnedAt
<1>4. t \in Crossing => pc[t] = 3
  <2>1. SUFFICES ASSUME t \in Crossing PROVE pc[t] = 3
    OBVIOUS
  <2>2. function = "test_conflict_lock"
    BY <1>1, <2>1 DEF Spawned, SpawnedAt, Crossing
  <2>3. \A u \in Crossing : u \in Threads /\ u \notin sleeping \cup woken /\ Len(Text(u)) = 4
    BY <1>1, Lengths DEF MainPlaces, Threads, Crossing
  <2>4. pc["mm1"] = 3 /\ pc["mm2"] = 3
    BY <1>1, <1>2, <2>2, <2>3, ThreadTexts, CrossesHang DEF Groups, Crossing
  <2>5. pc["rr1"] = 3 /\ pc["rr2"] = 3
    BY <1>1, <1>2, <2>2, <2>3, ThreadTexts, CrossesHang DEF Groups, Crossing
  <2>6. pc["mr1"] = 3 /\ pc["mr2"] = 3
    BY <1>1, <1>2, <2>2, <2>3, ThreadTexts, CrossesHang DEF Groups, Crossing
  <2>7. QED
    BY <2>1, <2>4, <2>5, <2>6 DEF Crossing
<1>5. t \in {"reader", "writer"} => pc[t] <= 2 /\ pc["reader"] + pc["writer"] = 3
  <2>1. SUFFICES ASSUME t \in {"reader", "writer"}
                 PROVE  pc[t] <= 2 /\ pc["reader"] + pc["writer"] = 3
    OBVIOUS
  <2>2. function = "test_multimutex"
    BY <1>1, <2>1 DEF Spawned, SpawnedAt
  <2>3. QED
    BY <1>3, <2>1, <2>2, ReadOrWriteHangs
<1>6. t \in {"pp1", "pp2"} => Returned(t)
  <2>1. SUFFICES ASSUME t \in {"pp1", "pp2"} PROVE Returned(t)
    OBVIOUS
  <2>2. function = "test_conflict_lock"
    BY <1>1, <2>1 DEF Spawned, SpawnedAt
  <2>3. pc[t] = 6
    BY <1>2, <2>1, <2>2, TakesEnd
  <2>4. Len(Text(t)) = 5
    BY <2>1, ThreadTexts, TextLengths
  <2>5. QED
    BY <2>3, <2>4 DEF Returned
<1>7. t \in Notifiers => Returned(t)
  <2>1. SUFFICES ASSUME t \in Notifiers PROVE Returned(t)
    OBVIOUS
  <2>2. function = "testconvar"
    BY <1>1, <2>1 DEF Spawned, SpawnedAt, Notifiers
  <2>3. pc[t] = 5
    BY <2>1, <2>2, NotifiersDone
  <2>4. Len(Text(t)) = 4
    BY <2>1, ThreadTexts, TextLengths
  <2>5. QED
    BY <2>3, <2>4 DEF Returned
<1>8. t = "main" => Returned(t)
  <2>1. SUFFICES Returned("main")
    OBVIOUS
  <2>2. CASE function = "main"
    <3>1. pc["main"] = 13 + 1
      BY <2>2, MainDone DEF Main
    <3>2. Len(Text("main")) = 13
      BY <2>2, MainTexts, TextLengths, MultimutexPlaces
    <3>3. QED
      BY <3>1, <3>2, Zenon DEF Returned
  <2>3. CASE function = "testconvar"
    <3>1. pc["main"] = 14 + 1
      BY <2>3, MainDone DEF Main
    <3>2. Len(Text("main")) = 14
      BY <2>3, MainTexts, TextLengths, MultimutexPlaces
    <3>3. QED
      BY <3>1, <3>2, Zenon DEF Returned
  <2>4. CASE function = "test_multimutex"
    <3>1. pc["main"] = 36 + 1
      BY <2>4, MainDone DEF Main
    <3>2. Len(Text("main")) = 36
      BY <2>4, MainTexts, TextLengths, MultimutexPlaces
    <3>3. QED
      BY <3>1, <3>2, Zenon DEF Returned
  <2>5. CASE function = "test_conflict_lock"
    <3>1. pc["main"] = 8 + 1
      BY <2>5, MainDone DEF Main
    <3>2. Len(Text("main")) = 8
      BY <2>5, MainTexts, TextLengths, MultimutexPlaces
    <3>3. QED
      BY <3>1, <3>2, Zenon DEF Returned
  <2>6. QED
    BY <1>1, <2>2, <2>3, <2>4, <2>5, OneFunction
<1>9. t \in {"relock", "rewrite"} => pc[t] = 2
  BY RelockHangs
<1>10. \/ t \in {"relock", "rewrite"} \/ t \in Crossing \/ t \in {"reader", "writer"}
       \/ t \in {"pp1", "pp2"} \/ t \in Notifiers \/ t = "main"
  BY DEF Threads, Crossing
<1>11. QED
  BY <1>4, <1>5, <1>6, <1>7, <1>8, <1>9, <1>10 DEF Crossing, Notifiers

(* Whatever the schedule: what hangs in the end is what was meant to, where *)
(* it was meant to.                                                         *)
THEOREM HangsWhereMeant == Spec => []HangsAsMeant
BY Inductive, HangsFollow, PTL
=============================================================================
