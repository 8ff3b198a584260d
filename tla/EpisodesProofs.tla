--------------------------- MODULE EpisodesProofs ---------------------------
(***************************************************************************)
(* Proofs about the pure functions of module Episodes, for any finite set  *)
(* of invocations: what the one scan of assembleSession finds are the      *)
(* struggles of the reference definition.                                  *)
(***************************************************************************)
EXTENDS Episodes, FiniteSetTheorems, NaturalsInduction, WellFoundedInduction, TLAPS

\* Invocations as stored: every column has its type, (entry, ordinal) is a key.
Told(invs) ==
    /\ IsFiniteSet(invs)
    /\ \A x \in invs : /\ x.at \in Nat \cup {NoTime} /\ x.no \in Nat /\ x.entry \in Nat
                       /\ x.ord \in Nat /\ x.family \in STRING /\ x.error \in BOOLEAN
    /\ \A x, y \in invs : x.entry = y.entry /\ x.ord = y.ord => x = y

LEMMA Least ==
    ASSUME NEW S \in SUBSET Nat, S # {}
    PROVE  \E m \in S : \A n \in S : ~(n < m)
<1> DEFINE R == {ss \in Nat \X Nat : ss[1] < ss[2]}
<1>1. IsWellFoundedOn(R, Nat)
  BY NatLessThanWellFounded DEF OpToRel
<1>2. \E m \in S : \A n \in S : ~(<<n, m>> \in R)
  <2> HIDE DEF R
  <2> QED BY <1>1, WFMin
<1> QED BY <1>2

LEMMA Greatest ==
    ASSUME NEW n \in Nat, NEW S \in SUBSET (0..n), S # {}
    PROVE  \E m \in S : \A i \in S : i <= m
<1> DEFINE T == {n - i : i \in S}
<1>1. T \in SUBSET Nat /\ T # {}
  <2>1. \A i \in S : n - i \in Nat
    OBVIOUS
  <2>2. PICK i \in S : TRUE
    OBVIOUS
  <2> QED BY <2>1, <2>2
<1>2. PICK t \in T : \A u \in T : ~(u < t)
  BY <1>1, Least
<1>3. PICK m \in S : t = n - m
  OBVIOUS
<1>4. ASSUME NEW i \in S PROVE i <= m
  <2>1. ~(n - i < n - m)
    BY <1>2, <1>3
  <2>2. i \in 0..n /\ m \in 0..n
    OBVIOUS
  <2> QED BY <2>1, <2>2
<1> QED BY <1>4

(***************************************************************************)
(* Sorting by rank.  R is a strict total order on S, as a set of pairs.    *)
(***************************************************************************)
Below(S, R, x) == {y \in S : <<y, x>> \in R}

Orders(R, S) ==
    /\ \A x \in S : <<x, x>> \notin R
    /\ \A x, y, z \in S : <<x, y>> \in R /\ <<y, z>> \in R => <<x, z>> \in R
    /\ \A x, y \in S : x = y \/ <<x, y>> \in R \/ <<y, x>> \in R

LEMMA RanksAreOrdered ==
    ASSUME NEW S, IsFiniteSet(S), NEW R, Orders(R, S)
    PROVE  /\ Cardinality(S) \in Nat
           /\ \A x \in S : Cardinality(Below(S, R, x)) \in 0..(Cardinality(S) - 1)
           /\ \A x, y \in S : <<x, y>> \in R <=>
                Cardinality(Below(S, R, x)) < Cardinality(Below(S, R, y))
           /\ \A x, y \in S : Cardinality(Below(S, R, x)) = Cardinality(Below(S, R, y)) => x = y
<1>1. Cardinality(S) \in Nat
  BY FS_CardinalityType
<1>2. ASSUME NEW x \in S
      PROVE  /\ IsFiniteSet(Below(S, R, x)) /\ Cardinality(Below(S, R, x)) \in Nat
             /\ Cardinality(Below(S, R, x)) < Cardinality(S)
  <2>1. Below(S, R, x) \subseteq S /\ x \notin Below(S, R, x)
    BY DEF Below, Orders
  <2>2. /\ IsFiniteSet(Below(S, R, x)) /\ Cardinality(Below(S, R, x)) <= Cardinality(S)
        /\ Cardinality(Below(S, R, x)) # Cardinality(S)
    BY <2>1, FS_Subset
  <2>3. Cardinality(Below(S, R, x)) \in Nat
    BY <2>2, FS_CardinalityType
  <2> QED BY <1>1, <2>2, <2>3
<1>3. ASSUME NEW x \in S, NEW y \in S, <<x, y>> \in R
      PROVE  Cardinality(Below(S, R, x)) < Cardinality(Below(S, R, y))
  <2>1. Below(S, R, x) \subseteq Below(S, R, y)
    BY <1>3 DEF Below, Orders
  <2>2. x \in Below(S, R, y) /\ x \notin Below(S, R, x)
    BY <1>3 DEF Below, Orders
  <2>3. /\ Cardinality(Below(S, R, x)) <= Cardinality(Below(S, R, y))
        /\ Cardinality(Below(S, R, x)) # Cardinality(Below(S, R, y))
    BY <1>2, <2>1, <2>2, FS_Subset
  <2> QED BY <1>2, <2>3
<1>4. ASSUME NEW x \in S, NEW y \in S
      PROVE  x = y \/ <<x, y>> \in R \/ <<y, x>> \in R
  BY DEF Orders
<1> HIDE DEF Orders
<1>5. ASSUME NEW x \in S, NEW y \in S,
             Cardinality(Below(S, R, x)) < Cardinality(Below(S, R, y))
      PROVE  <<x, y>> \in R
  <2>1. x # y /\ <<y, x>> \notin R
    BY <1>2, <1>3, <1>5
  <2> QED BY <1>4, <2>1
<1>6. ASSUME NEW x \in S, NEW y \in S,
             Cardinality(Below(S, R, x)) = Cardinality(Below(S, R, y))
      PROVE  x = y
  <2>1. <<x, y>> \notin R /\ <<y, x>> \notin R
    BY <1>2, <1>3, <1>6
  <2> QED BY <1>4, <2>1
<1> QED BY <1>1, <1>2, <1>3, <1>5, <1>6

\* Every place is taken: n elements with n different ranks below n.
LEMMA RanksAreAll ==
    ASSUME NEW S, IsFiniteSet(S), NEW R, Orders(R, S)
    PROVE  \A n \in 0..(Cardinality(S) - 1) : \E x \in S : Cardinality(Below(S, R, x)) = n
<1> DEFINE N == Cardinality(S)
           rank == [x \in S |-> Cardinality(Below(S, R, x))]
<1>1. N \in Nat /\ \A x \in S : rank[x] \in 0..(N - 1)
  BY RanksAreOrdered
<1>2. \A x, y \in S : rank[x] = rank[y] => x = y
  BY RanksAreOrdered
<1>3. IsFiniteSet(0..(N - 1)) /\ Cardinality(0..(N - 1)) = N
  BY <1>1, FS_Interval
<1>4. rank \in Injection(S, 0..(N - 1))
  BY <1>1, <1>2 DEF Injection, IsInjective
<1>5. rank \in Surjection(S, 0..(N - 1))
  <2> HIDE DEF rank, N
  <2>1. Cardinality(S) = Cardinality(0..(N - 1))
    BY <1>3 DEF N
  <2> QED BY <1>3, <1>4, <2>1, FS_Injection
<1>6. \A n \in 0..(N - 1) : \E x \in S : rank[x] = n
  BY <1>5 DEF Surjection
<1> QED BY <1>6

LEMMA BeforeOrders ==
    ASSUME NEW invs, Told(invs)
    PROVE  Orders({p \in invs \X invs : Before(p[1], p[2])}, invs)
<1> DEFINE R == {p \in invs \X invs : Before(p[1], p[2])}
<1>1. ASSUME NEW x \in invs PROVE ~Before(x, x)
  BY EpisodesAssumption DEF Told, Before
<1>2. ASSUME NEW x \in invs, NEW y \in invs, NEW z \in invs, Before(x, y), Before(y, z)
      PROVE  Before(x, z)
  <2>1. /\ x.at \in Nat \cup {NoTime} /\ x.no \in Nat /\ x.entry \in Nat /\ x.ord \in Nat
        /\ y.at \in Nat \cup {NoTime} /\ y.no \in Nat /\ y.entry \in Nat /\ y.ord \in Nat
        /\ z.at \in Nat \cup {NoTime} /\ z.no \in Nat /\ z.entry \in Nat /\ z.ord \in Nat
    BY DEF Told
  <2> QED BY <1>2, <2>1, EpisodesAssumption DEF Before
<1>3. ASSUME NEW x \in invs, NEW y \in invs, x # y
      PROVE  Before(x, y) \/ Before(y, x)
  <2>1. /\ x.at \in Nat \cup {NoTime} /\ x.no \in Nat /\ x.entry \in Nat /\ x.ord \in Nat
        /\ y.at \in Nat \cup {NoTime} /\ y.no \in Nat /\ y.entry \in Nat /\ y.ord \in Nat
        /\ ~(x.entry = y.entry /\ x.ord = y.ord)
    BY <1>3 DEF Told
  <2> QED BY <2>1, EpisodesAssumption DEF Before
<1> QED BY <1>1, <1>2, <1>3 DEF Orders

\* InOrder lists every invocation once, in the order of Before.
LEMMA InOrderSorts ==
    ASSUME NEW invs, Told(invs)
    PROVE  LET s == InOrder(invs) n == Cardinality(invs) IN
           /\ n \in Nat /\ s \in [1..n -> invs] /\ Len(s) = n /\ DOMAIN s = 1..n
           /\ \A i, j \in 1..n : Before(s[i], s[j]) <=> i < j
           /\ \A i, j \in 1..n : s[i] = s[j] => i = j
           /\ \A x \in invs : \E i \in 1..n : s[i] = x
<1> DEFINE s == InOrder(invs)
           n == Cardinality(invs)
           R == {p \in invs \X invs : Before(p[1], p[2])}
           rank(x) == Cardinality(Below(invs, R, x))
           place(i) == CHOOSE x \in invs : Cardinality({y \in invs : Before(y, x)}) = i - 1
<1>1. IsFiniteSet(invs) /\ Orders(R, invs)
  BY BeforeOrders DEF Told
<1>2. /\ n \in Nat
      /\ \A x \in invs : rank(x) \in 0..(n - 1)
      /\ \A x, y \in invs : <<x, y>> \in R <=> rank(x) < rank(y)
      /\ \A x, y \in invs : rank(x) = rank(y) => x = y
  <2> HIDE DEF R
  <2> QED BY <1>1, RanksAreOrdered
<1>3. \A m \in 0..(n - 1) : \E x \in invs : rank(x) = m
  <2> HIDE DEF R
  <2> QED BY <1>1, RanksAreAll
<1>4. \A x \in invs : rank(x) = Cardinality({y \in invs : Before(y, x)})
  <2>1. \A x \in invs : Below(invs, R, x) = {y \in invs : Before(y, x)}
    BY DEF Below
  <2> QED BY <2>1
<1>5. s = [i \in 1..n |-> place(i)]
  BY DEF InOrder
<1>11. \A x, y \in invs : <<x, y>> \in R <=> Before(x, y)
  OBVIOUS
<1> HIDE DEF rank, R
<1>6. ASSUME NEW i \in 1..n
      PROVE  s[i] \in invs /\ rank(s[i]) = i - 1
  <2>1. i - 1 \in 0..(n - 1)
    BY <1>2
  <2>2. PICK x \in invs : rank(x) = i - 1
    BY <1>3, <2>1
  <2>3. \E y \in invs : Cardinality({z \in invs : Before(z, y)}) = i - 1
    BY <1>4, <2>2
  <2>4. s[i] = CHOOSE y \in invs : Cardinality({z \in invs : Before(z, y)}) = i - 1
    <3>1. s[i] = place(i)
      <4> HIDE DEF place
      <4> QED BY <1>5
    <3> QED BY <3>1
  <2> HIDE DEF s, n
  <2>5. s[i] \in invs /\ Cardinality({z \in invs : Before(z, s[i])}) = i - 1
    BY <2>3, <2>4
  <2> QED BY <1>4, <2>5
<1> HIDE DEF s, place
<1>7. s \in [1..n -> invs] /\ DOMAIN s = 1..n /\ Len(s) = n
  <2>1. DOMAIN s = 1..n /\ s = [i \in 1..n |-> s[i]]
    BY <1>5
  <2> HIDE DEF n
  <2>2. s \in [1..n -> invs]
    BY <1>6, <2>1
  <2> QED BY <1>2, <2>1, <2>2
<1>8. \A i, j \in 1..n : Before(s[i], s[j]) <=> i < j
  <2>1. ASSUME NEW i \in 1..n, NEW j \in 1..n
        PROVE  Before(s[i], s[j]) <=> rank(s[i]) < rank(s[j])
    BY <1>2, <1>6, <1>11
  <2> QED BY <1>2, <1>6, <2>1
<1>9. \A i, j \in 1..n : s[i] = s[j] => i = j
  <2>1. ASSUME NEW i \in 1..n, NEW j \in 1..n, s[i] = s[j]
        PROVE  i - 1 = j - 1
    BY <1>6, <2>1
  <2> QED BY <2>1
<1>10. \A x \in invs : \E i \in 1..n : s[i] = x
  <2>1. ASSUME NEW x \in invs PROVE \E i \in 1..n : s[i] = x
    <3>1. rank(x) + 1 \in 1..n
      BY <1>2
    <3>2. s[rank(x) + 1] \in invs /\ rank(s[rank(x) + 1]) = rank(x)
      <4>1. rank(s[rank(x) + 1]) = (rank(x) + 1) - 1
        BY <1>6, <3>1
      <4> QED BY <1>2, <1>6, <3>1, <4>1
    <3> QED BY <1>2, <3>1, <3>2
  <2> QED BY <2>1
<1> QED BY <1>2, <1>7, <1>8, <1>9, <1>10 DEF s

(***************************************************************************)
(* OpenAfter in closed form.  The scan keeps of every run of failures of a *)
(* family its first one, until a success of the family comes.              *)
(***************************************************************************)
Listing(s, n) == n \in Nat /\ Len(s) = n /\ \A i \in 1..n : s[i].error \in BOOLEAN

SameFamily(s, i, j) == s[i].family = s[j].family

Precedes(s, j, o) ==    \* j is the last of the family before o
    j < o /\ SameFamily(s, j, o) /\ \A m \in (j + 1)..(o - 1) : ~SameFamily(s, m, o)

StartsRun(s, o) == s[o].error /\ \A j \in 1..(o - 1) : Precedes(s, j, o) => ~s[j].error

Standing(s, i) ==
    {o \in 1..i : StartsRun(s, o) /\ \A j \in (o + 1)..i : SameFamily(s, j, o) => s[j].error}

ScanStep(s, was, i) ==
    LET mine == {o \in was : s[o].family = s[i].family}
    IN IF ~s[i].error THEN was \ mine
       ELSE IF mine = {} THEN was \cup {i} ELSE was

Scan(s, g) == [i \in 0..Len(s) |-> IF i = 0 THEN {} ELSE ScanStep(s, g[i - 1], i)]

\* Of two of a family, the later has a last one of the family before it.
LEMMA LastOfFamily ==
    ASSUME NEW n \in Nat, NEW s, NEW i \in 1..n, NEW o \in 1..(i - 1), SameFamily(s, o, i)
    PROVE  \E j \in o..(i - 1) : Precedes(s, j, i)
<1> DEFINE S == {j \in o..(i - 1) : SameFamily(s, j, i)}
<1>1. S \in SUBSET (0..n) /\ o \in S
  OBVIOUS
<1>2. PICK j \in S : \A m \in S : m <= j
  <2> HIDE DEF S
  <2> QED BY <1>1, Greatest
<1>3. ASSUME NEW m \in (j + 1)..(i - 1) PROVE ~SameFamily(s, m, i)
  <2>1. m \in o..(i - 1) /\ ~(m <= j)
    BY <1>3
  <2> QED BY <1>2, <2>1
<1>4. j < i
  OBVIOUS
<1> QED BY <1>3, <1>4 DEF Precedes

\* A run of failures has a first one.
LEMMA RunStarts ==
    ASSUME NEW n, NEW s, Listing(s, n), NEW j \in 1..n, s[j].error
    PROVE  \E o \in 1..j : /\ StartsRun(s, o) /\ SameFamily(s, o, j)
                           /\ \A m \in o..j : SameFamily(s, m, j) => s[m].error
<1> USE DEF Listing
<1> DEFINE S == {o \in 1..j : SameFamily(s, o, j)
                              /\ \A m \in o..j : SameFamily(s, m, j) => s[m].error}
<1>1. S \in SUBSET Nat /\ j \in S
  BY DEF SameFamily
<1>2. PICK o \in S : \A m \in S : ~(m < o)
  <2> HIDE DEF S
  <2> QED BY <1>1, Least
<1>3. s[o].error
  OBVIOUS
<1>4. ASSUME NEW p \in 1..(o - 1), Precedes(s, p, o), s[p].error
      PROVE  FALSE
  <2>1. ASSUME NEW m \in p..j, SameFamily(s, m, j) PROVE s[m].error
    <3>1. CASE m = p
      BY <1>4, <3>1
    <3>2. CASE m \in (p + 1)..(o - 1)
      BY <1>4, <2>1, <3>2 DEF Precedes, SameFamily
    <3>3. CASE m \in o..j
      BY <2>1, <3>3
    <3> QED BY <3>1, <3>2, <3>3
  <2>2. SameFamily(s, p, j) /\ p \in 1..j
    BY <1>4 DEF Precedes, SameFamily
  <2>3. p \in S
    BY <2>1, <2>2
  <2>4. p < o
    OBVIOUS
  <2> QED BY <1>2, <2>3, <2>4
<1>5. StartsRun(s, o)
  BY <1>3, <1>4 DEF StartsRun
<1> QED BY <1>5

LEMMA StandingSteps ==
    ASSUME NEW n, NEW s, Listing(s, n), NEW i \in 1..n
    PROVE  Standing(s, i) = ScanStep(s, Standing(s, i - 1), i)
<1> USE DEF Listing
<1> DEFINE was  == Standing(s, i - 1)
           mine == {o \in was : s[o].family = s[i].family}
<1>1. ASSUME NEW o \in 1..(i - 1)
      PROVE  o \in Standing(s, i) <=> o \in was /\ (SameFamily(s, i, o) => s[i].error)
  <2>1. (o + 1)..i = ((o + 1)..(i - 1)) \cup {i}
    OBVIOUS
  <2> QED BY <2>1 DEF Standing
<1>2. i \in Standing(s, i) <=> StartsRun(s, i)
  BY DEF Standing
<1>3. Standing(s, i) \subseteq 1..i /\ was \subseteq 1..(i - 1) /\ 1..i = (1..(i - 1)) \cup {i}
      /\ i \notin 1..(i - 1)
  BY DEF Standing
<1>4. CASE ~s[i].error
  <2>1. Standing(s, i) = was \ mine
    <3>1. i \notin Standing(s, i)
      BY <1>2, <1>4 DEF StartsRun
    <3> HIDE DEF was
    <3> QED BY <1>1, <1>3, <1>4, <3>1 DEF SameFamily
  <2> QED BY <1>4, <2>1 DEF ScanStep
<1>5. CASE s[i].error
  <2>1. StartsRun(s, i) <=> mine = {}
    <3>1. ASSUME StartsRun(s, i), NEW o \in mine PROVE FALSE
      <4>1. o \in 1..(i - 1) /\ SameFamily(s, o, i) /\ o \in was
        BY <1>3 DEF SameFamily
      <4>2. PICK j \in o..(i - 1) : Precedes(s, j, i)
        BY <4>1, LastOfFamily
      <4>3. ~s[j].error
        BY <3>1, <4>1, <4>2 DEF StartsRun
      <4>4. SameFamily(s, j, o)
        BY <4>1, <4>2 DEF Precedes, SameFamily
      <4>5. s[j].error
        BY <4>1, <4>4 DEF Standing, StartsRun
      <4> QED BY <4>3, <4>5
    <3>2. ASSUME ~StartsRun(s, i) PROVE mine # {}
      <4>1. PICK j \in 1..(i - 1) : Precedes(s, j, i) /\ s[j].error
        BY <1>5, <3>2 DEF StartsRun
      <4>2. j \in 1..n
        OBVIOUS
      <4>3. PICK o \in 1..j : /\ StartsRun(s, o) /\ SameFamily(s, o, j)
                              /\ \A m \in o..j : SameFamily(s, m, j) => s[m].error
        BY <4>1, <4>2, RunStarts
      <4>4. ASSUME NEW m \in (o + 1)..(i - 1), SameFamily(s, m, o) PROVE s[m].error
        <5>1. SameFamily(s, m, i) /\ SameFamily(s, m, j)
          BY <4>1, <4>3, <4>4 DEF SameFamily, Precedes
        <5>2. m \notin (j + 1)..(i - 1)
          BY <4>1, <5>1 DEF Precedes
        <5>3. m \in o..j
          BY <5>2
        <5> QED BY <4>3, <5>1, <5>3
      <4>5. o \in 1..(i - 1)
        OBVIOUS
      <4>6. o \in was
        BY <4>3, <4>4, <4>5 DEF Standing
      <4> QED BY <4>1, <4>3, <4>6 DEF SameFamily, Precedes
    <3> QED BY <3>1, <3>2
  <2>2. Standing(s, i) = IF mine = {} THEN was \cup {i} ELSE was
    <3> HIDE DEF was, mine
    <3>1. \A o \in 1..(i - 1) : o \in Standing(s, i) <=> o \in was
      BY <1>1, <1>5
    <3>2. i \in Standing(s, i) <=> mine = {}
      BY <1>2, <2>1
    <3> DEFINE now == Standing(s, i)
    <3> HIDE DEF now
    <3>3. CASE mine = {}
      BY <1>3, <3>1, <3>2, <3>3 DEF now
    <3>4. CASE mine # {}
      <4>1. i \notin was
        BY <1>3
      <4>2. now \subseteq 1..(i - 1) /\ was \subseteq 1..(i - 1)
        BY <1>3, <3>2, <3>4 DEF now
      <4>3. \A o : o \in now <=> o \in was
        BY <3>1, <4>2 DEF now
      <4> QED BY <3>4, <4>3 DEF now
    <3> QED BY <3>3, <3>4
  <2> QED BY <1>5, <2>2 DEF ScanStep
<1> QED BY <1>4, <1>5

LEMMA OpenIsStanding ==
    ASSUME NEW n, NEW s, Listing(s, n)
    PROVE  \A i \in 0..n : OpenAfter(s)[i] = Standing(s, i)
<1> DEFINE g == [i \in 0..n |-> Standing(s, i)]
           open == OpenAfter(s)
<1>1. n \in Nat /\ Len(s) = n
  BY DEF Listing
<1>2. Standing(s, 0) = {}
  BY DEF Standing
<1>3. g = Scan(s, g)
  <2>1. ASSUME NEW i \in 0..n
        PROVE  g[i] = IF i = 0 THEN {} ELSE ScanStep(s, g[i - 1], i)
    <3>1. CASE i = 0
      BY <1>2, <3>1
    <3>2. CASE i # 0
      <4>1. i \in 1..n /\ i - 1 \in 0..n
        BY <1>1, <3>2
      <4>2. g[i] = Standing(s, i) /\ g[i - 1] = Standing(s, i - 1)
        BY <4>1
      <4> QED BY <3>2, <4>1, <4>2, StandingSteps
    <3> QED BY <3>1, <3>2
  <2>2. Scan(s, g) = [i \in 0..n |-> IF i = 0 THEN {} ELSE ScanStep(s, g[i - 1], i)]
    BY <1>1 DEF Scan
  <2>3. g = [i \in 0..n |-> g[i]]
    OBVIOUS
  <2> HIDE DEF g
  <2> QED BY <2>1, <2>2, <2>3
<1>4. open = Scan(s, open)
  <2> HIDE DEF g
  <2>1. open = CHOOSE h : h = Scan(s, h)
    BY DEF OpenAfter, Scan, ScanStep
  <2> QED BY <1>3, <2>1
<1> HIDE DEF open
<1>5. \A i \in 0..n : open[i] = IF i = 0 THEN {} ELSE ScanStep(s, open[i - 1], i)
  BY <1>1, <1>4 DEF Scan
<1> DEFINE wrong == {i \in 0..n : open[i] # Standing(s, i)}
<1>6. SUFFICES ASSUME wrong # {} PROVE FALSE
  BY DEF open
<1>7. PICK i \in wrong : \A j \in wrong : ~(j < i)
  <2>1. wrong \in SUBSET Nat
    BY <1>1
  <2> HIDE DEF wrong
  <2> QED BY <1>6, <2>1, Least
<1>8. i # 0
  BY <1>2, <1>5, <1>7
<1>9. i \in 1..n /\ i - 1 \in 0..n /\ i - 1 < i
  BY <1>1, <1>8
<1>10. open[i - 1] = Standing(s, i - 1)
  BY <1>7, <1>9
<1> QED BY <1>5, <1>8, <1>9, <1>10, StandingSteps

LEMMA OneStanding ==
    ASSUME NEW n, NEW s, Listing(s, n), NEW i \in 0..n,
           NEW o \in Standing(s, i), NEW p \in Standing(s, i), SameFamily(s, o, p)
    PROVE  o = p
<1> USE DEF Listing
<1>1. ASSUME NEW x \in Standing(s, i), NEW y \in Standing(s, i), SameFamily(s, x, y), x < y
      PROVE  FALSE
  <2>1. /\ x \in 1..i /\ y \in 1..i /\ StartsRun(s, x) /\ StartsRun(s, y)
        /\ \A j \in (x + 1)..i : SameFamily(s, j, x) => s[j].error
    BY DEF Standing
  <2>2. PICK j \in x..(y - 1) : Precedes(s, j, y)
    <3>1. y \in 1..n /\ x \in 1..(y - 1)
      BY <1>1, <2>1
    <3> QED BY <1>1, <3>1, LastOfFamily
  <2>3. ~s[j].error
    BY <2>1, <2>2 DEF StartsRun
  <2>4. SameFamily(s, j, x)
    BY <1>1, <2>2 DEF SameFamily, Precedes
  <2>5. j = x \/ j \in (x + 1)..i
    BY <2>1
  <2> QED BY <2>1, <2>3, <2>4, <2>5 DEF StartsRun
<1>2. o \in 1..i /\ p \in 1..i
  BY DEF Standing
<1>3. SameFamily(s, p, o)
  BY DEF SameFamily
<1>4. ~(o < p) /\ ~(p < o)
  BY <1>1, <1>3
<1> QED BY <1>2, <1>4

(***************************************************************************)
(* Episodes in terms of the list of invocations.                           *)
(***************************************************************************)
Closes(s, o, i) ==
    /\ ~s[i].error /\ SameFamily(s, i, o)
    /\ o \in Standing(s, i - 1) /\ WithinBudget(s, o, i)

ClosersOf(s, n, o) == {i \in 1..n : Closes(s, o, i)}

AnyOf(S) == CHOOSE i \in S : TRUE

FixOf(s, n, o) ==
    IF ClosersOf(s, n, o) = {} THEN NoFix ELSE Fix(s, o, AnyOf(ClosersOf(s, n, o)))

LEMMA OrderIsListing ==
    ASSUME NEW invs, Told(invs)
    PROVE  Listing(InOrder(invs), Cardinality(invs))
<1>1. /\ Cardinality(invs) \in Nat /\ InOrder(invs) \in [1..Cardinality(invs) -> invs]
      /\ Len(InOrder(invs)) = Cardinality(invs)
  BY InOrderSorts
<1> QED BY <1>1 DEF Listing, Told

LEMMA EpisodesByPlace ==
    ASSUME NEW invs, Told(invs)
    PROVE  LET s == InOrder(invs) n == Cardinality(invs) IN
           AssembleEpisodes(invs) =
               {Episode(s, o, FixOf(s, n, o)) : o \in {i \in 1..n : StartsRun(s, i)}}
<1> DEFINE s == InOrder(invs)
           n == Cardinality(invs)
           open == OpenAfter(s)
           Shut(o) == {i \in DOMAIN s : /\ ~s[i].error /\ s[i].family = s[o].family
                                        /\ o \in open[i - 1] /\ WithinBudget(s, o, i)}
<1>1. n \in Nat /\ DOMAIN s = 1..n /\ Listing(s, n)
  BY InOrderSorts, OrderIsListing
<1>2. AssembleEpisodes(invs) =
          {Episode(s, o, IF Shut(o) = {} THEN NoFix ELSE Fix(s, o, AnyOf(Shut(o)))) :
              o \in {i \in DOMAIN s : s[i].error /\ i \in open[i]}}
  BY DEF AssembleEpisodes, AnyOf
<1>3. \A i \in 0..n : open[i] = Standing(s, i)
  <2> HIDE DEF s, n
  <2> QED BY <1>1, OpenIsStanding
<1> HIDE DEF s, n, open
<1>4. \A i \in 1..n : (s[i].error /\ i \in open[i]) <=> StartsRun(s, i)
  BY <1>1, <1>3 DEF Standing, StartsRun
<1>5. \A o : Shut(o) = ClosersOf(s, n, o)
  <2>1. \A i \in 1..n : i - 1 \in 0..n
    BY <1>1
  <2> QED BY <1>1, <1>3, <2>1 DEF ClosersOf, Closes, SameFamily
<1> HIDE DEF Shut
<1>6. {i \in DOMAIN s : s[i].error /\ i \in open[i]} = {i \in 1..n : StartsRun(s, i)}
  BY <1>1, <1>4
<1>7. \A o : (IF Shut(o) = {} THEN NoFix ELSE Fix(s, o, AnyOf(Shut(o)))) = FixOf(s, n, o)
  BY <1>5 DEF FixOf
<1>8. AssembleEpisodes(invs) = {Episode(s, o, FixOf(s, n, o)) : o \in {i \in 1..n : StartsRun(s, i)}}
  BY <1>2, <1>6, <1>7
<1> QED BY <1>8 DEF s, n

LEMMA OneCloser ==
    ASSUME NEW n, NEW s, Listing(s, n), NEW o \in 1..n,
           NEW i \in ClosersOf(s, n, o), NEW j \in ClosersOf(s, n, o)
    PROVE  i = j
<1> USE DEF Listing
<1>1. ASSUME NEW x \in ClosersOf(s, n, o), NEW y \in ClosersOf(s, n, o), x < y
      PROVE  FALSE
  <2>1. x \in 1..n /\ y \in 1..n /\ o \in 1..(x - 1) /\ ~s[x].error /\ SameFamily(s, x, o)
    BY DEF ClosersOf, Closes, Standing
  <2>2. x \in (o + 1)..(y - 1)
    BY <1>1, <2>1
  <2>3. s[x].error
    BY <2>1, <2>2 DEF ClosersOf, Closes, Standing
  <2> QED BY <2>1, <2>3
<1>2. i \in 1..n /\ j \in 1..n
  BY DEF ClosersOf
<1> QED BY <1>1, <1>2

LEMMA FixIsRecord ==
    ASSUME NEW invs, Told(invs), NEW o \in 1..Cardinality(invs), NEW i \in 1..Cardinality(invs), o < i
    PROVE  LET s == InOrder(invs) IN
           /\ Fix(s, o, i) # NoFix
           /\ Fix(s, o, i).entry = s[i].entry /\ Fix(s, o, i).ord = s[i].ord
           /\ Fix(s, o, i).path = [j \in 1..(i - o) |-> s[o + j].family]
<1> DEFINE s == InOrder(invs)
           n == Cardinality(invs)
<1>1. n \in Nat /\ s \in [1..n -> invs]
  BY InOrderSorts
<1> HIDE DEF s
<1>2. \A j \in 1..n : s[j].entry \in Nat /\ s[j].ord \in Nat /\ s[j].family \in STRING
  BY <1>1 DEF Told
<1>3. i - o \in Nat /\ \A j \in 1..(i - o) : o + j \in 1..n
  BY <1>1
<1>4. [j \in 1..(i - o) |-> s[o + j].family] \in Seq(STRING)
  BY <1>2, <1>3
<1>5. Fix(s, o, i) \in [entry : Nat, ord : Nat, path : Seq(STRING)]
  BY <1>2, <1>4 DEF Fix
<1>6. Fix(s, o, i) # NoFix
  BY <1>5, EpisodesAssumption
<1> QED BY <1>6 DEF s, Fix

\* What lies between two places of the list.
LEMMA BetweenCounts ==
    ASSUME NEW invs, Told(invs), NEW o \in 1..Cardinality(invs), NEW i \in 1..Cardinality(invs), o < i
    PROVE  LET s == InOrder(invs) IN
           Cardinality({x \in invs : Before(s[o], x) /\ Before(x, s[i])}) = i - o - 1
<1> DEFINE s == InOrder(invs)
           n == Cardinality(invs)
           T == {x \in invs : Before(s[o], x) /\ Before(x, s[i])}
           I == (o + 1)..(i - 1)
           f == [j \in I |-> s[j]]
<1>1. /\ n \in Nat /\ s \in [1..n -> invs]
      /\ \A j, k \in 1..n : Before(s[j], s[k]) <=> j < k
      /\ \A j, k \in 1..n : s[j] = s[k] => j = k
      /\ \A x \in invs : \E j \in 1..n : s[j] = x
  BY InOrderSorts
<1> HIDE DEF s
<1>2. \A j \in I : j \in 1..n /\ o < j /\ j < i
  BY <1>1
<1>3. f \in Bijection(I, T)
  <2>1. f \in [I -> T]
    BY <1>1, <1>2
  <2>2. \A j, k \in I : f[j] = f[k] => j = k
    BY <1>1, <1>2
  <2>3. \A x \in T : \E j \in I : f[j] = x
    <3>1. ASSUME NEW x \in T PROVE \E j \in I : f[j] = x
      <4>1. PICK j \in 1..n : s[j] = x
        BY <1>1
      <4>2. o < j /\ j < i
        BY <1>1, <4>1
      <4>3. j \in I
        BY <4>2
      <4> QED BY <4>1, <4>3
    <3> QED BY <3>1
  <2> HIDE DEF f, T, I
  <2> QED BY <2>1, <2>2, <2>3 DEF Bijection, Injection, IsInjective, Surjection
<1>4. IsFiniteSet(I) /\ Cardinality(I) = i - o - 1
  BY <1>1, FS_Interval
<1> HIDE DEF f, T, I
<1>5. Cardinality(T) = Cardinality(I)
  BY <1>3, <1>4, FS_Bijection DEF ExistsBijection
<1> QED BY <1>4, <1>5 DEF T, s

(***************************************************************************)
(* The reference.                                                          *)
(***************************************************************************)
Follows(a, b) == a.family = b.family /\ Before(a, b)
Opens(invs, b) ==
    b.error /\ \A a \in invs :
        Follows(a, b) /\ (~\E x \in invs : Follows(a, x) /\ Follows(x, b)) => ~a.error
Resolves(invs, a, b) ==
    /\ Follows(a, b) /\ ~b.error
    /\ \A x \in invs : Follows(a, x) /\ Follows(x, b) => x.error
    /\ Cardinality({x \in invs : Before(a, x) /\ Before(x, b)}) + 2 <= MaxSteps
    /\ a.at # NoTime /\ b.at # NoTime => b.at - a.at <= MaxGap

LEMMA StrugglesNamed ==
    ASSUME NEW invs
    PROVE  Struggles(invs) = {[open |-> a, fix |-> {b \in invs : Resolves(invs, a, b)}] :
                                 a \in {x \in invs : Opens(invs, x)}}
BY DEF Struggles, Opens, Resolves, Follows

LEMMA OpensByPlace ==
    ASSUME NEW invs, Told(invs), NEW i \in 1..Cardinality(invs)
    PROVE  Opens(invs, InOrder(invs)[i]) <=> StartsRun(InOrder(invs), i)
<1> DEFINE s == InOrder(invs)
           n == Cardinality(invs)
<1>1. /\ n \in Nat /\ s \in [1..n -> invs]
      /\ \A j, k \in 1..n : Before(s[j], s[k]) <=> j < k
      /\ \A x \in invs : \E j \in 1..n : s[j] = x
  BY InOrderSorts
<1> HIDE DEF s
<1>2. ASSUME NEW j \in 1..n, NEW k \in 1..n
      PROVE  Follows(s[j], s[k]) <=> SameFamily(s, j, k) /\ j < k
  BY <1>1 DEF Follows, SameFamily
<1>3. ASSUME NEW j \in 1..n
      PROVE  (Follows(s[j], s[i]) /\ ~\E x \in invs : Follows(s[j], x) /\ Follows(x, s[i]))
                 <=> Precedes(s, j, i)
  <2>1. ASSUME NEW x \in invs, Follows(s[j], x), Follows(x, s[i]), Precedes(s, j, i)
        PROVE  FALSE
    <3>1. PICK k \in 1..n : s[k] = x
      BY <1>1
    <3>2. SameFamily(s, k, i) /\ k \in (j + 1)..(i - 1)
      BY <1>1, <1>2, <2>1, <3>1
    <3> QED BY <2>1, <3>2 DEF Precedes
  <2>2. ASSUME Follows(s[j], s[i]), NEW m \in (j + 1)..(i - 1), SameFamily(s, m, i)
        PROVE  \E x \in invs : Follows(s[j], x) /\ Follows(x, s[i])
    <3>1. m \in 1..n /\ j < m /\ m < i
      BY <1>1
    <3>2. SameFamily(s, j, m)
      BY <1>2, <2>2 DEF SameFamily
    <3>3. s[m] \in invs /\ Follows(s[j], s[m]) /\ Follows(s[m], s[i])
      BY <1>1, <1>2, <2>2, <3>1, <3>2
    <3> QED BY <3>3
  <2> QED BY <1>2, <2>1, <2>2 DEF Precedes
<1>4. ASSUME Opens(invs, s[i]) PROVE StartsRun(s, i)
  <2>1. \A j \in 1..(i - 1) : j \in 1..n /\ s[j] \in invs
    BY <1>1
  <2> QED BY <1>3, <1>4, <2>1 DEF StartsRun, Opens
<1>5. ASSUME StartsRun(s, i) PROVE Opens(invs, s[i])
  <2>1. ASSUME NEW a \in invs, Follows(a, s[i]), ~\E x \in invs : Follows(a, x) /\ Follows(x, s[i])
        PROVE  ~a.error
    <3>1. PICK j \in 1..n : s[j] = a
      BY <1>1
    <3>2. Precedes(s, j, i) /\ j \in 1..(i - 1)
      BY <1>1, <1>3, <2>1, <3>1 DEF Precedes
    <3> QED BY <1>5, <3>1, <3>2 DEF StartsRun
  <2> QED BY <1>5, <2>1 DEF StartsRun, Opens
<1> QED BY <1>4, <1>5 DEF s

LEMMA ResolvesByPlace ==
    ASSUME NEW invs, Told(invs), NEW o \in 1..Cardinality(invs), NEW i \in 1..Cardinality(invs),
           StartsRun(InOrder(invs), o)
    PROVE  LET s == InOrder(invs) IN Resolves(invs, s[o], s[i]) <=> Closes(s, o, i)
<1> DEFINE s == InOrder(invs)
           n == Cardinality(invs)
           T == {x \in invs : Before(s[o], x) /\ Before(x, s[i])}
<1>1. /\ n \in Nat /\ s \in [1..n -> invs]
      /\ \A j, k \in 1..n : Before(s[j], s[k]) <=> j < k
      /\ \A x \in invs : \E j \in 1..n : s[j] = x
  BY InOrderSorts
<1>2. o < i => Cardinality(T) = i - o - 1
  BY BetweenCounts
<1>3. StartsRun(s, o)
  OBVIOUS
<1>7. SUFFICES Resolves(invs, s[o], s[i]) <=> Closes(s, o, i)
  OBVIOUS
<1> HIDE DEF s, T
<1>4. ASSUME NEW j \in 1..n, NEW k \in 1..n
      PROVE  Follows(s[j], s[k]) <=> SameFamily(s, j, k) /\ j < k
  BY <1>1 DEF Follows, SameFamily
<1>5. CASE ~(SameFamily(s, o, i) /\ o < i)
  <2>1. ~Follows(s[o], s[i])
    BY <1>4, <1>5
  <2>2. SameFamily(s, i, o) => o \notin 1..(i - 1)
    BY <1>5 DEF SameFamily
  <2> QED BY <2>1, <2>2 DEF Resolves, Closes, Standing
<1>6. CASE SameFamily(s, o, i) /\ o < i
  <2>1. (\A x \in invs : Follows(s[o], x) /\ Follows(x, s[i]) => x.error)
          <=> \A j \in (o + 1)..(i - 1) : SameFamily(s, j, o) => s[j].error
    <3>1. ASSUME \A x \in invs : Follows(s[o], x) /\ Follows(x, s[i]) => x.error,
                 NEW j \in (o + 1)..(i - 1), SameFamily(s, j, o)
          PROVE  s[j].error
      <4>1. j \in 1..n /\ o < j /\ j < i /\ SameFamily(s, o, j) /\ SameFamily(s, j, i)
        BY <1>1, <1>6, <3>1 DEF SameFamily
      <4>2. s[j] \in invs /\ Follows(s[o], s[j]) /\ Follows(s[j], s[i])
        BY <1>1, <1>4, <4>1
      <4> QED BY <3>1, <4>2
    <3>2. ASSUME \A j \in (o + 1)..(i - 1) : SameFamily(s, j, o) => s[j].error,
                 NEW x \in invs, Follows(s[o], x), Follows(x, s[i])
          PROVE  x.error
      <4>1. PICK j \in 1..n : s[j] = x
        BY <1>1
      <4>2. j \in (o + 1)..(i - 1) /\ SameFamily(s, j, o)
        BY <1>1, <1>4, <3>2, <4>1 DEF SameFamily
      <4> QED BY <3>2, <4>1, <4>2
    <3> QED BY <3>1, <3>2
  <2>2. o \in Standing(s, i - 1) <=> \A j \in (o + 1)..(i - 1) : SameFamily(s, j, o) => s[j].error
    BY <1>1, <1>3, <1>6 DEF Standing
  <2>3. Cardinality(T) + 2 <= MaxSteps <=> i - o + 1 <= MaxSteps
    BY <1>1, <1>2, <1>6, EpisodesAssumption
  <2>4. Follows(s[o], s[i]) /\ SameFamily(s, i, o)
    BY <1>4, <1>6 DEF SameFamily
  <2>5. Closes(s, o, i) <=> /\ ~s[i].error
                            /\ \A j \in (o + 1)..(i - 1) : SameFamily(s, j, o) => s[j].error
                            /\ WithinBudget(s, o, i)
    BY <2>2, <2>4 DEF Closes
  <2>6. Resolves(invs, s[o], s[i]) <=>
            /\ ~s[i].error
            /\ \A x \in invs : Follows(s[o], x) /\ Follows(x, s[i]) => x.error
            /\ Cardinality(T) + 2 <= MaxSteps
            /\ s[o].at # NoTime /\ s[i].at # NoTime => s[i].at - s[o].at <= MaxGap
    BY <2>4 DEF Resolves, T
  <2> QED BY <2>1, <2>3, <2>5, <2>6 DEF WithinBudget
<1> QED BY <1>5, <1>6

\* The projection of episodes and struggles that the rows of failure_episodes tell:
\* the keys of the opening and of the resolving call.
ToldEpisode(x) ==
    [open |-> [entry |-> x.entry, ord |-> x.ord],
     fix |-> IF x.fix = NoFix THEN {} ELSE {[entry |-> x.fix.entry, ord |-> x.fix.ord]}]
ToldStruggle(t) ==
    [open |-> [entry |-> t.open.entry, ord |-> t.open.ord],
     fix |-> {[entry |-> b.entry, ord |-> b.ord] : b \in t.fix}]

LEMMA EpisodeIsStruggle ==
    ASSUME NEW invs, Told(invs), NEW o \in 1..Cardinality(invs), StartsRun(InOrder(invs), o)
    PROVE  LET s == InOrder(invs) n == Cardinality(invs) IN
           ToldEpisode(Episode(s, o, FixOf(s, n, o)))
             = ToldStruggle([open |-> s[o], fix |-> {b \in invs : Resolves(invs, s[o], b)}])
<1> DEFINE s == InOrder(invs)
           n == Cardinality(invs)
           fixes == {b \in invs : Resolves(invs, s[o], b)}
           fix == FixOf(s, n, o)
<1>1. /\ n \in Nat /\ s \in [1..n -> invs] /\ Listing(s, n)
      /\ \A x \in invs : \E j \in 1..n : s[j] = x
  BY InOrderSorts, OrderIsListing
<1>2. \A i \in 1..n : Resolves(invs, s[o], s[i]) <=> i \in ClosersOf(s, n, o)
  BY ResolvesByPlace DEF ClosersOf
<1>3. ASSUME NEW i \in 1..n, o < i
      PROVE  /\ Fix(s, o, i) # NoFix
             /\ Fix(s, o, i).entry = s[i].entry /\ Fix(s, o, i).ord = s[i].ord
  BY <1>3, FixIsRecord
<1> HIDE DEF s, n
<1>4. (IF fix = NoFix THEN {} ELSE {[entry |-> fix.entry, ord |-> fix.ord]})
        = {[entry |-> b.entry, ord |-> b.ord] : b \in fixes}
  <2>1. CASE ClosersOf(s, n, o) = {}
    <3>1. fixes = {}
      BY <1>1, <1>2, <2>1
    <3>2. fix = NoFix
      BY <2>1 DEF FixOf
    <3> QED BY <3>1, <3>2
  <2>2. CASE ClosersOf(s, n, o) # {}
    <3> DEFINE i == AnyOf(ClosersOf(s, n, o))
    <3>1. i \in ClosersOf(s, n, o)
      BY <2>2 DEF AnyOf
    <3>2. fix = Fix(s, o, i)
      BY <2>2 DEF FixOf
    <3> HIDE DEF i, fix
    <3>3. i \in 1..n /\ o < i
      BY <1>1, <3>1 DEF ClosersOf, Closes, Standing
    <3>4. fixes = {s[i]}
      <4>1. s[i] \in fixes
        BY <1>1, <1>2, <3>1, <3>3
      <4>2. ASSUME NEW b \in fixes PROVE b = s[i]
        <5>1. PICK j \in 1..n : s[j] = b
          BY <1>1
        <5>2. j \in ClosersOf(s, n, o)
          BY <1>2, <5>1
        <5>4. o \in 1..n
          BY DEF n
        <5>3. j = i
          BY <1>1, <3>1, <5>2, <5>4, OneCloser
        <5> QED BY <5>1, <5>3
      <4> QED BY <4>1, <4>2
    <3>5. fix # NoFix /\ fix.entry = s[i].entry /\ fix.ord = s[i].ord
      BY <1>3, <3>2, <3>3
    <3> HIDE DEF fixes
    <3> QED BY <3>4, <3>5
  <2> QED BY <2>1, <2>2
<1> HIDE DEF fix, fixes
<1>5. /\ Episode(s, o, fix).entry = s[o].entry /\ Episode(s, o, fix).ord = s[o].ord
      /\ Episode(s, o, fix).fix = fix
  BY DEF Episode
<1>6. ToldEpisode(Episode(s, o, fix)) = ToldStruggle([open |-> s[o], fix |-> fixes])
  BY <1>4, <1>5 DEF ToldEpisode, ToldStruggle
<1> QED BY <1>6 DEF s, n, fix, fixes

\* assembleSession finds exactly the struggles: one scan, with at most one episode
\* open for each family, tells what the definition says of all invocations at once.
THEOREM EpisodesTellStruggles ==
    ASSUME NEW invs, Told(invs)
    PROVE  {ToldEpisode(x) : x \in AssembleEpisodes(invs)} = {ToldStruggle(t) : t \in Struggles(invs)}
<1> DEFINE s == InOrder(invs)
           n == Cardinality(invs)
           ep(o) == Episode(s, o, FixOf(s, n, o))
           st(a) == [open |-> a, fix |-> {b \in invs : Resolves(invs, a, b)}]
<1>1. AssembleEpisodes(invs) = {ep(o) : o \in {i \in 1..n : StartsRun(s, i)}}
  BY EpisodesByPlace
<1>2. Struggles(invs) = {st(a) : a \in {x \in invs : Opens(invs, x)}}
  BY StrugglesNamed
<1>3. \A o \in 1..n : StartsRun(s, o) => ToldEpisode(ep(o)) = ToldStruggle(st(s[o]))
  BY EpisodeIsStruggle
<1>4. \A o \in 1..n : Opens(invs, s[o]) <=> StartsRun(s, o)
  BY OpensByPlace
<1>5. s \in [1..n -> invs] /\ \A x \in invs : \E j \in 1..n : s[j] = x
  BY InOrderSorts
<1> HIDE DEF ep, st, s, n
<1>6. ASSUME NEW x \in AssembleEpisodes(invs)
      PROVE  \E t \in Struggles(invs) : ToldEpisode(x) = ToldStruggle(t)
  <2>1. PICK o \in 1..n : StartsRun(s, o) /\ x = ep(o)
    BY <1>1
  <2> QED BY <1>2, <1>3, <1>4, <1>5, <2>1
<1>7. ASSUME NEW t \in Struggles(invs)
      PROVE  \E x \in AssembleEpisodes(invs) : ToldEpisode(x) = ToldStruggle(t)
  <2>1. PICK a \in invs : Opens(invs, a) /\ t = st(a)
    BY <1>2
  <2>2. PICK o \in 1..n : s[o] = a
    BY <1>5
  <2> QED BY <1>1, <1>3, <1>4, <2>1, <2>2
<1> HIDE DEF ToldEpisode, ToldStruggle
<1> QED BY <1>6, <1>7
=============================================================================
