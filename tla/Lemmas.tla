------------------------------- MODULE Lemmas -------------------------------
(***************************************************************************)
(* Facts about sequences and numbers that the proofs of the other modules  *)
(* cite.  None is about the system.                                        *)
(***************************************************************************)
EXTENDS Integers, Sequences, SequencesExt, FiniteSetsExt, SequenceTheorems,
        FiniteSetTheorems,
        WellFoundedInduction, TLAPS

(* A non-empty set of naturals has a least member: what stands in for
   induction in these proofs. *)
Less == {p \in Nat \X Nat : p[1] < p[2]}

LEMMA LeastNatural ==
  ASSUME NEW T, T \subseteq Nat, T # {}
  PROVE  \E x \in T : \A y \in T : x <= y
<1>1. IsWellFoundedOn(Less, Nat)
  BY NatLessThanWellFounded, Zenon DEF OpToRel, Less
<1>2. \E x \in T : \A y \in T : ~(<<y, x>> \in Less)
  BY <1>1, WFMin
<1>3. \A x, y \in T : ~(<<y, x>> \in Less) => x <= y
  BY DEF Less
<1>. QED
  BY <1>2, <1>3

(* Max of three naturals bounds each of them. *)
LEMMA MaxOfThree ==
  ASSUME NEW a \in Nat, NEW b \in Nat, NEW c \in Nat
  PROVE  /\ Max({a, b, c}) \in Nat
         /\ Max({a, b, c}) >= a
         /\ Max({a, b, c}) >= b
         /\ Max({a, b, c}) >= c
<1>1. \E x \in {a, b, c} : \A y \in {a, b, c} : x >= y
  OBVIOUS
<1>. QED
  BY <1>1 DEF Max

(* A sequence of one element, and its only index. *)
LEMMA Singleton ==
  ASSUME NEW S, NEW e \in S
  PROVE  /\ <<e>> \in Seq(S)
         /\ Len(<<e>>) = 1
         /\ <<e>>[1] = e
OBVIOUS

(* Cutting a sequence keeps its elements. *)
LEMMA Prefix ==
  ASSUME NEW S, NEW s \in Seq(S), NEW m \in Nat, m <= Len(s)
  PROVE  /\ SubSeq(s, 1, m) \in Seq(S)
         /\ Len(SubSeq(s, 1, m)) = m
         /\ \A n \in 1..m : SubSeq(s, 1, m)[n] = s[n]
<1>1. \A n \in 1..m : s[n] \in S
  BY ElementOfSeq, LenProperties
<1>. QED
  BY <1>1, SubSeqProperties

(* The last element of a sequence, and what is before it. *)
LEMMA FrontLast ==
  ASSUME NEW S, NEW s \in Seq(S), s # <<>>
  PROVE  /\ Front(s) \in Seq(S)
         /\ Last(s) \in S
         /\ Last(s) = s[Len(s)]
         /\ Len(s) \in Nat \ {0}
         /\ Len(Front(s)) = Len(s) - 1
         /\ \A n \in 1..Len(s) - 1 : Front(s)[n] = s[n]
<1>1. Len(s) \in Nat \ {0}
  BY EmptySeq, LenProperties
<1>2. Last(s) = s[Len(s)] /\ Last(s) \in S
  BY ElementOfSeq, <1>1 DEF Last
<1>. DEFINE m == Len(s) - 1
<1>3. m \in Nat /\ m <= Len(s) /\ Front(s) = SubSeq(s, 1, m)
  BY <1>1 DEF Front
<1>. HIDE DEF m
<1>4. /\ Front(s) \in Seq(S)
      /\ Len(Front(s)) = m
      /\ \A n \in 1..m : Front(s)[n] = s[n]
  BY <1>3, Prefix
<1>. QED
  BY <1>1, <1>2, <1>4 DEF m

(* A sequence of two. *)
LEMMA TwoElements ==
  ASSUME NEW S, NEW a \in S, NEW b \in S
  PROVE  /\ <<a>> \o <<b>> = <<a, b>>
         /\ <<a, b>> \in Seq(S)
         /\ Len(<<a, b>>) = 2 /\ <<a, b>>[1] = a /\ <<a, b>>[2] = b
<1>1. <<a, b>> \in Seq(S) /\ Len(<<a, b>>) = 2 /\ <<a, b>>[1] = a /\ <<a, b>>[2] = b
  OBVIOUS
<1>2. <<a>> \in Seq(S) /\ <<b>> \in Seq(S)
      /\ Len(<<a>>) = 1 /\ Len(<<b>>) = 1 /\ <<a>>[1] = a /\ <<b>>[1] = b
  BY Singleton
<1>. DEFINE t == <<a>> \o <<b>>
<1>3. t \in Seq(S) /\ Len(t) = 2 /\ t[1] = a /\ t[2] = b
  BY <1>2, ConcatProperties
<1>4. t = <<a, b>>
  <2>1. Len(t) = Len(<<a, b>>) /\ \A n \in 1..Len(t) : t[n] = <<a, b>>[n]
    BY <1>1, <1>3
  <2>. HIDE DEF t
  <2>. QED
    BY <1>1, <1>3, <2>1, SeqEqual
<1>. QED
  BY <1>1, <1>4
(* A function may be iterated from a start as often as one likes. *)
Iterated(S, e, grow) ==
  \E f \in [Nat -> S] : f[0] = e /\ \A n \in Nat : f[n + 1] = grow[f[n]]

LEMMA Iterates ==
  ASSUME NEW S, NEW e \in S, NEW grow \in [S -> S]
  PROVE  Iterated(S, e, grow)
<1>. DEFINE Upto(h, n) == /\ h \in [0..n -> S]
                          /\ h[0] = e
                          /\ \A m \in 0..n - 1 : h[m + 1] = grow[h[m]]
            Stuck == {n \in Nat : ~\E h : Upto(h, n)}
<1>1. Stuck = {}
  <2>1. SUFFICES ASSUME Stuck # {} PROVE FALSE
    OBVIOUS
  <2>2. PICK n \in Stuck : \A y \in Stuck : n <= y
    BY <2>1, LeastNatural
  <2>3. CASE n = 0
    <3>1. Upto([m \in 0..0 |-> e], 0)
      OBVIOUS
    <3>. QED
      BY <2>2, <2>3, <3>1
  <2>4. CASE n # 0
    <3>0. n \in Nat
      OBVIOUS
    <3>. HIDE DEF Stuck
    <3>1. n - 1 \in Nat /\ n - 1 \notin Stuck
      BY <2>2, <2>4, <3>0
    <3>2. PICK h : Upto(h, n - 1)
      BY <3>1 DEF Stuck
    <3>. DEFINE more == [m \in 0..n |-> IF m = n THEN grow[h[n - 1]] ELSE h[m]]
    <3>3. more \in [0..n -> S] /\ more[0] = e
      BY <3>0, <3>1, <3>2, <2>4
    <3>4. \A m \in 0..n - 1 : more[m + 1] = grow[more[m]]
      BY <3>0, <3>1, <3>2
    <3>5. Upto(more, n)
      BY <3>3, <3>4
    <3>. QED
      BY <3>5, <2>2 DEF Stuck
  <2>. QED
    BY <2>3, <2>4
<1>2. ASSUME NEW g, NEW h, NEW n \in Nat, NEW m \in Nat, n <= m, Upto(g, n), Upto(h, m)
      PROVE  \A k \in 0..n : g[k] = h[k]
  <2>. DEFINE Differ == {k \in 0..n : g[k] # h[k]}
  <2>1. SUFFICES ASSUME Differ # {} PROVE FALSE
    OBVIOUS
  <2>2. PICK k \in Differ : \A y \in Differ : k <= y
    <3>1. Differ \subseteq Nat
      OBVIOUS
    <3>. QED
      BY <2>1, <3>1, LeastNatural
  <2>3. k # 0
    BY <1>2, <2>2
  <2>4. k - 1 \in 0..n - 1 /\ k - 1 \notin Differ
    BY <2>2, <2>3
  <2>5. g[k - 1] = h[k - 1] /\ k - 1 \in 0..m - 1
    BY <2>4, <1>2
  <2>6. g[(k - 1) + 1] = grow[g[k - 1]] /\ h[(k - 1) + 1] = grow[h[k - 1]]
    BY <2>4, <2>5, <1>2
  <2>7. (k - 1) + 1 = k
    BY <2>2
  <2>. QED
    BY <2>2, <2>5, <2>6, <2>7
<1>. DEFINE Part(n) == CHOOSE h : Upto(h, n)
            f == [n \in Nat |-> Part(n)[n]]
<1>3. \A n \in Nat : Upto(Part(n), n)
  BY <1>1
<1>. HIDE DEF Part
<1>. DEFINE Agree(n, m) == \A k \in 0..n : Part(n)[k] = Part(m)[k]
<1>6. ASSUME NEW n \in Nat, NEW m \in Nat, n <= m PROVE Agree(n, m)
  <2>1. Upto(Part(n), n) /\ Upto(Part(m), m)
    BY <1>3
  <2>. HIDE DEF Upto
  <2>. QED
    BY <1>2, <1>6, <2>1
<1>4. f \in [Nat -> S] /\ f[0] = e
  BY <1>3
<1>5. ASSUME NEW n \in Nat PROVE f[n + 1] = grow[f[n]]
  <2>1. n + 1 \in Nat /\ n <= n + 1 /\ n \in 0..n /\ n \in 0..(n + 1) - 1
    OBVIOUS
  <2>2. Upto(Part(n), n) /\ Upto(Part(n + 1), n + 1)
    BY <1>3, <2>1
  <2>3. Part(n)[n] = Part(n + 1)[n]
    BY <1>6, <2>1
  <2>4. Part(n + 1)[n + 1] = grow[Part(n + 1)[n]]
    BY <2>1, <2>2
  <2>. QED
    BY <2>1, <2>3, <2>4
<1>. QED
  BY <1>4, <1>5 DEF Iterated

(* A definition by recursion: what rule[f] says of x depends on f only below
   x in rank. *)
Recursive(D, V, rank, rule) ==
  /\ rank \in [D -> Nat]
  /\ rule \in [[D -> V] -> [D -> V]]
  /\ \A x \in D : \A g, h \in [D -> V] :
       (\A y \in D : rank[y] < rank[x] => g[y] = h[y]) => rule[g][x] = rule[h][x]

Solvable(D, V, rule) == \E f \in [D -> V] : f = rule[f]

(* It has a solution. *)
LEMMA Recursion ==
  ASSUME NEW D, NEW V, V # {}, NEW rank, NEW rule, Recursive(D, V, rank, rule)
  PROVE  Solvable(D, V, rule)
<1>. PICK v0 \in V : TRUE
  OBVIOUS
<1>. USE DEF Recursive, Solvable
<1>1. PICK S : S = [D -> V]
  OBVIOUS
<1>2. PICK f \in [Nat -> S] : \A n \in Nat : f[n + 1] = rule[f[n]]
  <2>0. PICK e : e = [x \in D |-> v0]
    OBVIOUS
  <2>1. e \in S
    BY <1>1, <2>0
  <2>2. rule \in [S -> S]
    BY <1>1
  <2>3. Iterated(S, e, rule)
    BY <2>1, <2>2, Iterates
  <2>. QED
    BY <2>3 DEF Iterated
<1>. DEFINE Settled(r) == \A x \in D : \A n, m \in Nat :
                            rank[x] = r /\ n > r /\ m > r => f[n][x] = f[m][x]
            Open == {r \in Nat : ~Settled(r)}
<1>3. Open = {}
  <2>1. SUFFICES ASSUME Open # {} PROVE FALSE
    OBVIOUS
  <2>2. PICK r \in Open : \A y \in Open : r <= y
    BY <2>1, LeastNatural
  <2>3. \A s \in Nat : s < r => Settled(s)
    BY <2>2
  <2>. HIDE DEF Open
  <2>4. ASSUME NEW x \in D, NEW n \in Nat, NEW m \in Nat, rank[x] = r, n > r, m > r
        PROVE  f[n][x] = f[m][x]
    <3>1. r \in Nat
      BY <2>4
    <3>2. n - 1 \in Nat /\ m - 1 \in Nat /\ n - 1 >= r /\ m - 1 >= r
      BY <2>4, <3>1
    <3>3. f[n - 1] \in [D -> V] /\ f[m - 1] \in [D -> V]
      BY <3>2, <1>1, <1>2
    <3>4. f[(n - 1) + 1] = rule[f[n - 1]] /\ f[(m - 1) + 1] = rule[f[m - 1]]
      BY <3>2, <1>1, <1>2
    <3>5. (n - 1) + 1 = n /\ (m - 1) + 1 = m
      OBVIOUS
    <3>6. ASSUME NEW y \in D, rank[y] < rank[x] PROVE f[n - 1][y] = f[m - 1][y]
      <4>1. rank[y] \in Nat /\ n - 1 > rank[y] /\ m - 1 > rank[y] /\ rank[y] < r
        BY <3>1, <3>2, <3>6, <2>4
      <4>. QED
        BY <4>1, <3>2, <2>3
    <3>7. rule[f[n - 1]][x] = rule[f[m - 1]][x]
      BY <3>3, <3>6
    <3>. QED
      BY <3>4, <3>5, <3>7
  <2>5. Settled(r)
    BY <2>4
  <2>6. ~Settled(r)
    BY <2>2 DEF Open
  <2>. QED
    BY <2>5, <2>6
<1>4. \A x \in D : \A n, m \in Nat : n > rank[x] /\ m > rank[x] => f[n][x] = f[m][x]
  <2>1. \A r \in Nat : Settled(r)
    BY <1>3
  <2>. QED
    BY <2>1
<1>. HIDE DEF Open, Settled
<1>. DEFINE g == [x \in D |-> f[rank[x] + 1][x]]
<1>5. g \in [D -> V]
  <2>1. \A x \in D : rank[x] + 1 \in Nat
    OBVIOUS
  <2>. QED
    BY <2>1, <1>1, <1>2
<1>6. ASSUME NEW x \in D PROVE g[x] = rule[g][x]
  <2>1. rank[x] \in Nat /\ f[rank[x]] \in [D -> V] /\ f[rank[x] + 1] = rule[f[rank[x]]]
    BY <1>1, <1>2
  <2>2. ASSUME NEW y \in D, rank[y] < rank[x] PROVE g[y] = f[rank[x]][y]
    <3>1. rank[y] \in Nat /\ rank[y] + 1 \in Nat /\ rank[y] + 1 > rank[y]
      OBVIOUS
    <3>2. f[rank[y] + 1][y] = f[rank[x]][y]
      BY <1>4, <2>1, <2>2, <3>1
    <3>. QED
      BY <3>2
  <2>. HIDE DEF g
  <2>3. rule[g][x] = rule[f[rank[x]]][x]
    BY <2>1, <2>2, <1>5
  <2>4. g[x] = f[rank[x] + 1][x]
    BY DEF g
  <2>. QED
    BY <2>1, <2>3, <2>4
<1>. HIDE DEF g
<1>7. rule[g] \in [D -> V]
  BY <1>5
<1>8. g = rule[g]
  BY <1>5, <1>6, <1>7
<1>. QED
  BY <1>5, <1>8

(* What follows for x from all of lower rank holds of every x. *)
LEMMA RankInduction ==
  ASSUME NEW D, NEW rank \in [D -> Nat], NEW P,
         \A x \in D : (\A y \in D : rank[y] < rank[x] => y \in P) => x \in P
  PROVE  D \subseteq P
<1>. DEFINE Bad == {rank[x] : x \in D \ P}
<1>1. SUFFICES ASSUME Bad # {} PROVE FALSE
  OBVIOUS
<1>2. Bad \subseteq Nat
  OBVIOUS
<1>3. PICK r \in Bad : \A s \in Bad : r <= s
  BY <1>1, <1>2, LeastNatural
<1>4. PICK x \in D \ P : rank[x] = r
  OBVIOUS
<1>5. ASSUME NEW y \in D, rank[y] < rank[x], y \notin P PROVE FALSE
  <2>1. rank[y] \in Bad /\ rank[y] \in Nat /\ r \in Nat
    BY <1>2, <1>5
  <2>2. rank[y] < r /\ r <= rank[y]
    BY <2>1, <1>3, <1>4, <1>5
  <2>. QED
    BY <2>1, <2>2
<1>. QED
  BY <1>4, <1>5

(* A finite set of numbers has a greatest one. *)
LEMMA MaxOfFinite ==
  ASSUME NEW S \in SUBSET Nat, IsFiniteSet(S), S # {}
  PROVE  Max(S) \in S /\ \A y \in S : y <= Max(S)
<1>. DEFINE Greatest(T) == \E m \in T : \A y \in T : y <= m
            Bad == {T \in SUBSET Nat : IsFiniteSet(T) /\ T # {} /\ ~Greatest(T)}
            sizes == {Cardinality(T) : T \in Bad}
<1>1. Greatest(S)
  <2>1. SUFFICES ASSUME S \in Bad PROVE FALSE
    OBVIOUS
  <2>2. sizes \subseteq Nat /\ sizes # {}
    BY <2>1, FS_CardinalityType
  <2>3. PICK n \in sizes : \A m \in sizes : n <= m
    BY <2>2, LeastNatural
  <2>4. PICK T \in Bad : Cardinality(T) = n
    BY <2>3
  <2>5. PICK x \in T : TRUE
    BY <2>4
  <2>6. /\ IsFiniteSet(T \ {x}) /\ Cardinality(T \ {x}) = n - 1
        /\ n \in Nat
    BY <2>2, <2>4, <2>5, FS_RemoveElement
  <2>7. T \ {x} \notin Bad
    <3>1. Cardinality(T \ {x}) \notin sizes
      BY <2>3, <2>6
    <3>. QED
      BY <3>1
  <2>8. CASE T \ {x} = {}
    <3>1. x \in Nat /\ \A y \in T : y = x
      BY <2>4, <2>5, <2>8
    <3>2. Greatest(T)
      BY <3>1, <2>5
    <3>. QED
      BY <2>4, <3>2
  <2>9. CASE T \ {x} # {}
    <3>1. PICK m \in T \ {x} : \A y \in T \ {x} : y <= m
      BY <2>4, <2>6, <2>7, <2>9
    <3>2. x \in Nat /\ m \in Nat /\ T \subseteq Nat
      BY <2>4, <2>5, <3>1
    <3>3. CASE m <= x
      <4>1. \A y \in T : y <= x
        BY <3>1, <3>2, <3>3
      <4>. QED
        BY <2>4, <2>5, <4>1
    <3>4. CASE x <= m
      <4>1. \A y \in T : y <= m
        BY <3>1, <3>2, <3>4
      <4>. QED
        BY <2>4, <3>1, <4>1
    <3>. QED
      BY <3>2, <3>3, <3>4
  <2>. QED
    BY <2>8, <2>9
<1>2. \E m \in S : \A y \in S : m >= y
  BY <1>1
<1>. QED
  BY <1>2 DEF Max

LEMMA MinOfNaturals ==
  ASSUME NEW S \in SUBSET Nat, S # {}
  PROVE  Min(S) \in S /\ \A y \in S : Min(S) <= y
<1>1. \E m \in S : \A y \in S : m <= y
  BY LeastNatural
<1>. QED
  BY <1>1 DEF Min

(* Remainders: a word is its own, and a multiple of the modulus does not show. *)
LEMMA Division ==
  ASSUME NEW n \in Int, NEW m \in Nat \ {0}
  PROVE  /\ n = m * (n \div m) + (n % m)
         /\ n % m \in 0..m - 1 /\ n \div m \in Int
OBVIOUS

LEMMA OneRemainder ==
  ASSUME NEW m \in Nat \ {0}, NEW q \in Int, NEW r \in 0..m - 1,
         NEW p \in Int, NEW s \in 0..m - 1, m * q + r = m * p + s
  PROVE  r = s
<1>1. m * (q - p) = s - r
  OBVIOUS
<1>2. q - p >= 1 => m * (q - p) >= m
  OBVIOUS
<1>3. q - p <= -1 => m * (q - p) <= -m
  OBVIOUS
<1>4. q = p
  BY <1>1, <1>2, <1>3
<1>. QED
  BY <1>4

LEMMA Residue ==
  ASSUME NEW m \in Nat \ {0}, NEW q \in Int, NEW r \in 0..m - 1
  PROVE  (m * q + r) % m = r
<1>. DEFINE n == m * q + r
<1>1. n \in Int
  OBVIOUS
<1>. HIDE DEF n
<1>2. n = m * (n \div m) + (n % m) /\ n % m \in 0..m - 1 /\ n \div m \in Int
  BY <1>1, Division
<1>3. m * q + r = m * (n \div m) + (n % m)
  BY <1>2 DEF n
<1>4. r = n % m
  BY <1>2, <1>3, OneRemainder
<1>. QED
  BY <1>4 DEF n

LEMMA SameRemainder ==
  ASSUME NEW m \in Nat \ {0}, NEW n \in Int, NEW k \in Int
  PROVE  (n + m * k) % m = n % m
<1>1. n = m * (n \div m) + (n % m) /\ n % m \in 0..m - 1 /\ n \div m \in Int
  BY Division
<1>2. PICK q \in Int, r \in 0..m - 1 : n = m * q + r /\ r = n % m
  BY <1>1
<1>3. n + m * k = m * (q + k) + r /\ q + k \in Int
  BY <1>2
<1>4. (m * (q + k) + r) % m = r
  BY <1>3, Residue
<1>. QED
  BY <1>2, <1>3, <1>4

LEMMA WordItself ==
  ASSUME NEW m \in Nat \ {0}, NEW r \in 0..m - 1
  PROVE  r % m = r
<1>1. (m * 0 + r) % m = r /\ m * 0 + r = r
  BY Residue
<1>. QED
  BY <1>1

-----------------------------------------------------------------------------
(* The sum of 2^i over a finite set of bit positions, as the fold of the
   community modules defines it: a function on the subsets D. *)
PowersAdded(D, f) ==
  /\ f \in [D -> Int]
  /\ \A s \in D : f[s] = IF s = {} THEN 0
                      ELSE 2^(CHOOSE x \in s : TRUE) + f[s \ {CHOOSE x \in s : TRUE}]

LEMMA SumOfPowers ==
  ASSUME NEW S, IsFiniteSet(S), \A i \in S : 2^i \in Int,
         NEW D, D = SUBSET S,
         NEW f, f = CHOOSE g : g = [s \in D |->
                      IF s = {} THEN 0
                      ELSE 2^(CHOOSE x \in s : TRUE) + g[s \ {CHOOSE x \in s : TRUE}]]
  PROVE  PowersAdded(D, f)
<1>. DEFINE pick(s) == CHOOSE x \in s : TRUE
            next(g) == [s \in D |->
                          IF s = {} THEN 0 ELSE 2^pick(s) + g[s \ {pick(s)}]]
<1>1. \A s \in D : s # {} => pick(s) \in s /\ s \ {pick(s)} \in D /\ 2^pick(s) \in Int
  OBVIOUS
<1>2. f = CHOOSE g : g = next(g)
  BY DEF pick
<1>. HIDE DEF pick
<1>3. PICK rank : rank = [s \in D |-> Cardinality(s)]
  OBVIOUS
<1>4. rank \in [D -> Nat]
  <2>1. \A s \in D : Cardinality(s) \in Nat
    BY FS_Subset, FS_CardinalityType
  <2>. QED
    BY <2>1, <1>3
<1>5. \A s \in D : s # {} => rank[s \ {pick(s)}] < rank[s]
  <2>. SUFFICES ASSUME NEW s \in D, s # {}
                PROVE  rank[s \ {pick(s)}] < rank[s]
    OBVIOUS
  <2>1. IsFiniteSet(s) /\ pick(s) \in s /\ s \ {pick(s)} \in D
    BY <1>1, FS_Subset
  <2>2. Cardinality(s \ {pick(s)}) = Cardinality(s) - 1 /\ Cardinality(s) \in Nat
    BY <2>1, FS_RemoveElement, FS_CardinalityType
  <2>. QED
    BY <2>1, <2>2, <1>3
<1>6. PICK rule : rule = [g \in [D -> Int] |-> next(g)]
  OBVIOUS
<1>7. rule \in [[D -> Int] -> [D -> Int]]
  BY <1>1, <1>6
<1>8. ASSUME NEW s \in D, NEW g \in [D -> Int], NEW h \in [D -> Int],
             \A t \in D : rank[t] < rank[s] => g[t] = h[t]
      PROVE  rule[g][s] = rule[h][s]
  <2>1. s # {} => g[s \ {pick(s)}] = h[s \ {pick(s)}]
    BY <1>1, <1>5, <1>8
  <2>. QED
    BY <1>6, <2>1
<1>9. PICK g \in [D -> Int] : g = rule[g]
  <2>1. Recursive(D, Int, rank, rule)
    BY <1>4, <1>7, <1>8 DEF Recursive
  <2>2. Int # {}
    OBVIOUS
  <2>3. Solvable(D, Int, rule)
    BY <2>1, <2>2, Recursion
  <2>. QED
    BY <2>3 DEF Solvable
<1>10. f = next(f)
  <2>1. g = next(g)
    BY <1>6, <1>9
  <2>. HIDE DEF next
  <2>. QED
    BY <1>2, <2>1
<1>11. ASSUME NEW s \in D, s # {} PROVE f[s] = 2^pick(s) + f[s \ {pick(s)}]
  BY <1>10, <1>11
<1>. DEFINE P == {s \in D : f[s] \in Int}
<1>12. ASSUME NEW s \in D, \A t \in D : rank[t] < rank[s] => t \in P
       PROVE  s \in P
  <2>1. CASE s = {}
    <3>1. f[s] = 0
      BY <1>10, <2>1
    <3>. QED
      BY <3>1
  <2>2. CASE s # {}
    <3>1. f[s \ {pick(s)}] \in Int /\ 2^pick(s) \in Int
      BY <1>1, <1>5, <1>12, <2>2
    <3>2. f[s] = 2^pick(s) + f[s \ {pick(s)}]
      BY <1>11, <2>2
    <3>. QED
      BY <3>1, <3>2
  <2>. QED
    BY <2>1, <2>2
<1>13. D \subseteq P
  <2>. HIDE DEF P
  <2>. QED
    BY <1>4, <1>12, RankInduction
<1>14. f \in [D -> Int]
  <2>1. \A s \in D : f[s] \in Int
    BY <1>13
  <2>2. f = [s \in D |-> IF s = {} THEN 0 ELSE 2^pick(s) + f[s \ {pick(s)}]]
    BY <1>10
  <2>. HIDE DEF P, next
  <2>. QED
    BY <2>1, <2>2
<1>. QED
  BY <1>10, <1>14 DEF PowersAdded, pick

(* Any element may be taken first. *)
LEMMA AnyPowerFirst ==
  ASSUME NEW S, IsFiniteSet(S), \A i \in S : 2^i \in Int,
         NEW f, PowersAdded(SUBSET S, f), NEW s \in SUBSET S, NEW x \in s
  PROVE  f[s] = 2^x + f[s \ {x}]
<1>. DEFINE D == SUBSET S
            P == {t \in D : \A y \in t : f[t] = 2^y + f[t \ {y}]}
<1>1. PICK rank : rank = [t \in D |-> Cardinality(t)]
  OBVIOUS
<1>2. \A t \in D : IsFiniteSet(t) /\ Cardinality(t) \in Nat
  BY FS_Subset, FS_CardinalityType
<1>3. rank \in [D -> Nat]
  BY <1>1, <1>2
<1>4. ASSUME NEW t \in D, NEW y \in t PROVE t \ {y} \in D /\ rank[t \ {y}] < rank[t]
  <2>1. Cardinality(t \ {y}) = Cardinality(t) - 1 /\ t \ {y} \in D
    BY <1>2, FS_RemoveElement
  <2>. QED
    BY <1>1, <1>2, <2>1
<1>5. ASSUME NEW t \in D, \A u \in D : rank[u] < rank[t] => u \in P PROVE t \in P
  <2>. SUFFICES ASSUME NEW y \in t PROVE f[t] = 2^y + f[t \ {y}]
    OBVIOUS
  <2>1. PICK z : z = CHOOSE w \in t : TRUE
    OBVIOUS
  <2>2. z \in t /\ f[t] = 2^z + f[t \ {z}]
    BY <2>1 DEF PowersAdded
  <2>3. CASE y = z
    BY <2>2, <2>3
  <2>4. CASE y # z
    <3>1. t \ {z} \in P /\ t \ {y} \in P
      BY <1>4, <1>5, <2>2
    <3>2. f[t \ {z}] = 2^y + f[(t \ {z}) \ {y}]
      BY <2>4, <3>1
    <3>3. f[t \ {y}] = 2^z + f[(t \ {y}) \ {z}]
      BY <2>2, <2>4, <3>1
    <3>4. PICK u \in D : u = (t \ {z}) \ {y} /\ u = (t \ {y}) \ {z}
      BY <1>4, <2>2
    <3>5. PICK i \in Int, j \in Int, k \in Int : i = f[u] /\ j = 2^y /\ k = 2^z
      BY <2>2 DEF PowersAdded
    <3>6. f[t \ {z}] = j + i /\ f[t \ {y}] = k + i
      BY <3>2, <3>3, <3>4, <3>5
    <3>7. f[t] = k + (j + i)
      BY <2>2, <3>5, <3>6
    <3>8. k + (j + i) = j + (k + i)
      BY <3>5
    <3>. QED
      BY <3>5, <3>6, <3>7, <3>8
  <2>. QED
    BY <2>3, <2>4
<1>6. D \subseteq P
  <2>. HIDE DEF P
  <2>. QED
    BY <1>3, <1>5, RankInduction
<1>. QED
  BY <1>6

(* Nor does the set they are taken to be members of. *)
LEMMA SumsAgree ==
  ASSUME NEW T, IsFiniteSet(T), NEW S \in SUBSET T,
         NEW f, PowersAdded(SUBSET S, f), NEW g, PowersAdded(SUBSET T, g)
  PROVE  \A s \in SUBSET S : f[s] = g[s]
<1>. DEFINE D == SUBSET S
            P == {t \in D : f[t] = g[t]}
<1>1. PICK rank : rank = [t \in D |-> Cardinality(t)]
  OBVIOUS
<1>2. \A t \in D : IsFiniteSet(t) /\ Cardinality(t) \in Nat
  BY FS_Subset, FS_CardinalityType
<1>3. rank \in [D -> Nat]
  BY <1>1, <1>2
<1>4. ASSUME NEW t \in D, \A u \in D : rank[u] < rank[t] => u \in P PROVE t \in P
  <2>1. t \in SUBSET T
    OBVIOUS
  <2>2. CASE t = {}
    BY <2>1, <2>2 DEF PowersAdded
  <2>3. CASE t # {}
    <3>1. PICK z : z = CHOOSE w \in t : TRUE
      OBVIOUS
    <3>2. z \in t /\ f[t] = 2^z + f[t \ {z}] /\ g[t] = 2^z + g[t \ {z}]
      BY <2>1, <2>3, <3>1 DEF PowersAdded
    <3>3. Cardinality(t \ {z}) = Cardinality(t) - 1 /\ t \ {z} \in D
      BY <1>2, <3>2, FS_RemoveElement
    <3>4. rank[t \ {z}] < rank[t]
      BY <1>1, <1>2, <3>3
    <3>5. f[t \ {z}] = g[t \ {z}]
      BY <1>4, <3>3, <3>4
    <3>. QED
      BY <3>2, <3>5
  <2>. QED
    BY <2>2, <2>3
<1>5. D \subseteq P
  <2>. HIDE DEF P
  <2>. QED
    BY <1>3, <1>4, RankInduction
<1>. QED
  BY <1>5
=============================================================================
