-------------------------- MODULE AlgorithmsProofs --------------------------
(***************************************************************************)
(* That the division, shift and bit operations of both backends answer as  *)
(* arithmetic says for every pair of words, of any width, and that _tarjan *)
(* finds the strongly connected components of every graph, of any size.    *)
(***************************************************************************)
EXTENDS MCAlgorithms, Lemmas

-----------------------------------------------------------------------------
(* The operations on integers, in a word of m values. *)
Fits(n, m) == -m <= 2 * n /\ 2 * n < m

LEMMA SignedFits ==
  ASSUME NEW m \in Nat \ {0}, NEW n \in Int
  PROVE  /\ Signed(n, m) \in Int /\ Fits(Signed(n, m), m)
         /\ \E k \in Int : Signed(n, m) = n + k * m
<1>1. n = m * (n \div m) + (n % m) /\ n % m \in 0..m - 1 /\ n \div m \in Int
  BY Division
<1>2. PICK q \in Int, r \in 0..m - 1 : n = m * q + r /\ r = n % m
  BY <1>1
<1>3. PICK h \in Int, l \in Int : h = -q /\ l = -q - 1
  OBVIOUS
<1>4. PICK z \in Int : z = m * q
  OBVIOUS
<1>7. h * m = -z /\ l * m = -z - m
  BY <1>3, <1>4
<1>8. n = z + r
  BY <1>2, <1>4
<1>5. r = n + h * m /\ r - m = n + l * m
  BY <1>7, <1>8
<1>6. Signed(n, m) = IF 2 * r >= m THEN r - m ELSE r
  BY <1>2 DEF Signed
<1>. QED
  BY <1>5, <1>6 DEF Fits

LEMMA FittingIsSigned ==
  ASSUME NEW m \in Nat \ {0}, NEW n \in Int, Fits(n, m), NEW k \in Int
  PROVE  Signed(n + m * k, m) = n
<1>1. (n + m * k) % m = n % m
  BY SameRemainder
<1>2. CASE n >= 0
  <2>1. n \in 0..m - 1 /\ ~(2 * n >= m)
    BY <1>2 DEF Fits
  <2>2. n % m = n
    BY <2>1, WordItself
  <2>. QED
    BY <1>1, <2>1, <2>2 DEF Signed
<1>3. CASE n < 0
  <2>1. n + m \in 0..m - 1 /\ 2 * (n + m) >= m /\ (n + m) - m = n
    BY <1>3 DEF Fits
  <2>2. PICK one \in Int : one = 1
    OBVIOUS
  <2>3. (n + m * one) % m = n % m
    BY SameRemainder
  <2>4. (n + m) % m = n + m
    BY <2>1, WordItself
  <2>5. n + m * one = n + m
    BY <2>2
  <2>6. n % m = n + m
    BY <2>3, <2>4, <2>5
  <2>. QED
    BY <1>1, <2>1, <2>6 DEF Signed
<1>. QED
  BY <1>2, <1>3

-----------------------------------------------------------------------------
(* Division toward zero, in magnitudes. *)
Truncated(a, b, q, r) ==
  /\ Magnitude(a) = Magnitude(b) * q + r
  /\ r < Magnitude(b)
  /\ Quotient(a, b) = IF (a < 0) = (b < 0) THEN q ELSE -q
  /\ a - b * Quotient(a, b) = IF a < 0 THEN -r ELSE r

LEMMA QuotientTruncates ==
  ASSUME NEW a \in Int, NEW b \in Int, b # 0
  PROVE  \E q \in Nat, r \in Nat : Truncated(a, b, q, r)
<1>1. PICK n \in Nat, p \in Nat \ {0} : n = Magnitude(a) /\ p = Magnitude(b)
  BY DEF Magnitude
<1>2. n = p * (n \div p) + (n % p) /\ n % p \in 0..p - 1 /\ n \div p \in Int
  BY Division
<1>3. PICK q \in Int, r \in 0..p - 1 : n = p * q + r /\ q = n \div p
  BY <1>2
<1>4. q \in Nat
  <2>1. q <= -1 => p * q <= -p
    OBVIOUS
  <2>. QED
    BY <1>3, <2>1
<1>5. Quotient(a, b) = IF (a < 0) = (b < 0) THEN q ELSE -q
  BY <1>1, <1>3 DEF Quotient
<1>6. a - b * Quotient(a, b) = IF a < 0 THEN -r ELSE r
  <2>1. CASE a < 0 /\ b < 0
    <3>1. n = -a /\ p = -b /\ Quotient(a, b) = q
      BY <1>1, <1>5, <2>1 DEF Magnitude
    <3>2. PICK z \in Int : z = p * q /\ b * q = -z
      <4>1. p * q \in Int /\ b * q = -(p * q)
        BY <3>1
      <4>. QED
        BY <4>1
    <3>4. n = z + r
      BY <1>3, <3>2
    <3>3. a - b * q = -r
      BY <3>1, <3>2, <3>4
    <3>. QED
      BY <2>1, <3>1, <3>3
  <2>2. CASE a < 0 /\ ~(b < 0)
    <3>1. n = -a /\ p = b /\ Quotient(a, b) = -q
      BY <1>1, <1>5, <2>2 DEF Magnitude
    <3>2. b * (-q) = -(p * q)
      BY <3>1
    <3>3. a - b * (-q) = -r
      BY <1>3, <3>1, <3>2
    <3>. QED
      BY <2>2, <3>1, <3>3
  <2>3. CASE ~(a < 0) /\ b < 0
    <3>1. n = a /\ p = -b /\ Quotient(a, b) = -q
      BY <1>1, <1>5, <2>3 DEF Magnitude
    <3>2. b * (-q) = p * q
      BY <3>1
    <3>3. a - b * (-q) = r
      BY <1>3, <3>1, <3>2
    <3>. QED
      BY <2>3, <3>1, <3>3
  <2>4. CASE ~(a < 0) /\ ~(b < 0)
    <3>1. n = a /\ p = b /\ Quotient(a, b) = q
      BY <1>1, <1>5, <2>4 DEF Magnitude
    <3>2. a - b * q = r
      BY <1>3, <3>1
    <3>. QED
      BY <2>4, <3>1, <3>2
  <2>. QED
    BY <2>1, <2>2, <2>3, <2>4
<1>7. Truncated(a, b, q, r)
  BY <1>1, <1>3, <1>5, <1>6 DEF Truncated
<1>. QED
  BY <1>4, <1>7

(* The one quotient that does not fit. *)
LEMMA QuotientFits ==
  ASSUME NEW m \in Nat \ {0}, NEW a \in Int, NEW b \in Int, b # 0, Fits(a, m),
         NEW q \in Nat, NEW r \in Nat, Truncated(a, b, q, r)
  PROVE  /\ Fits(Quotient(a, b), m) <=> ~(2 * a = -m /\ b = -1)
         /\ Quotient(a, b) \in Int
<1>1. PICK n \in Nat, p \in Nat \ {0} : n = Magnitude(a) /\ p = Magnitude(b)
  BY DEF Magnitude
<1>2. n = p * q + r /\ r < p /\ Quotient(a, b) = IF (a < 0) = (b < 0) THEN q ELSE -q
  BY <1>1 DEF Truncated
<1>3. p * q >= q /\ (p >= 2 => p * q >= 2 * q)
  OBVIOUS
<1>4. 2 * n <= m /\ (2 * n = m => 2 * a = -m) /\ (2 * a = -m => 2 * n = m /\ a < 0)
  BY <1>1 DEF Fits, Magnitude
<1>5. (b = -1 => p = 1 /\ b < 0) /\ (b < 0 /\ p = 1 => b = -1)
  BY <1>1 DEF Magnitude
<1>6. q <= n
  BY <1>2, <1>3
<1>7. CASE 2 * q = m
  <2>1. 2 * n = m /\ n = q /\ q > 0
    BY <1>4, <1>6, <1>7
  <2>2. p = 1
    BY <1>2, <1>3, <2>1
  <2>3. 2 * a = -m /\ a < 0
    BY <1>4, <2>1
  <2>. QED
    BY <1>2, <1>5, <1>7, <2>2, <2>3 DEF Fits
<1>8. CASE 2 * q # m
  <2>1. 2 * q < m
    BY <1>4, <1>6, <1>8
  <2>2. Quotient(a, b) \in Int /\ Fits(Quotient(a, b), m)
    BY <1>2, <2>1 DEF Fits
  <2>3. ~(2 * a = -m /\ b = -1)
    <3>1. SUFFICES ASSUME 2 * a = -m, b = -1 PROVE FALSE
      OBVIOUS
    <3>2. p = 1 /\ 2 * n = m
      BY <1>4, <1>5, <3>1
    <3>3. n = q
      BY <1>2, <3>2
    <3>. QED
      BY <1>8, <3>2, <3>3
  <2>. QED
    BY <2>2, <2>3
<1>. QED
  BY <1>7, <1>8

LEMMA OperandsFit ==
  OpsInit => /\ left \in Int /\ Fits(left, M32) /\ right \in Int /\ Fits(right, M32)
             /\ known \in Validity
<1>1. M32 \in Nat \ {0}
  BY WordAssumption
<1>. HIDE DEF M32
<1>2. \A w \in 0..M32 - 1 : AsI32(w) \in Int /\ Fits(AsI32(w), M32)
  BY <1>1, SignedFits DEF AsI32
<1>. QED
  BY <1>2 DEF OpsInit

(* The operands are what they were. *)
LEMMA OperandsKept ==
  ASSUME [AlgorithmsNext]_algorithmVars
  PROVE  UNCHANGED <<left, right, known>>
BY DEF AlgorithmsNext, algorithmVars

LEMMA DivisionAnswers == OpsInit => DivisionIsTotal
<1>. SUFFICES ASSUME OpsInit PROVE DivisionIsTotal
  OBVIOUS
<1>1. PICK m \in Nat \ {0} : m = M32
  BY WordAssumption
<1>2. PICK a \in Int, b \in Int : a = left /\ b = right /\ Fits(a, m) /\ Fits(b, m)
  BY <1>1, OperandsFit
<1>. HIDE DEF M32
<1>3. PICK d : d = Div(a, b, known, m)
  OBVIOUS
<1>4. PICK e : e = Rem(a, b, known, m)
  OBVIOUS
<1>5. CASE b = 0
  <2>1. d = <<0, INVALID>> /\ e = <<0, INVALID>>
    BY <1>3, <1>4, <1>5 DEF Div, Rem
  <2>2. InRange(0)
    BY <1>1 DEF InRange
  <2>. QED
    BY <1>1, <1>2, <1>3, <1>4, <1>5, <2>1, <2>2 DEF DivisionIsTotal
<1>6. CASE b # 0
  <2>1. PICK q \in Nat, r \in Nat : Truncated(a, b, q, r)
    BY <1>6, QuotientTruncates
  <2>2. /\ Fits(Quotient(a, b), m) <=> ~(2 * a = -m /\ b = -1)
        /\ Quotient(a, b) \in Int
    BY <1>2, <1>6, <2>1, QuotientFits
  <2>3. PICK t \in Int : t = Quotient(a, b)
    BY <2>2
  <2>4. a - b * t = (IF a < 0 THEN -r ELSE r) /\ r < Magnitude(b)
    BY <2>1, <2>3 DEF Truncated
  <2>5. PICK s \in Int : s = a - b * t /\ a = b * t + s
    <3>1. a - b * t \in Int /\ a = b * t + (a - b * t)
      OBVIOUS
    <3>. QED
      BY <3>1
  <2>6. Magnitude(s) < Magnitude(b) /\ (s # 0 => (s < 0) = (a < 0))
    BY <2>4, <2>5 DEF Magnitude
  <2>7. Fits(s, m)
    <3>1. 2 * Magnitude(b) <= m /\ Magnitude(b) \in Nat
      BY <1>2 DEF Fits, Magnitude
    <3>. QED
      BY <2>6, <3>1 DEF Fits, Magnitude
  <2>8. CASE 2 * a = -m /\ b = -1
    <3>1. d = <<0, INVALID>> /\ e = <<0, known>>
      BY <1>3, <1>4, <1>6, <2>8 DEF Div, Rem
    <3>2. InRange(0) /\ ~InRange(t)
      BY <1>1, <2>2, <2>3, <2>8 DEF InRange, Fits
    <3>3. Magnitude(0) < Magnitude(b)
      BY <2>8 DEF Magnitude
    <3>. QED
      BY <1>1, <1>2, <1>3, <1>4, <1>6, <2>3, <3>1, <3>2, <3>3 DEF DivisionIsTotal
  <2>9. CASE ~(2 * a = -m /\ b = -1)
    <3>1. d = <<t, known>> /\ e = <<s, known>>
      BY <1>3, <1>4, <1>6, <2>3, <2>5, <2>9 DEF Div, Rem
    <3>2. InRange(t) /\ InRange(s)
      BY <1>1, <2>2, <2>3, <2>7, <2>9 DEF InRange, Fits
    <3>3. d[1] = t /\ d[2] = known /\ e[1] = s /\ e[2] = known
      BY <3>1
    <3>4. a = b * d[1] + e[1]
      BY <2>5, <3>3
    <3>. QED
      BY <1>1, <1>2, <1>3, <1>4, <1>6, <2>3, <2>6, <3>2, <3>3, <3>4, Zenon DEF DivisionIsTotal
  <2>. QED
    BY <2>8, <2>9
<1>. QED
  BY <1>5, <1>6

-----------------------------------------------------------------------------
(* Shifts. *)

(* A multiple of the divisor moves the quotient by as much. *)
LEMMA QuotientMoves ==
  ASSUME NEW p \in Nat \ {0}, NEW n \in Int, NEW k \in Int
  PROVE  (n + p * k) \div p = n \div p + k
<1>1. PICK q \in Int, r \in 0..p - 1 : n = p * q + r /\ q = n \div p
  <2>1. n = p * (n \div p) + (n % p) /\ n % p \in 0..p - 1 /\ n \div p \in Int
    BY Division
  <2>. QED
    BY <2>1
<1>2. PICK s \in Int : s = n + p * k
  <2>1. n + p * k \in Int
    OBVIOUS
  <2>. QED
    BY <2>1
<1>3. PICK x \in Int, y \in 0..p - 1 : s = p * x + y /\ x = s \div p
  <2>1. s = p * (s \div p) + (s % p) /\ s % p \in 0..p - 1 /\ s \div p \in Int
    BY Division
  <2>. QED
    BY <2>1
<1>4. PICK d \in Int : d = x - (q + k)
  OBVIOUS
<1>5. p * d = r - y
  <2>1. p * d = p * x - (p * q + p * k)
    BY <1>4
  <2>. QED
    BY <1>1, <1>2, <1>3, <2>1
<1>6. (d >= 1 => p * d >= p) /\ (d <= -1 => p * d <= -p)
  OBVIOUS
<1>7. d = 0
  BY <1>5, <1>6
<1>8. x = q + k
  BY <1>4, <1>7
<1>9. s \div p = q + k
  BY <1>3, <1>8
<1>. QED
  BY <1>1, <1>2, <1>9

(* A quotient rounded down is no farther from zero. *)
LEMMA FloorBetween ==
  ASSUME NEW p \in Nat \ {0}, NEW n \in Int
  PROVE  /\ n \div p \in Int
         /\ n >= 0 => 0 <= n \div p /\ n \div p <= n
         /\ n < 0 => n <= n \div p /\ n \div p < 0
<1>1. PICK q \in Int, r \in 0..p - 1 : n = p * q + r /\ q = n \div p
  <2>1. n = p * (n \div p) + (n % p) /\ n % p \in 0..p - 1 /\ n \div p \in Int
    BY Division
  <2>. QED
    BY <2>1
<1>2. PICK z \in Int : z = p * q /\ (q >= 0 => z >= q) /\ (q <= -1 => z <= q /\ z <= -p)
  <2>1. p * q \in Int /\ (q >= 0 => p * q >= q) /\ (q <= -1 => p * q <= q /\ p * q <= -p)
    OBVIOUS
  <2>. QED
    BY <2>1
<1>3. n = z + r
  BY <1>1, <1>2
<1>4. (n >= 0 => 0 <= q /\ q <= n) /\ (n < 0 => n <= q /\ q < 0)
  <2>1. CASE q >= 0
    BY <1>2, <1>3, <2>1
  <2>2. CASE q <= -1
    <3>1. n < 0
      BY <1>2, <1>3, <2>2
    <3>2. n <= q
      <4>1. PICK u \in Nat \ {0} : u = -q
        BY <2>2
      <4>2. p * u >= u + p - 1
        <5>1. (p - 1) * (u - 1) >= 0
          OBVIOUS
        <5>2. (p - 1) * (u - 1) = p * u - p - u + 1
          OBVIOUS
        <5>. QED
          BY <5>1, <5>2
      <4>3. p * q = -(p * u)
        BY <4>1
      <4>. QED
        BY <1>2, <1>3, <4>1, <4>2, <4>3
    <3>. QED
      BY <2>2, <3>1, <3>2
  <2>. QED
    BY <2>1, <2>2
<1>. QED
  BY <1>1, <1>4

(* The powers of two up to the word. *)
Powers(w) ==
  /\ w \in [0..Bits32 -> Nat \ {0}]
  /\ \A i \in 0..Bits32 : w[i] = 2^i
  /\ w[0] = 1 /\ w[Bits32] = M32
  /\ \A i \in 0..Bits32 - 1 : w[i + 1] = 2 * w[i]

LEMMA PowersOfTwo == \E w : Powers(w)
<1>1. PICK w : w = [i \in 0..Bits32 |-> 2^i]
  OBVIOUS
<1>2. Bits32 \in Nat /\ 0 \in 0..Bits32 /\ Bits32 \in 0..Bits32
  BY WordAssumption
<1>3. \A i \in 0..Bits32 - 1 : i \in 0..Bits32 /\ i + 1 \in 0..Bits32
  BY <1>2
<1>4. w \in [0..Bits32 -> Nat \ {0}] /\ \A i \in 0..Bits32 : w[i] = 2^i
  BY <1>1, WordAssumption
<1>5. w[0] = 1 /\ w[Bits32] = M32
  BY <1>2, <1>4, WordAssumption DEF M32
<1>6. \A i \in 0..Bits32 - 1 : w[i + 1] = 2 * w[i]
  BY <1>3, <1>4, WordAssumption
<1>. QED
  BY <1>4, <1>5, <1>6 DEF Powers

(* What a word loses at one end of a shift is what it has left at the other. *)
LEMMA PowersMatch ==
  ASSUME NEW w, Powers(w), NEW i \in 0..Bits32
  PROVE  Bits32 - i \in 0..Bits32 /\ w[i] * w[Bits32 - i] = M32
<1>. DEFINE Bad == {k \in Nat : k <= Bits32 /\ w[k] * w[Bits32 - k] # M32}
<1>1. Bits32 \in Nat /\ M32 \in Nat
  BY WordAssumption
<1>. HIDE DEF M32
<1>2. Bad = {}
  <2>1. SUFFICES ASSUME Bad # {} PROVE FALSE
    OBVIOUS
  <2>2. PICK k \in Bad : \A y \in Bad : k <= y
    BY <2>1, LeastNatural
  <2>3. k # 0
    BY <1>1, <2>2 DEF Powers
  <2>4. PICK j \in Nat, l \in Nat : j + 1 = k /\ l = Bits32 - k
    <3>1. k - 1 \in Nat /\ (k - 1) + 1 = k /\ Bits32 - k \in Nat
      BY <1>1, <2>2, <2>3
    <3>. QED
      BY <3>1
  <2>5. j \in 0..Bits32 - 1 /\ l \in 0..Bits32 - 1 /\ j <= Bits32 /\ Bits32 - j = l + 1
        /\ Bits32 - (j + 1) = l /\ j \in 0..Bits32 /\ l \in 0..Bits32
    BY <1>1, <2>2, <2>3, <2>4
  <2>6. w[j + 1] = 2 * w[j] /\ w[l + 1] = 2 * w[l]
    BY <2>5 DEF Powers
  <2>7. PICK x \in Nat, y \in Nat : x = w[j] /\ y = w[l]
    BY <2>5 DEF Powers
  <2>8. w[j] * w[Bits32 - j] = M32
    <3>1. j \notin Bad
      BY <2>2, <2>4
    <3>. QED
      BY <2>5, <3>1
  <2>9. x * (2 * y) = M32
    BY <2>5, <2>6, <2>7, <2>8
  <2>10. (2 * x) * y = x * (2 * y)
    OBVIOUS
  <2>11. w[k] * w[Bits32 - k] = M32
    BY <2>4, <2>5, <2>6, <2>7, <2>9, <2>10
  <2>. QED
    BY <2>2, <2>11
<1>3. i \in Nat /\ i <= Bits32 /\ Bits32 - i \in 0..Bits32
  BY <1>1
<1>4. i \notin Bad
  BY <1>2
<1>. QED
  BY <1>3, <1>4

LEMMA ShiftsAnswer == OpsInit => ShiftsAreArithmetic
<1>. SUFFICES ASSUME OpsInit PROVE ShiftsAreArithmetic
  OBVIOUS
<1>1. PICK m \in Nat \ {0} : m = M32
  BY WordAssumption
<1>2. PICK a \in Int, count \in Int : a = left /\ count = right /\ Fits(a, m)
  BY <1>1, OperandsFit
<1>3. Bits32 \in Nat
  BY WordAssumption
<1>. HIDE DEF M32
<1>4. CASE count \notin 0..Bits32 - 1
  <2>1. count < 0 \/ count >= Bits32
    BY <1>3, <1>4
  <2>. QED
    BY <1>2, <1>4, <2>1 DEF ShiftsAreArithmetic, Shr, Shl
<1>5. CASE count \in 0..Bits32 - 1
  <2>1. PICK w : Powers(w)
    BY PowersOfTwo
  <2>2. count \in 0..Bits32 /\ Bits32 - count \in 0..Bits32 /\ ~(count < 0 \/ count >= Bits32)
    BY <1>3, <1>5
  <2>3. PICK p \in Nat \ {0}, q \in Nat \ {0} :
           p = 2^count /\ q = 2^(Bits32 - count) /\ p * q = m /\ (count = 0 => p = 1)
    <3>1. w[count] = 2^count /\ w[Bits32 - count] = 2^(Bits32 - count)
      BY <2>1, <2>2 DEF Powers
    <3>2. w[count] \in Nat \ {0} /\ w[Bits32 - count] \in Nat \ {0} /\ w[0] = 1
      BY <2>1, <2>2 DEF Powers
    <3>3. w[count] * w[Bits32 - count] = m
      BY <1>1, <2>1, <2>2, PowersMatch
    <3>. QED
      BY <3>1, <3>2, <3>3
  <2>4. p <= m
    <3>1. p * q >= p
      OBVIOUS
    <3>. QED
      BY <2>3, <3>1
  <2>5. PICK x \in Int : x = a \div p
    BY FloorBetween
  <2>6. Fits(x, m) /\ (a >= 0 => x >= 0) /\ (a < 0 => x < 0)
    BY <1>2, <2>5, FloorBetween DEF Fits
  <2>7. Shr(a, count, known) = <<x, known>>
    <3>1. PICK fill : fill = IF a < 0 /\ count > 0 THEN m - q ELSE 0
      OBVIOUS
    <3>2. PICK bits : bits = FromI32(a) \div p
      OBVIOUS
    <3>3. Shr(a, count, known) = <<Signed(bits + fill, m), known>>
      BY <1>1, <2>2, <2>3, <3>1, <3>2 DEF Shr
    <3>4. CASE a >= 0
      <4>1. a \in 0..m - 1
        BY <1>2, <3>4 DEF Fits
      <4>2. FromI32(a) = a
        BY <1>1, <4>1, WordItself DEF FromI32
      <4>3. PICK none \in Int : none = 0
        OBVIOUS
      <4>4. bits + fill = x + m * none
        BY <2>5, <3>1, <3>2, <3>4, <4>2, <4>3
      <4>5. Signed(x + m * none, m) = x
        BY <2>6, FittingIsSigned
      <4>. QED
        BY <3>3, <4>4, <4>5
    <3>5. CASE a < 0
      <4>1. PICK one \in Int : one = 1
        OBVIOUS
      <4>2. FromI32(a) = a + p * q
        <5>1. a + m \in 0..m - 1
          BY <1>2, <3>5 DEF Fits
        <5>2. (a + m) % m = a % m
          <6>1. (a + m * one) % m = a % m
            BY <4>1, SameRemainder
          <6>2. a + m * one = a + m
            BY <4>1
          <6>. QED
            BY <6>1, <6>2
        <5>3. (a + m) % m = a + m
          BY <5>1, WordItself
        <5>. QED
          BY <1>1, <2>3, <5>2, <5>3 DEF FromI32
      <4>3. bits = x + q
        BY <2>5, <3>2, <4>2, QuotientMoves
      <4>4. count = 0 => q = m
        BY <2>3
      <4>5. bits + fill = x + m * one
        <5>1. count > 0 \/ count = 0
          BY <1>5
        <5>. QED
          BY <3>1, <3>5, <4>1, <4>3, <4>4, <5>1
      <4>6. Signed(x + m * one, m) = x
        BY <2>6, FittingIsSigned
      <4>. QED
        BY <3>3, <4>5, <4>6
    <3>. QED
      BY <3>4, <3>5
  <2>8. PICK h \in Int : h = a * p
    OBVIOUS
  <2>9. PICK y \in Int, k \in Int : y = Signed(h, m) /\ y = h + k * m /\ Fits(y, m)
    BY SignedFits
  <2>10. -(m * m) <= 2 * h /\ 2 * h <= m * m
    <3>1. PICK c \in Int : c = 2 * a /\ -m <= c /\ c <= m
      BY <1>2 DEF Fits
    <3>2. c * p = 2 * h
      BY <2>8, <3>1
    <3>3. c * p <= m * p /\ -(m * p) <= c * p
      <4>1. (m - c) * p >= 0 /\ (c + m) * p >= 0
        BY <3>1
      <4>2. (m - c) * p = m * p - c * p /\ (c + m) * p = c * p + m * p
        OBVIOUS
      <4>. QED
        BY <4>1, <4>2
    <3>4. m * p <= m * m
      <4>1. m * (m - p) >= 0
        BY <2>4
      <4>2. m * (m - p) = m * m - m * p
        OBVIOUS
      <4>. QED
        BY <4>1, <4>2
    <3>. QED
      BY <3>2, <3>3, <3>4
  <2>11. k \in -m..m
    <3>1. PICK sq \in Nat, z \in Int : sq = m * m /\ z = k * m
      OBVIOUS
    <3>2. 2 * z <= m + sq /\ -(m + sq) <= 2 * z
      BY <2>9, <2>10, <3>1 DEF Fits
    <3>3. k >= m + 1 => z >= sq + m
      <4>1. k >= m + 1 => k * m >= (m + 1) * m
        OBVIOUS
      <4>2. (m + 1) * m = sq + m
        BY <3>1
      <4>. QED
        BY <3>1, <4>1, <4>2
    <3>4. k <= -(m + 1) => z <= -(sq + m)
      <4>1. k <= -(m + 1) => k * m <= -((m + 1) * m)
        OBVIOUS
      <4>2. (m + 1) * m = sq + m
        BY <3>1
      <4>. QED
        BY <3>1, <4>1, <4>2
    <3>. QED
      BY <3>2, <3>3, <3>4
  <2>12. Shl(a, count, known) = <<y, known>>
    BY <1>1, <2>2, <2>3, <2>8, <2>9 DEF Shl
  <2>13. Shl(a, count, known)[1] = a * 2^count + k * M32 /\ InRange(Shl(a, count, known)[1])
    BY <1>1, <2>3, <2>8, <2>9, <2>12 DEF InRange, Fits
  <2>. QED
    BY <1>1, <1>2, <1>5, <2>3, <2>5, <2>7, <2>11, <2>13 DEF ShiftsAreArithmetic
<1>. QED
  BY <1>4, <1>5

-----------------------------------------------------------------------------
(* The numbers that sets of bits stand for: the empty set is zero, and a bit
   adds its power. *)
Positions == 0..Bits32 - 1

Summed(sum, w) ==
  /\ Powers(w)
  /\ sum \in [SUBSET Positions -> Int]
  /\ sum[{}] = 0
  /\ \A S \in SUBSET Positions : \A i \in S : sum[S] = w[i] + sum[S \ {i}]

LEMMA PositionsFinite ==
  /\ IsFiniteSet(Positions) /\ Positions \subseteq Nat
  /\ \A i \in Positions : i \in 0..Bits32 /\ 2^i \in Int
<1>1. Bits32 \in Nat /\ \A i \in 0..Bits32 : 2^i \in Nat \ {0}
  BY WordAssumption
<1>. QED
  BY <1>1, FS_Interval DEF Positions

LEMMA OfOnesSums ==
  ASSUME NEW S \in SUBSET Positions, NEW sum, PowersAdded(SUBSET Positions, sum)
  PROVE  OfOnes(S) = Signed(sum[S], M32)
<1>1. \A i \in S : 2^i \in Int
  BY PositionsFinite
<1>2. IsFiniteSet(S)
  BY PositionsFinite, FS_Subset
<1>. DEFINE D == SUBSET S
            f == CHOOSE g : g = [s \in D |->
                   IF s = {} THEN 0
                   ELSE 2^(CHOOSE x \in s : TRUE) + g[s \ {CHOOSE x \in s : TRUE}]]
<1>3. OfOnes(S) = Signed(f[S], M32)
  BY DEF OfOnes, MapThenSumSet, MapThenFoldSet
<1>4. S \in D
  OBVIOUS
<1>. HIDE DEF f, D
<1>5. PowersAdded(D, f)
  BY <1>1, <1>2, SumOfPowers DEF f, D
<1>6. f[S] = sum[S]
  <2>1. PowersAdded(SUBSET S, f) /\ S \in SUBSET S
    BY <1>5 DEF D
  <2>2. IsFiniteSet(Positions)
    BY PositionsFinite
  <2>3. \A s \in SUBSET S : f[s] = sum[s]
    BY <2>1, <2>2, SumsAgree, SMTT(30)
  <2>. QED
    BY <2>1, <2>3
<1>. QED
  BY <1>3, <1>6

LEMMA SumsExist ==
  \E sum, w : Summed(sum, w) /\ PowersAdded(SUBSET Positions, sum)
<1>1. PICK w : Powers(w)
  BY PowersOfTwo
<1>. DEFINE D == SUBSET Positions
            f == CHOOSE g : g = [s \in D |->
                   IF s = {} THEN 0
                   ELSE 2^(CHOOSE x \in s : TRUE) + g[s \ {CHOOSE x \in s : TRUE}]]
<1>2. {} \in D
  OBVIOUS
<1>. HIDE DEF f, D
<1>3. PowersAdded(D, f)
  BY PositionsFinite, SumOfPowers DEF f, D
<1>4. f \in [D -> Int] /\ f[{}] = 0
  BY <1>2, <1>3 DEF PowersAdded
<1>5. ASSUME NEW S \in D, NEW i \in S PROVE f[S] = w[i] + f[S \ {i}]
  <2>1. f[S] = 2^i + f[S \ {i}]
    <3>1. PowersAdded(SUBSET Positions, f) /\ S \in SUBSET Positions /\ i \in S
      BY <1>3, <1>5 DEF D
    <3>2. IsFiniteSet(Positions) /\ \A k \in Positions : 2^k \in Int
      BY PositionsFinite
    <3>. QED
      BY <3>1, <3>2, AnyPowerFirst
  <2>2. i \in 0..Bits32
    BY <1>5, PositionsFinite DEF D
  <2>. QED
    BY <1>1, <2>1, <2>2 DEF Powers
<1>6. Summed(f, w)
  BY <1>1, <1>4, <1>5 DEF Summed, D
<1>. QED
  BY <1>3, <1>6 DEF D

(* Apart, two sets add up. *)
LEMMA SumOfUnion ==
  ASSUME NEW sum, NEW w, Summed(sum, w),
         NEW A \in SUBSET Positions, NEW B \in SUBSET Positions, A \cap B = {}
  PROVE  sum[A \cup B] = sum[A] + sum[B]
<1>. DEFINE D == SUBSET B
            P == {T \in D : sum[A \cup T] = sum[A] + sum[T]}
<1>1. PICK rank : rank = [T \in D |-> Cardinality(T)]
  OBVIOUS
<1>2. \A T \in D : IsFiniteSet(T) /\ Cardinality(T) \in Nat
  BY PositionsFinite, FS_Subset, FS_CardinalityType
<1>3. rank \in [D -> Nat]
  BY <1>1, <1>2
<1>4. ASSUME NEW T \in D, \A U \in D : rank[U] < rank[T] => U \in P PROVE T \in P
  <2>. SUFFICES sum[A \cup T] = sum[A] + sum[T]
    OBVIOUS
  <2>1. PICK a \in Int, t \in Int, both \in Int :
           a = sum[A] /\ t = sum[T] /\ both = sum[A \cup T]
    BY DEF Summed
  <2>2. CASE T = {}
    <3>1. A \cup T = A
      BY <2>2
    <3>2. sum[T] = 0
      BY <2>2 DEF Summed
    <3>3. sum[A \cup T] = a /\ t = 0 /\ a + 0 = a
      BY <2>1, <3>1, <3>2
    <3>. QED
      BY <2>1, <3>3
  <2>3. CASE T # {}
    <3>1. PICK i \in T : TRUE
      BY <2>3
    <3>2. PICK U \in D : U = T \ {i}
      OBVIOUS
    <3>3. Cardinality(U) = Cardinality(T) - 1
      BY <1>2, <3>1, <3>2, FS_RemoveElement
    <3>4. U \in P
      <4>1. rank[U] = Cardinality(U) /\ rank[T] = Cardinality(T)
        BY <1>1
      <4>2. rank[U] < rank[T]
        BY <1>2, <3>3, <4>1
      <4>. QED
        BY <1>4, <4>2
    <3>5. PICK u \in Int, p \in Int : u = sum[U] /\ p = w[i]
      <4>1. U \in SUBSET Positions /\ i \in 0..Bits32
        BY <3>1, PositionsFinite
      <4>. QED
        BY <4>1 DEF Summed, Powers
    <3>6. t = p + u
      BY <2>1, <3>1, <3>2, <3>5 DEF Summed
    <3>7. both = p + sum[A \cup U]
      <4>1. (A \cup T) \ {i} = A \cup U /\ i \in A \cup T /\ A \cup T \in SUBSET Positions
        BY <3>1, <3>2
      <4>. QED
        BY <2>1, <3>5, <4>1 DEF Summed
    <3>8. both = p + (a + u)
      <4>1. sum[A \cup U] = a + u
        BY <2>1, <3>4, <3>5
      <4>. QED
        BY <3>7, <4>1
    <3>9. both = a + t
      BY <2>1, <3>5, <3>6, <3>8
    <3>. QED
      BY <2>1, <3>9
  <2>. QED
    BY <2>2, <2>3
<1>5. D \subseteq P
  <2>. HIDE DEF P
  <2>. QED
    BY <1>3, <1>4, RankInduction
<1>. QED
  BY <1>5

(* No set is less than zero. *)
LEMMA SumIsNatural ==
  ASSUME NEW sum, NEW w, Summed(sum, w), NEW A \in SUBSET Positions
  PROVE  sum[A] \in Nat
<1>. DEFINE D == SUBSET Positions
            P == {T \in D : sum[T] \in Nat}
<1>1. PICK rank : rank = [T \in D |-> Cardinality(T)]
  OBVIOUS
<1>2. \A T \in D : IsFiniteSet(T) /\ Cardinality(T) \in Nat
  BY PositionsFinite, FS_Subset, FS_CardinalityType
<1>3. rank \in [D -> Nat]
  BY <1>1, <1>2
<1>4. ASSUME NEW T \in D, \A U \in D : rank[U] < rank[T] => U \in P PROVE T \in P
  <2>1. CASE T = {}
    BY <2>1 DEF Summed
  <2>2. CASE T # {}
    <3>1. PICK i \in T : TRUE
      BY <2>2
    <3>2. PICK U \in D : U = T \ {i}
      OBVIOUS
    <3>3. Cardinality(U) = Cardinality(T) - 1
      BY <1>2, <3>1, <3>2, FS_RemoveElement
    <3>4. sum[U] \in Nat
      <4>1. rank[U] = Cardinality(U) /\ rank[T] = Cardinality(T)
        BY <1>1
      <4>2. rank[U] < rank[T]
        BY <1>2, <3>3, <4>1
      <4>. QED
        BY <1>4, <4>2
    <3>5. w[i] \in Nat
      <4>1. i \in 0..Bits32
        BY <3>1, PositionsFinite
      <4>. QED
        BY <4>1 DEF Summed, Powers
    <3>6. sum[T] = w[i] + sum[U]
      BY <3>1, <3>2 DEF Summed
    <3>. QED
      BY <3>4, <3>5, <3>6
  <2>. QED
    BY <2>1, <2>2
<1>5. D \subseteq P
  <2>. HIDE DEF P
  <2>. QED
    BY <1>3, <1>4, RankInduction
<1>. QED
  BY <1>5

(* All the positions below the i-th are worth one less than its power. *)
LEMMA SumBelow ==
  ASSUME NEW sum, NEW w, Summed(sum, w), NEW i \in 0..Bits32
  PROVE  0..i - 1 \in SUBSET Positions /\ sum[0..i - 1] = w[i] - 1
<1>. DEFINE Bad == {k \in Nat : k <= Bits32 /\ sum[0..k - 1] # w[k] - 1}
<1>1. Bits32 \in Nat
  BY WordAssumption
<1>2. \A k \in 0..Bits32 : 0..k - 1 \in SUBSET Positions
  BY <1>1 DEF Positions
<1>3. Bad = {}
  <2>1. SUFFICES ASSUME Bad # {} PROVE FALSE
    OBVIOUS
  <2>2. PICK k \in Bad : \A y \in Bad : k <= y
    BY <2>1, LeastNatural
  <2>3. k # 0
    <3>1. 0..0 - 1 = {}
      OBVIOUS
    <3>2. sum[0..0 - 1] = 0 /\ w[0] = 1
      BY <3>1 DEF Summed, Powers
    <3>. QED
      BY <2>2, <3>2
  <2>4. PICK j \in Nat : j + 1 = k
    <3>1. k - 1 \in Nat /\ (k - 1) + 1 = k
      BY <2>2, <2>3
    <3>. QED
      BY <3>1
  <2>5. j \in 0..Bits32 - 1 /\ j \in 0..Bits32 /\ k \in 0..Bits32 /\ j < k /\ k - 1 = j
    BY <1>1, <2>2, <2>4
  <2>6. sum[0..j - 1] = w[j] - 1
    <3>1. j \notin Bad
      BY <2>2, <2>5
    <3>. QED
      BY <1>1, <2>5, <3>1
  <2>7. 0..k - 1 \in SUBSET Positions /\ j \in 0..k - 1 /\ (0..k - 1) \ {j} = 0..j - 1
    BY <1>2, <2>5
  <2>8. sum[0..k - 1] = w[j] + sum[0..j - 1]
    <3>1. PICK S \in SUBSET Positions : S = 0..k - 1
      BY <2>7
    <3>2. j \in S /\ S \ {j} = 0..j - 1
      BY <2>7, <3>1
    <3>3. sum[S] = w[j] + sum[S \ {j}]
      BY <3>2 DEF Summed
    <3>. QED
      BY <3>1, <3>2, <3>3
  <2>9. w[k] = 2 * w[j] /\ w[j] \in Nat
    BY <2>4, <2>5 DEF Summed, Powers
  <2>10. sum[0..k - 1] = w[k] - 1
    BY <2>6, <2>8, <2>9
  <2>. QED
    BY <2>2, <2>10
<1>4. i \in Nat /\ i <= Bits32
  BY <1>1
<1>5. i \notin Bad
  BY <1>3
<1>. QED
  BY <1>2, <1>4, <1>5

(* The last position is the sign: a set with it is worth half the word or more,
   a set without it less. *)
LEMMA SignOfSum ==
  ASSUME NEW sum, NEW w, Summed(sum, w), NEW A \in SUBSET Positions,
         NEW m \in Nat \ {0}, m = M32
  PROVE  /\ sum[A] \in 0..m - 1
         /\ 2 * sum[A] >= m <=> Bits32 - 1 \in A
<1>1. PICK t \in Nat : t = Bits32 - 1
  BY WordAssumption
<1>2. t \in Positions /\ t \in 0..Bits32 - 1 /\ t \in 0..Bits32 /\ t + 1 = Bits32 /\ Bits32 \in 0..Bits32
  BY <1>1, WordAssumption DEF Positions
<1>3. PICK h \in Nat : h = w[t] /\ m = 2 * h
  <2>1. w[t] \in Nat /\ w[t + 1] = 2 * w[t] /\ w[Bits32] = M32
    BY <1>2 DEF Summed, Powers
  <2>. QED
    BY <1>2, <2>1
<1>4. ASSUME NEW i \in 0..Bits32, NEW B, B \subseteq 0..i - 1
      PROVE  sum[B] \in Nat /\ sum[B] <= w[i] - 1
  <2>1. 0..i - 1 \in SUBSET Positions /\ sum[0..i - 1] = w[i] - 1
    BY SumBelow
  <2>2. PICK C : C = (0..i - 1) \ B
    OBVIOUS
  <2>3. B \in SUBSET Positions /\ C \in SUBSET Positions /\ B \cap C = {} /\ B \cup C = 0..i - 1
    BY <1>4, <2>1, <2>2
  <2>4. sum[B \cup C] = sum[B] + sum[C]
    BY <2>3, SumOfUnion
  <2>5. sum[B] \in Nat /\ sum[C] \in Nat
    BY <2>3, SumIsNatural
  <2>6. PICK b \in Nat, c \in Nat : b = sum[B] /\ c = sum[C]
    BY <2>5
  <2>7. PICK x \in Nat : x = w[i]
    BY DEF Summed, Powers
  <2>8. b + c = x - 1
    BY <2>1, <2>3, <2>4, <2>6, <2>7
  <2>9. b <= x - 1
    BY <2>8
  <2>. QED
    BY <2>6, <2>7, <2>9
<1>5. sum[A] \in 0..m - 1
  <2>1. A \subseteq 0..Bits32 - 1 /\ w[Bits32] = m
    BY DEF Positions, Summed, Powers
  <2>2. sum[A] \in Nat /\ sum[A] <= w[Bits32] - 1
    BY <1>2, <1>4, <2>1
  <2>. QED
    BY <2>1, <2>2
<1>6. CASE t \in A
  <2>1. A \ {t} \in SUBSET Positions /\ sum[A] = h + sum[A \ {t}]
    BY <1>3, <1>6 DEF Summed
  <2>2. sum[A \ {t}] \in Nat
    BY <2>1, SumIsNatural
  <2>3. 2 * sum[A] >= m
    BY <1>3, <2>1, <2>2
  <2>. QED
    BY <1>1, <1>5, <1>6, <2>3
<1>7. CASE t \notin A
  <2>1. A \subseteq 0..t - 1
    BY <1>1, <1>7 DEF Positions
  <2>2. sum[A] \in Nat /\ sum[A] <= h - 1
    BY <1>2, <1>3, <1>4, <2>1
  <2>3. ~(2 * sum[A] >= m)
    BY <1>3, <2>2
  <2>. QED
    BY <1>1, <1>5, <1>7, <2>3
<1>. QED
  BY <1>6, <1>7

(* One more bit of a number. *)
LEMMA NextBit ==
  ASSUME NEW p \in Nat \ {0}, NEW n \in Nat
  PROVE  /\ n % (2 * p) = (n % p) + p * ((n \div p) % 2)
         /\ (n \div p) % 2 \in {0, 1}
<1>1. PICK q \in Int, r \in 0..p - 1 : n = p * q + r /\ q = n \div p /\ r = n % p
  BY Division
<1>2. PICK two \in Nat \ {0} : two = 2
  OBVIOUS
<1>3. PICK k \in Int, b \in 0..two - 1 : q = two * k + b /\ b = q % two
  BY Division
<1>4. b \in {0, 1} /\ two * p \in Nat \ {0}
  BY <1>2, <1>3
<1>5. PICK rest \in Int : rest = p * b + r
  <2>1. p * b + r \in Int
    OBVIOUS
  <2>. QED
    BY <2>1
<1>6. rest \in 0..(two * p) - 1
  BY <1>2, <1>4, <1>5
<1>7. n = (two * p) * k + rest
  <2>1. p * q = p * (two * k + b)
    BY <1>3
  <2>2. p * (two * k + b) = p * (two * k) + p * b
    OBVIOUS
  <2>3. p * (two * k) = (two * p) * k
    OBVIOUS
  <2>. QED
    BY <1>1, <1>5, <2>1, <2>2, <2>3
<1>8. ((two * p) * k + rest) % (two * p) = rest
  BY <1>4, <1>6, Residue
<1>9. n % (two * p) = rest
  BY <1>7, <1>8
<1>10. rest = r + p * b
  BY <1>5
<1>. QED
  BY <1>1, <1>2, <1>3, <1>4, <1>9, <1>10

(* The bits of a word sum up to the word. *)
LEMMA OnesSum ==
  ASSUME NEW sum, NEW w, Summed(sum, w), NEW n
  PROVE  FromI32(n) \in 0..M32 - 1 => Ones(n) \in SUBSET Positions /\ sum[Ones(n)] = FromI32(n)
<1>. SUFFICES ASSUME FromI32(n) \in 0..M32 - 1
              PROVE  Ones(n) \in SUBSET Positions /\ sum[Ones(n)] = FromI32(n)
  OBVIOUS
<1>1. PICK m \in Nat \ {0} : m = M32
  BY WordAssumption
<1>2. PICK u \in 0..m - 1 : u = FromI32(n)
  BY <1>1
<1>. DEFINE Low(k) == {i \in 0..k - 1 : (u \div w[i]) % 2 = 1}
            Bad == {k \in Nat : k <= Bits32 /\ sum[Low(k)] # u % w[k]}
<1>3. Bits32 \in Nat
  BY WordAssumption
<1>4. \A k \in 0..Bits32 : Low(k) \in SUBSET Positions
  BY <1>3 DEF Positions
<1>5. Bad = {}
  <2>1. SUFFICES ASSUME Bad # {} PROVE FALSE
    OBVIOUS
  <2>2. PICK k \in Bad : \A y \in Bad : k <= y
    BY <2>1, LeastNatural
  <2>3. k # 0
    <3>1. Low(0) = {}
      OBVIOUS
    <3>2. sum[Low(0)] = 0 /\ w[0] = 1
      BY <3>1 DEF Summed, Powers
    <3>3. u % w[0] = 0
      BY <3>2
    <3>. QED
      BY <2>2, <3>2, <3>3
  <2>4. PICK j \in Nat : j + 1 = k
    <3>1. k - 1 \in Nat /\ (k - 1) + 1 = k
      BY <2>2, <2>3
    <3>. QED
      BY <3>1
  <2>5. j \in 0..Bits32 - 1 /\ j \in 0..Bits32 /\ k \in 0..Bits32 /\ j < k /\ k - 1 = j
    BY <1>3, <2>2, <2>4
  <2>6. sum[Low(j)] = u % w[j]
    <3>1. j \notin Bad
      BY <2>2, <2>5
    <3>. QED
      BY <1>3, <2>5, <3>1
  <2>7. PICK p \in Nat \ {0} : p = w[j] /\ w[k] = 2 * p
    BY <2>4, <2>5 DEF Summed, Powers
  <2>8. u % w[k] = (u % p) + p * ((u \div p) % 2) /\ (u \div p) % 2 \in {0, 1}
    <3>1. u \in Nat
      OBVIOUS
    <3>2. u % (2 * p) = (u % p) + p * ((u \div p) % 2) /\ (u \div p) % 2 \in {0, 1}
      BY <3>1, NextBit
    <3>. QED
      BY <2>7, <3>2
  <2>9. PICK r \in Int : r = u % p
    <3>1. u \in Int
      OBVIOUS
    <3>2. u % p \in 0..p - 1
      BY <3>1, Division
    <3>. QED
      BY <3>2
  <2>10. CASE (u \div p) % 2 = 1
    <3>1. j \in Low(k) /\ Low(k) \ {j} = Low(j)
      BY <2>5, <2>7, <2>10
    <3>2. sum[Low(k)] = w[j] + sum[Low(j)]
      <4>1. PICK S \in SUBSET Positions : S = Low(k)
        BY <1>4, <2>5
      <4>2. PICK T : T = Low(j)
        OBVIOUS
      <4>3. j \in S /\ S \ {j} = T
        BY <3>1, <4>1, <4>2
      <4>4. sum[S] = w[j] + sum[S \ {j}]
        BY <4>3 DEF Summed
      <4>. QED
        BY <4>1, <4>2, <4>3, <4>4
    <3>3. sum[Low(k)] = p + r
      BY <2>6, <2>7, <2>9, <3>2
    <3>4. u % w[k] = r + p * 1
      BY <2>8, <2>9, <2>10
    <3>5. sum[Low(k)] = u % w[k]
      BY <3>3, <3>4
    <3>. QED
      BY <2>2, <3>5
  <2>11. CASE (u \div p) % 2 = 0
    <3>1. Low(k) = Low(j)
      BY <2>5, <2>7, <2>11
    <3>2. u % w[k] = r + p * 0
      BY <2>8, <2>9, <2>11
    <3>3. r + p * 0 = r
      OBVIOUS
    <3>4. sum[Low(k)] = u % w[k]
      BY <2>6, <2>7, <2>9, <3>1, <3>2, <3>3
    <3>. QED
      BY <2>2, <3>4
  <2>. QED
    BY <2>8, <2>10, <2>11
<1>6. Ones(n) = Low(Bits32)
  <2>1. \A i \in 0..Bits32 - 1 : w[i] = 2^i
    BY <1>3 DEF Summed, Powers
  <2>. QED
    BY <1>2, <2>1 DEF Ones
<1>7. sum[Low(Bits32)] = u % w[Bits32]
  <2>1. Bits32 \notin Bad
    BY <1>5
  <2>. QED
    BY <1>3, <2>1
<1>8. u % m = u
  BY WordItself
<1>9. w[Bits32] = m
  BY <1>1 DEF Summed, Powers
<1>10. Low(Bits32) \in SUBSET Positions
  BY <1>3, <1>4
<1>. HIDE DEF Low
<1>. QED
  BY <1>2, <1>6, <1>7, <1>8, <1>9, <1>10

(* What a word means: its sum, less the whole word when its sign is set. *)
SignAt(S, m) == IF Bits32 - 1 \in S THEN m ELSE 0

LEMMA WordMeans ==
  ASSUME NEW sum, NEW w, Summed(sum, w), PowersAdded(SUBSET Positions, sum),
         NEW S \in SUBSET Positions, NEW m \in Nat \ {0}, m = M32
  PROVE  /\ OfOnes(S) \in Int /\ Fits(OfOnes(S), m)
         /\ OfOnes(S) = sum[S] - SignAt(S, m)
<1>1. OfOnes(S) = Signed(sum[S], m)
  BY OfOnesSums
<1>2. PICK x \in 0..m - 1 : x = sum[S] /\ (2 * x >= m <=> Bits32 - 1 \in S)
  BY SignOfSum
<1>3. OfOnes(S) \in Int /\ Fits(OfOnes(S), m)
  <2>1. x \in Int /\ OfOnes(S) = Signed(x, m)
    BY <1>1, <1>2
  <2>2. Signed(x, m) \in Int /\ Fits(Signed(x, m), m)
    BY <2>1, SignedFits
  <2>. QED
    BY <2>1, <2>2
<1>4. x % m = x
  BY WordItself
<1>5. Signed(x, m) = IF 2 * x >= m THEN x - m ELSE x
  BY <1>4 DEF Signed
<1>6. Signed(x, m) = x - SignAt(S, m)
  BY <1>2, <1>5 DEF SignAt
<1>. QED
  BY <1>1, <1>2, <1>3, <1>6

LEMMA OperandMeans ==
  ASSUME NEW sum, NEW w, Summed(sum, w), PowersAdded(SUBSET Positions, sum),
         NEW m \in Nat \ {0}, m = M32, NEW a \in Int, Fits(a, m)
  PROVE  /\ Ones(a) \in SUBSET Positions
         /\ a = sum[Ones(a)] - SignAt(Ones(a), m)
<1>1. FromI32(a) = a % m
  BY DEF FromI32
<1>2. PICK u \in 0..m - 1, q \in Int : u = a % m /\ a = m * q + u
  <2>1. a = m * (a \div m) + (a % m) /\ a % m \in 0..m - 1 /\ a \div m \in Int
    BY Division
  <2>. QED
    BY <2>1
<1>3. Ones(a) \in SUBSET Positions /\ sum[Ones(a)] = u
  <2>1. FromI32(a) \in 0..M32 - 1
    BY <1>1, <1>2
  <2>. QED
    BY <1>1, <1>2, <2>1, OnesSum
<1>4. PICK k \in Int : k = -q
  OBVIOUS
<1>5. u = a + m * k
  BY <1>2, <1>4
<1>6. Signed(u, m) = a
  BY <1>5, FittingIsSigned
<1>7. OfOnes(Ones(a)) = Signed(sum[Ones(a)], M32)
  BY <1>3, OfOnesSums
<1>8. OfOnes(Ones(a)) = a
  BY <1>3, <1>6, <1>7
<1>9. OfOnes(Ones(a)) = sum[Ones(a)] - SignAt(Ones(a), m)
  BY <1>3, WordMeans
<1>. QED
  BY <1>3, <1>8, <1>9

(* What two sets have in common and what they have together, as much as both. *)
AddsUp(sum, A, B) ==
  /\ sum[A \cap B] + sum[A \cup B] = sum[A] + sum[B]
  /\ sum[(A \ B) \cup (B \ A)] = sum[A \cup B] - sum[A \cap B]

LEMMA CommonAndTogether ==
  ASSUME NEW sum, NEW w, Summed(sum, w),
         NEW A \in SUBSET Positions, NEW B \in SUBSET Positions
  PROVE  AddsUp(sum, A, B)
<1>1. PICK C \in SUBSET Positions, X \in SUBSET Positions, Y \in SUBSET Positions :
         C = A \cap B /\ X = A \ B /\ Y = B \ A
  OBVIOUS
<1>2. C \cap X = {} /\ C \cap Y = {} /\ X \cap Y = {} /\ C \cup X = A /\ C \cup Y = B
  BY <1>1
<1>3. PICK U \in SUBSET Positions : U = X \cup Y
  OBVIOUS
<1>4. C \cap U = {} /\ C \cup U = A \cup B
  BY <1>1, <1>3
<1>5. PICK c \in Int, x \in Int, y \in Int : c = sum[C] /\ x = sum[X] /\ y = sum[Y]
  BY DEF Summed
<1>6. sum[U] = x + y
  BY <1>2, <1>3, <1>5, SumOfUnion
<1>7. sum[A \cup B] = c + (x + y)
  <2>1. sum[C \cup U] = sum[C] + sum[U]
    BY <1>4, SumOfUnion
  <2>. QED
    BY <1>4, <1>5, <1>6, <2>1
<1>8. sum[A] = c + x /\ sum[B] = c + y
  BY <1>2, <1>5, SumOfUnion
<1>9. c + (c + (x + y)) = (c + x) + (c + y) /\ x + y = (c + (x + y)) - c
  OBVIOUS
<1>. QED
  BY <1>1, <1>3, <1>5, <1>6, <1>7, <1>8, <1>9 DEF AddsUp

LEMMA BitsAnswer == OpsInit => BitsAreTwosComplement
<1>. SUFFICES ASSUME OpsInit PROVE BitsAreTwosComplement
  OBVIOUS
<1>1. PICK m \in Nat \ {0} : m = M32
  BY WordAssumption
<1>2. PICK a \in Int, b \in Int : a = left /\ b = right /\ Fits(a, m) /\ Fits(b, m)
  BY <1>1, OperandsFit
<1>3. PICK sum, w : Summed(sum, w) /\ PowersAdded(SUBSET Positions, sum)
  BY SumsExist
<1>. HIDE DEF M32
<1>4. PICK A \in SUBSET Positions, B \in SUBSET Positions : A = Ones(a) /\ B = Ones(b)
  BY <1>1, <1>2, <1>3, OperandMeans
<1>5. PICK x \in Int, y \in Int : x = sum[A] /\ y = sum[B]
  BY <1>3 DEF Summed
<1>6. a = x - SignAt(A, m) /\ b = y - SignAt(B, m)
  BY <1>1, <1>2, <1>3, <1>4, <1>5, OperandMeans
<1>7. PICK C \in SUBSET Positions, U \in SUBSET Positions, X \in SUBSET Positions,
           N \in SUBSET Positions :
         /\ C = A \cap B /\ U = A \cup B /\ X = (A \ B) \cup (B \ A)
         /\ N = Positions \ A
  OBVIOUS
<1>8. PICK c \in Int, u \in Int, v \in Int, n \in Int :
         c = sum[C] /\ u = sum[U] /\ v = sum[X] /\ n = sum[N]
  BY <1>3 DEF Summed
<1>9. c + u = x + y /\ v = u - c
  <2>1. AddsUp(sum, A, B)
    BY <1>3, CommonAndTogether
  <2>2. sum[C] + sum[U] = sum[A] + sum[B] /\ sum[X] = sum[U] - sum[C]
    BY <1>7, <2>1 DEF AddsUp
  <2>. QED
    BY <1>5, <1>8, <2>2
<1>10. n + x = m - 1
  <2>1. N \cap A = {} /\ N \cup A = 0..Bits32 - 1
    BY <1>7 DEF Positions
  <2>2. sum[N \cup A] = n + x
    BY <1>3, <1>5, <1>8, <2>1, SumOfUnion
  <2>3. Bits32 \in 0..Bits32
    BY WordAssumption
  <2>4. sum[0..Bits32 - 1] = w[Bits32] - 1
    BY <1>3, <2>3, SumBelow
  <2>5. w[Bits32] = m
    BY <1>1, <1>3 DEF Summed, Powers
  <2>. QED
    BY <2>1, <2>2, <2>4, <2>5
<1>11. PICK sa \in Int, sb \in Int, sc \in Int, su \in Int, sx \in Int, sn \in Int :
          /\ sa = SignAt(A, m) /\ sb = SignAt(B, m) /\ sc = SignAt(C, m) /\ su = SignAt(U, m)
          /\ sx = SignAt(X, m) /\ sn = SignAt(N, m)
  <2>1. \A S \in SUBSET Positions : SignAt(S, m) \in Int
    BY DEF SignAt
  <2>. QED
    BY <2>1
<1>12. sc + su = sa + sb /\ sx = su - sc /\ sn + sa = m
  <2>1. Bits32 - 1 \in Positions
    BY WordAssumption DEF Positions
  <2>2. /\ Bits32 - 1 \in C <=> Bits32 - 1 \in A /\ Bits32 - 1 \in B
        /\ Bits32 - 1 \in U <=> Bits32 - 1 \in A \/ Bits32 - 1 \in B
        /\ Bits32 - 1 \in X <=> ~(Bits32 - 1 \in A <=> Bits32 - 1 \in B)
        /\ Bits32 - 1 \in N <=> ~(Bits32 - 1 \in A)
    BY <1>7, <2>1
  <2>. QED
    BY <1>11, <2>2 DEF SignAt
<1>13. /\ Bits("and.i32", a, b) = c - sc /\ Bits("or.i32", a, b) = u - su
       /\ Bits("xor.i32", a, b) = v - sx /\ BitNot(a) = n - sn
  <2>1. /\ OfOnes(C) = c - sc /\ OfOnes(U) = u - su
        /\ OfOnes(X) = v - sx /\ OfOnes(N) = n - sn
    BY <1>1, <1>3, <1>8, <1>11, WordMeans
  <2>2. /\ Bits("and.i32", a, b) = OfOnes(C) /\ Bits("or.i32", a, b) = OfOnes(U)
        /\ Bits("xor.i32", a, b) = OfOnes(X)
    BY <1>4, <1>7 DEF Bits
  <2>3. BitNot(a) = OfOnes(N)
    BY <1>4, <1>7 DEF BitNot, Positions
  <2>. QED
    BY <2>1, <2>2, <2>3
<1>14. Fits(c - sc, m) /\ Fits(u - su, m) /\ Fits(v - sx, m)
  <2>1. Fits(OfOnes(C), m) /\ Fits(OfOnes(U), m) /\ Fits(OfOnes(X), m)
    BY <1>1, <1>3, WordMeans
  <2>2. OfOnes(C) = c - sc /\ OfOnes(U) = u - su /\ OfOnes(X) = v - sx
    BY <1>1, <1>3, <1>8, <1>11, WordMeans
  <2>. QED
    BY <2>1, <2>2
<1>15. a = x - sa /\ b = y - sb
  BY <1>6, <1>11
<1>16. /\ (c - sc) + (u - su) = a + b
       /\ v - sx = (u - su) - (c - sc)
       /\ n - sn = -a - 1
  BY <1>9, <1>10, <1>12, <1>15
<1>. QED
  BY <1>1, <1>2, <1>13, <1>14, <1>16 DEF BitsAreTwosComplement, InRange, Fits

-----------------------------------------------------------------------------
(* The operands of the pair under test are not changed by the search that runs
   beside them. *)
LEMMA OperandsStay == AlgorithmsSpec => []OpsInit
<1>1. AlgorithmsInit => OpsInit
  BY DEF AlgorithmsInit
<1>2. OpsInit /\ [AlgorithmsNext]_algorithmVars => OpsInit'
  BY OperandsKept DEF OpsInit
<1>. QED
  BY <1>1, <1>2, PTL DEF AlgorithmsSpec

(* For a word of any width and every pair of operands, mcuscript_op_div_i32 and
   mcuscript_op_rem_i32 return a quotient and a remainder that fit and belong
   together, or an invalid value: the one pair whose quotient does not fit and
   every division by zero included. *)
THEOREM DivisionAnswersEveryPair == AlgorithmsSpec => []DivisionIsTotal
BY OperandsStay, DivisionAnswers, PTL

(* For a word of any width, mcuscript_op_shr_i32 rounds toward minus infinity and
   mcuscript_op_shl_i32 multiplies modulo the word, though both are built from
   unsigned shifts; a count outside the word is invalid. *)
THEOREM ShiftsAnswerEveryPair == AlgorithmsSpec => []ShiftsAreArithmetic
BY OperandsStay, ShiftsAnswer, PTL

(* For a word of any width, the bit operations on signed operands agree with
   arithmetic: what two words have in common and what they have together add up to
   both, the exclusive or is their difference, and the complement is -a - 1. *)
THEOREM BitsAnswerEveryPair == AlgorithmsSpec => []BitsAreTwosComplement
BY OperandsStay, BitsAnswer, PTL

-----------------------------------------------------------------------------
(* The search for components: what its two stacks hold. *)
MetNodes == DOMAIN index_of
Stacked == Range(stack)
Closed == UNION Range(components)

(* The nodes a worklist is in the middle of, and the edges of n it has tried. *)
ActiveIn(W) == {W[k][1] : k \in DOMAIN W}
TriedIn(W, n, m) == m \in edges[n] /\ \A k \in DOMAIN W : W[k][1] = n => m \notin W[k][2]

Active == ActiveIn(work)
Tried(n, m) == TriedIn(work, n, m)

Worklist(W) ==
  /\ W \in Seq(Nodes \X SUBSET Nodes)
  /\ \A k \in DOMAIN W : W[k][2] \subseteq edges[W[k][1]]

InOrder(f, W) == \A j, k \in DOMAIN W : j < k => f[W[j][1]] < f[W[k][1]]

SearchShape ==
  /\ edges \in [Nodes -> SUBSET Nodes]
  /\ root \in 0..Count
  /\ Worklist(work)
  /\ MetNodes \subseteq Nodes
  /\ index_of \in [MetNodes -> Nat]
  /\ low \in [MetNodes -> Nat]
  /\ stack \in Seq(Nodes)
  /\ components \in Seq(SUBSET Nodes)

(* A node is numbered when it is met, and both stacks are in that order. *)
Numbered ==
  /\ \A n \in MetNodes : index_of[n] < Cardinality(MetNodes)
  /\ \A j, k \in DOMAIN stack : j < k => index_of[stack[j]] < index_of[stack[k]]
  /\ InOrder(index_of, work)

(* A node met is on the stack or in a component, and one in the middle of its
   turn is on the stack. *)
MetOnce ==
  /\ Active \subseteq Stacked
  /\ MetNodes = Stacked \cup Closed
  /\ Stacked \cap Closed = {}
  /\ \A r \in 0..root - 1 : r \in MetNodes

TriedSeen == \A n \in MetNodes : \A m \in Nodes : Tried(n, m) => m \in MetNodes

(* No edge leaves what is closed. *)
ClosedStays == \A n \in Closed : edges[n] \subseteq Closed

(* low is the number of a node that can be reached and is still stacked. *)
LowReached ==
  \A n \in Stacked :
    /\ low[n] <= index_of[n]
    /\ \E m \in Stacked : m \in Reachable(n) /\ low[n] = index_of[m]

(* A node in the middle of its turn reaches all that was stacked since, *)
ReachesUp ==
  \A w \in Active : \A n \in Stacked : index_of[w] <= index_of[n] => n \in Reachable(w)

(* and each node on the stack reaches one in the middle of its turn. *)
ReachesBack ==
  \A n \in Stacked : \E w \in Active : index_of[w] <= index_of[n] /\ w \in Reachable(n)

(* No node in the middle of its turn was stacked after w and by the time of n. *)
Under(w, n) ==
  /\ index_of[w] <= index_of[n]
  /\ \A x \in Active : index_of[w] < index_of[x] => index_of[n] < index_of[x]

(* What an edge into the stack tells has come down to that node. *)
LowTold ==
  \A n, m \in Stacked : \A w \in Active :
    Tried(n, m) /\ Under(w, n) => low[w] <= index_of[m]

ComponentsApart ==
  \A j, k \in DOMAIN components : j # k => components[j] \cap components[k] = {}

SearchInv ==
  /\ SearchShape /\ Numbered /\ MetOnce /\ TriedSeen /\ ClosedStays
  /\ LowReached /\ ReachesUp /\ ReachesBack /\ LowTold
  /\ ComponentsApart /\ ComponentsAreSCCs

LEMMA ElementsAre ==
  ASSUME NEW S, NEW s \in Seq(S)
  PROVE  /\ Range(s) = {s[k] : k \in 1..Len(s)} /\ DOMAIN s = 1..Len(s) /\ Len(s) \in Nat
         /\ Range(s) \subseteq S /\ \A k \in 1..Len(s) : s[k] \in S
<1>1. DOMAIN s = 1..Len(s) /\ Len(s) \in Nat
  BY LenProperties
<1>2. \A k \in 1..Len(s) : s[k] \in S
  BY ElementOfSeq
<1>3. Range(s) = {s[k] : k \in DOMAIN s}
  BY DEF Range
<1>4. {s[k] : k \in 1..Len(s)} \subseteq S
  BY <1>2
<1>. QED
  BY <1>1, <1>2, <1>3, <1>4, Zenon

LEMMA RangeOfLonger ==
  ASSUME NEW S, NEW s \in Seq(S), NEW e \in S
  PROVE  /\ Append(s, e) \in Seq(S) /\ Len(Append(s, e)) = Len(s) + 1
         /\ Range(Append(s, e)) = Range(s) \cup {e}
         /\ \A k \in 1..Len(s) : Append(s, e)[k] = s[k]
         /\ Append(s, e)[Len(s) + 1] = e
         /\ Len(s) \in Nat
<1>1. /\ Append(s, e) \in Seq(S) /\ Len(Append(s, e)) = Len(s) + 1 /\ Len(s) \in Nat
      /\ \A k \in 1..Len(s) : Append(s, e)[k] = s[k]
      /\ Append(s, e)[Len(s) + 1] = e
  BY AppendProperties, LenProperties
<1>2. 1..Len(s) + 1 = 1..Len(s) \cup {Len(s) + 1}
  BY <1>1
<1>3. /\ Range(s) = {s[k] : k \in 1..Len(s)}
      /\ Range(Append(s, e)) = {Append(s, e)[k] : k \in 1..Len(s) + 1}
  <2>1. PICK t \in Seq(S) : t = Append(s, e)
    BY <1>1
  <2>2. Range(t) = {t[k] : k \in 1..Len(t)}
    BY ElementsAre
  <2>3. Range(s) = {s[k] : k \in 1..Len(s)}
    BY ElementsAre
  <2>. QED
    BY <1>1, <2>1, <2>2, <2>3
<1>. QED
  BY <1>1, <1>2, <1>3

(* A worklist with one more entry. *)
LEMMA EntryAdded ==
  ASSUME NEW W, Worklist(W), NEW f, NEW c \in Nodes, NEW P \in SUBSET Nodes, P \subseteq edges[c]
  PROVE  LET longer == Append(W, <<c, P>>)
         IN  /\ Worklist(longer)
             /\ ActiveIn(longer) = ActiveIn(W) \cup {c}
             /\ \A n, m : TriedIn(longer, n, m) => TriedIn(W, n, m) /\ (n = c => m \notin P)
             /\ InOrder(f, W) /\ (\A x \in ActiveIn(W) : f[x] < f[c]) => InOrder(f, longer)
<1>. DEFINE longer == Append(W, <<c, P>>)
<1>1. /\ longer \in Seq(Nodes \X SUBSET Nodes) /\ Len(longer) = Len(W) + 1
      /\ \A k \in 1..Len(W) : longer[k] = W[k]
      /\ longer[Len(W) + 1] = <<c, P>>
      /\ Len(W) \in Nat
  <2>1. <<c, P>> \in Nodes \X SUBSET Nodes
    OBVIOUS
  <2>. QED
    BY <2>1, RangeOfLonger DEF Worklist
<1>2. DOMAIN longer = 1..Len(W) + 1 /\ DOMAIN W = 1..Len(W)
  BY <1>1, LenProperties DEF Worklist
<1>. HIDE DEF longer
<1>3. DOMAIN longer = DOMAIN W \cup {Len(W) + 1} /\ \A k \in DOMAIN W : k < Len(W) + 1
  BY <1>1, <1>2
<1>4. \A k \in DOMAIN W : longer[k] = W[k]
  BY <1>1, <1>2
<1>5. longer[Len(W) + 1][1] = c /\ longer[Len(W) + 1][2] = P
  BY <1>1
<1>6. Worklist(longer)
  BY <1>1, <1>3, <1>4, <1>5 DEF Worklist
<1>7. ActiveIn(longer) = ActiveIn(W) \cup {c}
  BY <1>3, <1>4, <1>5 DEF ActiveIn
<1>8. \A n, m : TriedIn(longer, n, m) => TriedIn(W, n, m) /\ (n = c => m \notin P)
  BY <1>3, <1>4, <1>5 DEF TriedIn
<1>9. ASSUME InOrder(f, W), \A x \in ActiveIn(W) : f[x] < f[c] PROVE InOrder(f, longer)
  <2>1. \A k \in DOMAIN W : f[W[k][1]] < f[c]
    BY <1>9 DEF ActiveIn
  <2>2. ASSUME NEW j \in DOMAIN longer, NEW k \in DOMAIN longer, j < k
        PROVE  f[longer[j][1]] < f[longer[k][1]]
    <3>1. j \in DOMAIN W
      BY <1>1, <1>2, <2>2
    <3>2. CASE k = Len(W) + 1
      BY <1>4, <1>5, <2>1, <3>1, <3>2
    <3>3. CASE k \in DOMAIN W
      BY <1>4, <1>9, <2>2, <3>1, <3>3 DEF InOrder
    <3>. QED
      BY <1>3, <3>2, <3>3
  <2>. QED
    BY <2>2 DEF InOrder
<1>. QED
  BY <1>6, <1>7, <1>8, <1>9 DEF longer

(* The entry on top is of the last node of all, and only it is of that node. *)
LEMMA TopEntry ==
  ASSUME NEW W, Worklist(W), NEW f, InOrder(f, W), W # <<>>,
         \A x \in ActiveIn(W) : f[x] \in Nat
  PROVE  /\ Last(W)[1] \in ActiveIn(W) /\ Last(W)[1] \in Nodes
         /\ Last(W)[2] \subseteq edges[Last(W)[1]] /\ Last(W)[2] \in SUBSET Nodes
         /\ \A x \in ActiveIn(Front(W)) : f[x] < f[Last(W)[1]]
         /\ ActiveIn(W) = ActiveIn(Front(W)) \cup {Last(W)[1]}
         /\ Last(W)[1] \notin ActiveIn(Front(W))
         /\ Worklist(Front(W)) /\ InOrder(f, Front(W))
         /\ \A n, m : TriedIn(Front(W), n, m) =>
              TriedIn(W, n, m) \/ (n = Last(W)[1] /\ m \in Last(W)[2])
<1>. DEFINE F == Front(W)
            L == Len(W)
<1>1. /\ F \in Seq(Nodes \X SUBSET Nodes) /\ Last(W) \in Nodes \X SUBSET Nodes
      /\ Last(W) = W[L] /\ L \in Nat \ {0} /\ Len(F) = L - 1
      /\ \A k \in 1..L - 1 : F[k] = W[k]
  BY FrontLast DEF Worklist
<1>2. DOMAIN W = 1..L /\ DOMAIN F = 1..L - 1
  BY <1>1, LenProperties DEF Worklist
<1>. HIDE DEF F, L
<1>3. /\ DOMAIN W = DOMAIN F \cup {L} /\ \A k \in DOMAIN F : k < L /\ F[k] = W[k]
      /\ L \in DOMAIN W
  BY <1>1, <1>2
<1>4. \A k \in DOMAIN F : f[F[k][1]] < f[W[L][1]] /\ F[k][1] # W[L][1]
  <2>1. ASSUME NEW k \in DOMAIN F
        PROVE  f[F[k][1]] < f[W[L][1]] /\ F[k][1] # W[L][1]
    <3>1. k \in DOMAIN W /\ k < L /\ F[k] = W[k]
      BY <1>3
    <3>2. f[W[k][1]] < f[W[L][1]]
      BY <1>3, <3>1 DEF InOrder
    <3>3. f[W[L][1]] \in Nat
      BY <1>3 DEF ActiveIn
    <3>4. ~(f[W[L][1]] < f[W[L][1]])
      BY <3>3
    <3>. QED
      BY <3>1, <3>2, <3>4
  <2>. QED
    BY <2>1
<1>5. W[L][1] \in ActiveIn(W) /\ W[L][1] \in Nodes /\ W[L][2] \in SUBSET Nodes
  BY <1>1, <1>3 DEF ActiveIn
<1>6. W[L][2] \subseteq edges[W[L][1]]
  BY <1>3 DEF Worklist
<1>7. /\ \A x \in ActiveIn(F) : f[x] < f[W[L][1]]
      /\ W[L][1] \notin ActiveIn(F)
  BY <1>4 DEF ActiveIn
<1>8. ActiveIn(W) = ActiveIn(F) \cup {W[L][1]}
  BY <1>3 DEF ActiveIn
<1>9. Worklist(F) /\ InOrder(f, F)
  <2>1. Worklist(F)
    BY <1>1, <1>3 DEF Worklist
  <2>2. InOrder(f, F)
    BY <1>3 DEF InOrder
  <2>. QED
    BY <2>1, <2>2
<1>10. ASSUME NEW n, NEW m, TriedIn(F, n, m), ~(n = W[L][1] /\ m \in W[L][2])
       PROVE  TriedIn(W, n, m)
  BY <1>3, <1>10 DEF TriedIn
<1>11. Last(W)[1] = W[L][1] /\ Last(W)[2] = W[L][2]
  BY <1>1
<1>12. \A n, m : TriedIn(F, n, m) => TriedIn(W, n, m) \/ (n = W[L][1] /\ m \in W[L][2])
  BY <1>10
<1>. QED
  BY <1>5, <1>6, <1>7, <1>8, <1>9, <1>11, <1>12, Zenon DEF F

LEMMA RangeOfShorter ==
  ASSUME NEW S, NEW s \in Seq(S), NEW place \in 1..Len(s)
  PROVE  /\ SubSeq(s, 1, place - 1) \in Seq(S)
         /\ Len(SubSeq(s, 1, place - 1)) = place - 1
         /\ \A k \in 1..place - 1 : SubSeq(s, 1, place - 1)[k] = s[k]
         /\ Range(SubSeq(s, 1, place - 1)) = {s[k] : k \in 1..place - 1}
         /\ Range(SubSeq(s, place, Len(s))) = {s[k] : k \in place..Len(s)}
<1>0. Len(s) \in Nat /\ place - 1 \in Nat /\ place - 1 <= Len(s)
  BY LenProperties
<1>1. PICK t : t = SubSeq(s, 1, place - 1)
  OBVIOUS
<1>2. t \in Seq(S) /\ Len(t) = place - 1 /\ \A k \in 1..place - 1 : t[k] = s[k]
  BY <1>0, <1>1, Prefix
<1>3. Range(t) = {t[k] : k \in 1..Len(t)}
  BY <1>2, ElementsAre
<1>4. PICK u : u = SubSeq(s, place, Len(s))
  OBVIOUS
<1>5. u \in Seq(S) /\ Len(u) = Len(s) - place + 1 /\ \A i \in 1..Len(s) - place + 1 : u[i] = s[place + i - 1]
  <2>1. \A i \in place..Len(s) : s[i] \in S
    BY <1>0, ElementOfSeq
  <2>. QED
    BY <1>0, <1>4, <2>1, SubSeqProperties
<1>6. Range(u) = {u[k] : k \in 1..Len(u)}
  BY <1>5, ElementsAre
<1>7. Range(u) = {s[k] : k \in place..Len(s)}
  <2>1. ASSUME NEW k \in 1..Len(u) PROVE u[k] \in {s[j] : j \in place..Len(s)}
    <3>1. place + k - 1 \in place..Len(s) /\ u[k] = s[place + k - 1]
      BY <1>0, <1>5, <2>1
    <3>. QED
      BY <3>1
  <2>2. ASSUME NEW k \in place..Len(s) PROVE s[k] \in Range(u)
    <3>1. PICK i \in 1..Len(u) : place + i - 1 = k
      <4>1. (k - place) + 1 \in 1..Len(u) /\ place + ((k - place) + 1) - 1 = k
        BY <1>0, <1>5
      <4>. QED
        BY <4>1
    <3>2. u[i] = s[k]
      BY <1>0, <1>5, <3>1
    <3>. QED
      BY <1>6, <3>2
  <2>. QED
    BY <1>6, <2>1, <2>2
<1>8. Range(t) = {s[k] : k \in 1..place - 1}
  BY <1>2, <1>3
<1>. QED
  BY <1>1, <1>2, <1>4, <1>7, <1>8

(* What can be reached. *)
Edges == edges \in [Nodes -> SUBSET Nodes]

LEMMA ReachableIn ==
  ASSUME Edges, NEW n \in Nodes
  PROVE  n \in Reachable(n) /\ Reachable(n) \subseteq Nodes /\ edges[n] \subseteq Reachable(n)
<1>1. \A S \in SUBSET Nodes : n \in S /\ (\A k \in S : edges[k] \subseteq S) => edges[n] \subseteq S
  OBVIOUS
<1>2. edges[n] \subseteq Nodes
  BY DEF Edges
<1>. QED
  BY <1>1, <1>2 DEF Reachable

LEMMA ReachableOn ==
  ASSUME NEW n, NEW m \in Reachable(n), NEW k \in Reachable(m)
  PROVE  k \in Reachable(n)
BY DEF Reachable

LEMMA ReachableStays ==
  ASSUME NEW S \in SUBSET Nodes, NEW n \in S, \A k \in S : edges[k] \subseteq S
  PROVE  Reachable(n) \subseteq S
BY DEF Reachable

LEMMA ReachableSame ==
  ASSUME edges' = edges
  PROVE  \A n : Reachable(n)' = Reachable(n)
BY DEF Reachable

(* Meeting c, with the worklist W below it. *)
Stacks(c, W) ==
  /\ MetNodes' = MetNodes \cup {c} /\ c \notin MetNodes
  /\ index_of' \in [MetNodes' -> Nat] /\ low' \in [MetNodes' -> Nat]
  /\ \A n \in MetNodes : /\ index_of'[n] = index_of[n] /\ low'[n] = low[n]
                         /\ index_of[n] < index_of'[c]
  /\ low'[c] = index_of'[c]
  /\ stack' \in Seq(Nodes) /\ Stacked' = Stacked \cup {c}
  /\ Numbered'
  /\ Worklist(work)' /\ Active' = ActiveIn(W) \cup {c}
  /\ \A n, m : TriedIn(work, n, m)' => n # c /\ TriedIn(W, n, m)
  /\ components' = components

LEMMA MeetStacks ==
  ASSUME SearchShape, Numbered, MetOnce, NEW c \in Nodes \ MetNodes,
         NEW W, Worklist(W), InOrder(index_of, W), ActiveIn(W) \subseteq Stacked,
         Meet(c, W), edges' = edges, components' = components
  PROVE  Stacks(c, W)
<1>. DEFINE count == Cardinality(MetNodes)
<1>1. IsFiniteSet(MetNodes) /\ count \in Nat /\ Cardinality(MetNodes \cup {c}) = count + 1
  <2>1. IsFiniteSet(Nodes)
    BY FS_Interval, CountAssumption DEF Nodes
  <2>2. IsFiniteSet(MetNodes) /\ c \notin MetNodes
    BY <2>1, FS_Subset DEF SearchShape
  <2>3. IsFiniteSet(MetNodes)
    BY <2>2
  <2>. HIDE DEF MetNodes
  <2>. QED
    BY <2>2, <2>3, FS_CardinalityType, FS_AddElement
<1>2. /\ index_of' = [m \in MetNodes \cup {c} |-> IF m = c THEN count ELSE index_of[m]]
      /\ low' = [m \in MetNodes \cup {c} |-> IF m = c THEN count ELSE low[m]]
  BY DEF Meet, MetNodes, SearchShape
<1>3. stack' = Append(stack, c) /\ work' = Append(W, <<c, edges[c]>>)
  BY DEF Meet
<1>4. /\ MetNodes' = MetNodes \cup {c} /\ index_of'[c] = count /\ low'[c] = count
      /\ index_of' \in [MetNodes' -> Nat] /\ low' \in [MetNodes' -> Nat]
      /\ \A n \in MetNodes : /\ index_of'[n] = index_of[n] /\ low'[n] = low[n]
                             /\ index_of[n] < index_of'[c]
  <2>1. MetNodes' = MetNodes \cup {c}
    BY <1>2 DEF MetNodes
  <2>2. \A n \in MetNodes : index_of[n] \in Nat /\ low[n] \in Nat /\ index_of[n] < count /\ n # c
    BY DEF SearchShape, Numbered
  <2>. HIDE DEF count, MetNodes
  <2>3. index_of' \in [MetNodes \cup {c} -> Nat] /\ low' \in [MetNodes \cup {c} -> Nat]
    BY <1>1, <1>2, <2>2
  <2>. QED
    BY <1>1, <1>2, <2>1, <2>2, <2>3
<1>5. /\ stack' \in Seq(Nodes) /\ Len(stack') = Len(stack) + 1 /\ Stacked' = Stacked \cup {c}
      /\ \A k \in 1..Len(stack) : stack'[k] = stack[k]
      /\ stack'[Len(stack) + 1] = c /\ Len(stack) \in Nat
  <2>1. stack \in Seq(Nodes) /\ c \in Nodes
    BY DEF SearchShape
  <2>. QED
    BY <1>3, <2>1, RangeOfLonger DEF Stacked
<1>6. \A k \in 1..Len(stack) : stack[k] \in MetNodes
  <2>1. stack \in Seq(Nodes) /\ Range(stack) \subseteq MetNodes
    BY DEF SearchShape, MetOnce, Stacked
  <2>. QED
    BY <2>1, ElementsAre
<1>7. ASSUME NEW j \in DOMAIN stack', NEW k \in DOMAIN stack', j < k
      PROVE  index_of'[stack'[j]] < index_of'[stack'[k]]
  <2>1. DOMAIN stack' = 1..Len(stack) + 1 /\ DOMAIN stack = 1..Len(stack)
    BY <1>5, ElementsAre DEF SearchShape
  <2>2. j \in 1..Len(stack)
    BY <1>5, <1>7, <2>1
  <2>3. CASE k = Len(stack) + 1
    BY <1>4, <1>5, <1>6, <2>2, <2>3
  <2>4. CASE k \in 1..Len(stack)
    <3>1. index_of[stack[j]] < index_of[stack[k]]
      BY <1>7, <2>1, <2>2, <2>4 DEF Numbered
    <3>. QED
      BY <1>4, <1>5, <1>6, <2>2, <2>4, <3>1
  <2>. QED
    BY <1>5, <2>1, <2>3, <2>4
<1>8. \A n \in MetNodes' : index_of'[n] < Cardinality(MetNodes')
  <2>. HIDE DEF MetNodes
  <2>1. \A n \in MetNodes : index_of[n] \in Nat
    BY DEF SearchShape
  <2>. QED
    BY <1>1, <1>4, <2>1
<1>9. ActiveIn(W) \subseteq MetNodes
  BY DEF MetOnce
<1>10. InOrder(index_of', W)
  BY <1>4, <1>9 DEF InOrder, ActiveIn
<1>11. edges[c] \in SUBSET Nodes
  BY DEF SearchShape
<1>12. /\ Worklist(work') /\ ActiveIn(work') = ActiveIn(W) \cup {c}
       /\ \A n, m : TriedIn(work', n, m) => TriedIn(W, n, m) /\ (n = c => m \notin edges[c])
       /\ (InOrder(index_of', W) /\ \A x \in ActiveIn(W) : index_of'[x] < index_of'[c])
             => InOrder(index_of', work')
  <2>1. PICK P \in SUBSET Nodes : P = edges[c]
    BY <1>11
  <2>2. P \subseteq edges[c]
    BY <2>1
  <2>3. LET longer == Append(W, <<c, P>>)
        IN  /\ Worklist(longer) /\ ActiveIn(longer) = ActiveIn(W) \cup {c}
            /\ \A n, m : TriedIn(longer, n, m) => TriedIn(W, n, m) /\ (n = c => m \notin P)
            /\ InOrder(index_of', W) /\ (\A x \in ActiveIn(W) : index_of'[x] < index_of'[c])
                 => InOrder(index_of', longer)
    BY <2>2, EntryAdded
  <2>. QED
    BY <1>3, <2>1, <2>3
<1>13. \A x \in ActiveIn(W) : index_of'[x] < index_of'[c]
  BY <1>4, <1>9
<1>14. InOrder(index_of', work')
  BY <1>10, <1>12, <1>13
<1>15. Numbered'
  BY <1>7, <1>8, <1>14 DEF Numbered
<1>16. Worklist(work)'
  BY <1>12 DEF Worklist
<1>17. Active' = ActiveIn(W) \cup {c}
  BY <1>12 DEF Active, ActiveIn
<1>18. ASSUME NEW n, NEW m, TriedIn(work, n, m)' PROVE n # c /\ TriedIn(W, n, m)
  <2>1. TriedIn(work', n, m)
    BY <1>18 DEF TriedIn
  <2>2. m \in edges[n]
    BY <2>1 DEF TriedIn
  <2>. QED
    BY <1>12, <2>1, <2>2
<1>. QED
  BY <1>4, <1>5, <1>15, <1>16, <1>17, <1>18 DEF Stacks

(* So the rest of the invariant stays, where c is reached by all that is in the
   middle of its turn, and W has tried no edge but the one to c. *)
LEMMA MeetKeeps ==
  ASSUME SearchInv, NEW c \in Nodes, NEW W, Stacks(c, W), edges' = edges,
         ActiveIn(W) = Active, \A w \in Active : c \in Reachable(w),
         \A n, m : TriedIn(W, n, m) => Tried(n, m) \/ m = c,
         root' = root
  PROVE  SearchInv'
<1>. USE DEF SearchInv
<1>0. \A n : Reachable(n)' = Reachable(n)
  BY ReachableSame
<1>1. Active' = Active \cup {c} /\ c \notin MetNodes /\ Active \subseteq Stacked
  BY DEF Stacks, MetOnce
<1>2. Stacked' = Stacked \cup {c} /\ Stacked \subseteq MetNodes /\ MetNodes' = MetNodes \cup {c}
  BY DEF Stacks, MetOnce
<1>3. Closed' = Closed
  BY DEF Stacks, Closed
<1>4. \A n \in MetNodes : /\ index_of'[n] = index_of[n] /\ low'[n] = low[n]
                          /\ index_of[n] < index_of'[c]
                          /\ index_of[n] \in Nat /\ low[n] \in Nat
  BY DEF Stacks, SearchShape
<1>5. low'[c] = index_of'[c] /\ index_of'[c] \in Nat
  BY <1>2 DEF Stacks
<1>6. \A n, m : Tried(n, m)' => n # c /\ (Tried(n, m) \/ m = c)
  BY DEF Stacks, Tried
<1>7. c \in Reachable(c)
  BY ReachableIn DEF SearchShape, Edges
<1>. HIDE DEF MetNodes, Stacked, Active, Closed, Tried
<1>8. SearchShape'
  <2>1. MetNodes' \subseteq Nodes
    BY <1>2 DEF SearchShape
  <2>. QED
    BY <2>1 DEF SearchShape, Stacks
<1>9. Numbered'
  BY DEF Stacks
<1>10. MetOnce'
  BY <1>1, <1>2, <1>3 DEF MetOnce
<1>11. TriedSeen'
  <2>1. ASSUME NEW n \in MetNodes', NEW m \in Nodes, Tried(n, m)' PROVE m \in MetNodes'
    BY <1>2, <1>6, <2>1 DEF TriedSeen
  <2>. QED
    BY <2>1 DEF TriedSeen
<1>12. ClosedStays'
  BY <1>3 DEF ClosedStays
<1>13. LowReached'
  <2>1. ASSUME NEW n \in Stacked'
        PROVE  /\ low'[n] <= index_of'[n]
               /\ \E m \in Stacked' : m \in Reachable(n)' /\ low'[n] = index_of'[m]
    <3>1. CASE n = c
      BY <1>0, <1>2, <1>5, <1>7, <3>1
    <3>2. CASE n \in Stacked
      <4>1. PICK m \in Stacked : m \in Reachable(n) /\ low[n] = index_of[m]
        BY <3>2 DEF LowReached
      <4>2. low[n] <= index_of[n]
        BY <3>2 DEF LowReached
      <4>. QED
        BY <1>0, <1>2, <1>4, <3>2, <4>1, <4>2
    <3>. QED
      BY <1>2, <3>1, <3>2
  <2>. QED
    BY <2>1 DEF LowReached
<1>14. ReachesUp'
  <2>1. ASSUME NEW w \in Active', NEW n \in Stacked', index_of'[w] <= index_of'[n]
        PROVE  n \in Reachable(w)'
    <3>1. CASE w = c
      <4>1. n = c
        BY <1>2, <1>4, <1>5, <2>1, <3>1
      <4>. QED
        BY <1>0, <1>7, <3>1, <4>1
    <3>2. CASE w \in Active /\ n = c
      BY <1>0, <3>2
    <3>3. CASE w \in Active /\ n \in Stacked
      BY <1>0, <1>1, <1>2, <1>4, <2>1, <3>3 DEF ReachesUp
    <3>. QED
      BY <1>1, <1>2, <3>1, <3>2, <3>3
  <2>. QED
    BY <2>1 DEF ReachesUp
<1>15. ReachesBack'
  <2>1. ASSUME NEW n \in Stacked'
        PROVE  \E w \in Active' : index_of'[w] <= index_of'[n] /\ w \in Reachable(n)'
    <3>1. CASE n = c
      BY <1>0, <1>1, <1>5, <1>7, <3>1
    <3>2. CASE n \in Stacked
      <4>1. PICK w \in Active : index_of[w] <= index_of[n] /\ w \in Reachable(n)
        BY <3>2 DEF ReachesBack
      <4>. QED
        BY <1>0, <1>1, <1>2, <1>4, <3>2, <4>1
    <3>. QED
      BY <1>2, <3>1, <3>2
  <2>. QED
    BY <2>1 DEF ReachesBack
<1>16. LowTold'
  <2>1. ASSUME NEW n \in Stacked', NEW m \in Stacked', NEW w \in Active',
               Tried(n, m)', Under(w, n)'
        PROVE  low'[w] <= index_of'[m]
    <3>1. n \in Stacked
      BY <1>2, <1>6, <2>1
    <3>2. index_of'[w] <= index_of'[n]
      BY <2>1 DEF Under
    <3>3. w \in Active /\ w \in MetNodes
      BY <1>1, <1>2, <1>4, <1>5, <3>1, <3>2
    <3>4. CASE m = c
      <4>1. low[w] <= index_of[w]
        BY <1>1, <3>3 DEF LowReached
      <4>. QED
        BY <1>4, <1>5, <3>3, <3>4, <4>1
    <3>5. CASE m \in Stacked
      <4>1. Tried(n, m)
        BY <1>1, <1>2, <1>6, <2>1, <3>5
      <4>2. \A x \in Active : index_of'[w] < index_of'[x] => index_of'[n] < index_of'[x]
        BY <1>1, <2>1 DEF Under
      <4>3. Under(w, n)
        BY <1>1, <1>2, <1>4, <3>1, <3>2, <3>3, <4>2 DEF Under
      <4>4. low[w] <= index_of[m]
        BY <3>1, <3>3, <3>5, <4>1, <4>3 DEF LowTold
      <4>. QED
        BY <1>2, <1>4, <3>3, <3>5, <4>4
    <3>. QED
      BY <1>2, <3>4, <3>5
  <2>. QED
    BY <2>1 DEF LowTold
<1>17. ComponentsApart' /\ ComponentsAreSCCs'
  BY <1>0 DEF Stacks, ComponentsApart, ComponentsAreSCCs
<1>. QED
  BY <1>8, <1>9, <1>10, <1>11, <1>12, <1>13, <1>14, <1>15, <1>16, <1>17

(* No two nodes on the stack have the same number. *)
LEMMA NumbersDiffer ==
  ASSUME SearchInv, NEW n \in Stacked, NEW m \in Stacked, index_of[n] = index_of[m]
  PROVE  n = m
<1>1. stack \in Seq(Nodes)
  BY DEF SearchInv, SearchShape
<1>2. Stacked = {stack[k] : k \in 1..Len(stack)} /\ DOMAIN stack = 1..Len(stack)
  BY <1>1, ElementsAre DEF Stacked
<1>3. PICK j \in 1..Len(stack), k \in 1..Len(stack) : stack[j] = n /\ stack[k] = m
  BY <1>2
<1>4. index_of[n] \in Nat
  BY DEF SearchInv, SearchShape, MetOnce
<1>5. ~(j < k) /\ ~(k < j)
  BY <1>2, <1>3, <1>4 DEF SearchInv, Numbered
<1>. QED
  BY <1>3, <1>5

(* The worklist with one edge less to try. *)
Tries(node, child, rest) ==
  /\ node \in Active /\ node \in Nodes /\ child \in edges[node] /\ child \in Nodes
  /\ \A x \in Active : index_of[x] <= index_of[node]
  /\ Worklist(rest) /\ InOrder(index_of, rest) /\ ActiveIn(rest) = Active
  /\ \A n, m : TriedIn(rest, n, m) => Tried(n, m) \/ (n = node /\ m = child)

LEMMA RestTries ==
  ASSUME SearchInv, work # <<>>, Last(work)[2] # {}
  PROVE  LET node  == Last(work)[1]
             child == NextChild(Last(work)[2])
         IN  Tries(node, child, Append(Front(work), <<node, StillToTry(Last(work)[2])>>))
<1>. DEFINE node == Last(work)[1]
            pending == Last(work)[2]
            child == NextChild(pending)
            below == Front(work)
<1>. USE DEF SearchInv
<1>0. Active \subseteq MetNodes
  BY DEF MetOnce
<1>1. \A x \in ActiveIn(work) : index_of[x] \in Nat
  BY <1>0 DEF SearchShape, Active
<1>2. /\ node \in ActiveIn(work) /\ node \in Nodes
      /\ pending \subseteq edges[node] /\ pending \in SUBSET Nodes
      /\ \A x \in ActiveIn(below) : index_of[x] < index_of[node]
      /\ ActiveIn(work) = ActiveIn(below) \cup {node}
      /\ node \notin ActiveIn(below)
      /\ Worklist(below) /\ InOrder(index_of, below)
      /\ \A n, m : TriedIn(below, n, m) => TriedIn(work, n, m) \/ (n = node /\ m \in pending)
  <2>1. Worklist(work) /\ InOrder(index_of, work)
    BY DEF SearchShape, Numbered
  <2>. QED
    BY <1>1, <2>1, TopEntry
<1>3. child \in pending
  <2>1. IsFiniteSet(Nodes) /\ Nodes \subseteq Nat
    BY FS_Interval, CountAssumption DEF Nodes
  <2>2. pending \in SUBSET Nat /\ IsFiniteSet(pending) /\ pending # {}
    BY <1>2, <2>1, FS_Subset
  <2>. HIDE DEF pending
  <2>. QED
    BY <2>2, MaxOfFinite DEF NextChild
<1>4. PICK P \in SUBSET Nodes : P = pending \ {child}
  BY <1>2
<1>5. P \subseteq edges[node] /\ StillToTry(pending) = P
  BY <1>2, <1>4 DEF StillToTry
<1>6. LET longer == Append(below, <<node, P>>)
      IN  /\ Worklist(longer) /\ ActiveIn(longer) = ActiveIn(below) \cup {node}
          /\ \A n, m : TriedIn(longer, n, m) => TriedIn(below, n, m) /\ (n = node => m \notin P)
          /\ InOrder(index_of, below) /\ (\A x \in ActiveIn(below) : index_of[x] < index_of[node])
               => InOrder(index_of, longer)
  BY <1>2, <1>5, EntryAdded
<1>7. PICK rest : rest = Append(below, <<node, P>>)
  OBVIOUS
<1>8. Worklist(rest) /\ InOrder(index_of, rest) /\ ActiveIn(rest) = Active
  BY <1>2, <1>6, <1>7 DEF Active
<1>9. ASSUME NEW n, NEW m, TriedIn(rest, n, m) PROVE Tried(n, m) \/ (n = node /\ m = child)
  <2>1. TriedIn(below, n, m) /\ (n = node => m \notin P)
    BY <1>6, <1>7, <1>9
  <2>2. TriedIn(work, n, m) \/ (n = node /\ m \in pending)
    BY <1>2, <2>1
  <2>. QED
    BY <1>4, <2>1, <2>2 DEF Tried
<1>10. \A x \in Active : index_of[x] <= index_of[node]
  <2>1. \A x \in ActiveIn(below) \cup {node} : index_of[x] \in Nat
    BY <1>1, <1>2
  <2>2. \A x \in ActiveIn(below) \cup {node} : index_of[x] < index_of[node] \/ x = node
    BY <1>2
  <2>. HIDE DEF node, below
  <2>3. \A x \in ActiveIn(below) \cup {node} : index_of[x] <= index_of[node]
    BY <2>1, <2>2
  <2>. QED
    BY <1>2, <2>3 DEF Active
<1>11. child \in edges[node] /\ child \in Nodes
  BY <1>2, <1>3
<1>. QED
  BY <1>2, <1>5, <1>7, <1>8, <1>9, <1>10, <1>11 DEF Tries, Active

(* The edge to a node already met is counted in. *)
LEMMA EdgeKeeps ==
  ASSUME SearchInv, NEW node, NEW child, NEW rest, Tries(node, child, rest), Met(child),
         low' = [low EXCEPT ![node] = LowVia(node, child)], work' = rest,
         UNCHANGED <<edges, root, index_of, stack, components>>
  PROVE  SearchInv'
<1>. USE DEF SearchInv
<1>0. \A n : Reachable(n)' = Reachable(n)
  BY ReachableSame
<1>1. Active' = Active /\ Stacked' = Stacked /\ Closed' = Closed /\ MetNodes' = MetNodes
  BY DEF Tries, Active, ActiveIn, Stacked, Closed, MetNodes
<1>2. node \in Active /\ Active \subseteq Stacked /\ Stacked \subseteq MetNodes
  BY DEF Tries, MetOnce
<1>3. \A n \in MetNodes : index_of[n] \in Nat /\ low[n] \in Nat
  BY DEF SearchShape
<1>4. child \in MetNodes /\ child \in edges[node] /\ child \in Nodes
  BY DEF Met, MetNodes, Tries
<1>5. PICK l : l = LowVia(node, child)
  OBVIOUS
<1>6. /\ l \in Nat /\ l <= low[node]
      /\ l = low[node] \/ (child \in Stacked /\ l = index_of[child])
      /\ child \in Stacked => l <= index_of[child]
  <2>1. PICK a \in Nat, b \in Nat : a = low[node] /\ b = index_of[child]
    BY <1>2, <1>3, <1>4
  <2>2. Min({a, b}) \in {a, b} /\ \A y \in {a, b} : Min({a, b}) <= y
    BY MinOfNaturals
  <2>. QED
    BY <1>5, <2>1, <2>2 DEF LowVia, Stacked
<1>7. /\ \A n \in MetNodes : n # node => low'[n] = low[n]
      /\ low'[node] = l /\ low' \in [MetNodes -> Nat]
  <2>1. low \in [MetNodes -> Nat] /\ node \in MetNodes
    BY <1>2 DEF SearchShape
  <2>. HIDE DEF MetNodes
  <2>. QED
    BY <1>5, <1>6, <2>1
<1>8. \A n, m : Tried(n, m)' => Tried(n, m) \/ (n = node /\ m = child)
  BY DEF Tries, Tried, TriedIn
<1>9. child \in Reachable(node)
  BY <1>4, ReachableIn DEF Tries, SearchShape, Edges
<1>10. \A w, n : Under(w, n)' <=> Under(w, n)
  BY <1>1 DEF Under
<1>. HIDE DEF MetNodes, Stacked, Active, Closed, Tried, Under
<1>11. SearchShape'
  <2>1. Worklist(work)'
    BY DEF Tries, Worklist
  <2>. QED
    BY <1>1, <1>7, <2>1 DEF SearchShape
<1>12. Numbered'
  <2>1. InOrder(index_of, work)'
    BY DEF Tries, InOrder
  <2>. QED
    BY <1>1, <2>1 DEF Numbered
<1>13. MetOnce' /\ ClosedStays' /\ ReachesUp' /\ ReachesBack'
  BY <1>0, <1>1 DEF MetOnce, ClosedStays, ReachesUp, ReachesBack
<1>14. TriedSeen'
  BY <1>1, <1>4, <1>8 DEF TriedSeen
<1>15. LowReached'
  <2>1. ASSUME NEW n \in Stacked
        PROVE  /\ low'[n] <= index_of[n]
               /\ \E m \in Stacked : m \in Reachable(n) /\ low'[n] = index_of[m]
    <3>1. low[n] <= index_of[n] /\ \E m \in Stacked : m \in Reachable(n) /\ low[n] = index_of[m]
      BY DEF LowReached
    <3>2. CASE n # node
      BY <1>2, <1>7, <3>1, <3>2
    <3>3. CASE n = node
      <4>1. low'[n] <= index_of[n]
        BY <1>2, <1>3, <1>6, <1>7, <3>1, <3>3
      <4>. QED
        BY <1>6, <1>7, <1>9, <3>1, <3>3, <4>1
    <3>. QED
      BY <3>2, <3>3
  <2>. QED
    BY <1>0, <1>1, <2>1 DEF LowReached
<1>16. LowTold'
  <2>1. ASSUME NEW n \in Stacked, NEW m \in Stacked, NEW w \in Active,
               Tried(n, m)', Under(w, n)
        PROVE  low'[w] <= index_of[m]
    <3>1. CASE Tried(n, m)
      <4>1. low[w] <= index_of[m]
        BY <2>1, <3>1 DEF LowTold
      <4>2. low'[w] <= low[w]
        BY <1>2, <1>3, <1>6, <1>7
      <4>3. low'[w] \in Nat /\ low[w] \in Nat /\ index_of[m] \in Nat
        BY <1>2, <1>3, <1>7
      <4>. QED
        BY <4>1, <4>2, <4>3
    <3>2. CASE n = node /\ m = child
      <4>1. w = node
        <5>1. index_of[w] <= index_of[node] /\ ~(index_of[w] < index_of[node])
          <6>1. index_of[w] <= index_of[node]
                /\ (index_of[w] < index_of[node] => index_of[node] < index_of[node])
            BY <1>2, <2>1, <3>2 DEF Under
          <6>2. index_of[node] \in Nat
            BY <1>2, <1>3
          <6>. QED
            BY <6>1, <6>2
        <5>2. index_of[w] = index_of[node]
          BY <1>2, <1>3, <5>1
        <5>. QED
          BY <1>2, <5>2, NumbersDiffer
      <4>. QED
        BY <1>6, <1>7, <3>2, <4>1
    <3>. QED
      BY <1>8, <2>1, <3>1, <3>2
  <2>. QED
    BY <1>1, <1>10, <2>1 DEF LowTold
<1>17. ComponentsApart' /\ ComponentsAreSCCs'
  BY <1>0 DEF ComponentsApart, ComponentsAreSCCs
<1>. QED
  BY <1>11, <1>12, <1>13, <1>14, <1>15, <1>16, <1>17

(* The end of a node's turn: it is off the worklist, all its edges are tried,
   and the node below has been told its low. *)
Ends(node) ==
  /\ node \in Active
  /\ \A x \in Active : x = node \/ index_of[x] < index_of[node]
  /\ \A m \in edges[node] : Tried(node, m)
  /\ Worklist(work)' /\ InOrder(index_of, work)'
  /\ Active' = Active \ {node}
  /\ \A n, m : Tried(n, m)' => Tried(n, m)
  /\ low' \in [MetNodes -> Nat]
  /\ \A n \in MetNodes : low'[n] <= low[n] /\ (low'[n] = low[n] \/ low'[n] = low[node])
  /\ \A w \in Active' : \/ \E x \in Active' : index_of[w] < index_of[x]
                        \/ low'[w] <= low[node]

LEMMA FinishEnds ==
  ASSUME SearchInv, Finish
  PROVE  Ends(Last(work)[1])
<1>. DEFINE node == Last(work)[1]
            below == Front(work)
<1>. USE DEF SearchInv
<1>0. Active \subseteq MetNodes /\ work # <<>> /\ Last(work)[2] = {}
  BY DEF MetOnce, Finish
<1>1. \A x \in ActiveIn(work) : index_of[x] \in Nat
  BY <1>0 DEF SearchShape, Active
<1>2. /\ node \in ActiveIn(work) /\ node \in Nodes
      /\ \A x \in ActiveIn(below) : index_of[x] < index_of[node]
      /\ ActiveIn(work) = ActiveIn(below) \cup {node}
      /\ node \notin ActiveIn(below)
      /\ Worklist(below) /\ InOrder(index_of, below)
      /\ \A n, m : TriedIn(below, n, m) => TriedIn(work, n, m) \/ (n = node /\ m \in Last(work)[2])
  <2>1. Worklist(work) /\ InOrder(index_of, work)
    BY DEF SearchShape, Numbered
  <2>. QED
    BY <1>0, <1>1, <2>1, TopEntry
<1>3. work' = below /\ edges' = edges /\ index_of' = index_of
  BY DEF Finish
<1>4. /\ Worklist(work)' /\ InOrder(index_of, work)' /\ Active' = ActiveIn(below)
      /\ \A n, m : Tried(n, m)' <=> TriedIn(below, n, m)
  BY <1>2, <1>3 DEF Worklist, InOrder, Active, ActiveIn, Tried, TriedIn
<1>5. \A n, m : Tried(n, m)' => Tried(n, m)
  BY <1>0, <1>2, <1>4 DEF Tried
<1>6. ASSUME NEW m \in edges[node] PROVE Tried(node, m)
  <2>1. TriedIn(below, node, m)
    BY <1>2 DEF TriedIn, ActiveIn
  <2>. QED
    BY <1>0, <1>2, <2>1 DEF Tried
<1>7. low' = IF below = <<>> THEN low
             ELSE [low EXCEPT ![Last(below)[1]] = Min({@, low[node]})]
  BY DEF Finish
<1>8. /\ low \in [MetNodes -> Nat] /\ node \in MetNodes
      /\ \A n \in MetNodes : low[n] \in Nat /\ index_of[n] \in Nat
  BY <1>0, <1>2 DEF SearchShape, Active
<1>9. /\ low' \in [MetNodes -> Nat]
      /\ \A n \in MetNodes : low'[n] <= low[n] /\ (low'[n] = low[n] \/ low'[n] = low[node])
      /\ \A w \in ActiveIn(below) : \/ \E x \in ActiveIn(below) : index_of[w] < index_of[x]
                                    \/ low'[w] <= low[node]
  <2>1. CASE below = <<>>
    <3>1. ActiveIn(below) = {} /\ low' = low
      BY <1>7, <2>1 DEF ActiveIn
    <3>. QED
      BY <1>8, <3>1
  <2>2. CASE below # <<>>
    <3>. DEFINE under == Last(below)[1]
    <3>1. \A x \in ActiveIn(below) : index_of[x] \in Nat
      BY <1>1, <1>2
    <3>2. /\ under \in ActiveIn(below)
          /\ \A x \in ActiveIn(Front(below)) : index_of[x] < index_of[under]
          /\ ActiveIn(below) = ActiveIn(Front(below)) \cup {under}
      <4>. HIDE DEF below, node
      <4>. QED
        BY <1>2, <2>2, <3>1, TopEntry
    <3>3. \A w \in ActiveIn(below) : w = under \/ index_of[w] < index_of[under]
      BY <3>2
    <3>4. under \in MetNodes
      BY <1>0, <1>2, <3>2 DEF Active
    <3>5. PICK u \in MetNodes : u = under
      BY <3>4
    <3>6. PICK a \in Nat, b \in Nat : a = low[u] /\ b = low[node]
      BY <1>8
    <3>7. PICK l : l = Min({a, b})
      OBVIOUS
    <3>8. l \in {a, b} /\ l <= a /\ l <= b
      <4>1. Min({a, b}) \in {a, b} /\ \A y \in {a, b} : Min({a, b}) <= y
        BY MinOfNaturals
      <4>. QED
        BY <3>7, <4>1
    <3>9. low' = [low EXCEPT ![u] = l]
      BY <1>7, <2>2, <3>5, <3>6, <3>7
    <3>. HIDE DEF under, below, node, MetNodes
    <3>10. low' \in [MetNodes -> Nat] /\ low'[u] = l /\ \A n \in MetNodes : n # u => low'[n] = low[n]
      BY <1>8, <3>6, <3>8, <3>9
    <3>11. ASSUME NEW n \in MetNodes
           PROVE  low'[n] <= low[n] /\ (low'[n] = low[n] \/ low'[n] = low[node])
      BY <1>8, <3>6, <3>8, <3>10
    <3>12. ASSUME NEW w \in ActiveIn(below)
           PROVE  (\E x \in ActiveIn(below) : index_of[w] < index_of[x]) \/ low'[w] <= low[node]
      BY <3>2, <3>3, <3>5, <3>6, <3>8, <3>10
    <3>. QED
      BY <3>10, <3>11, <3>12
  <2>. QED
    BY <2>1, <2>2
<1>10. \A x \in Active : x = node \/ index_of[x] < index_of[node]
  BY <1>2 DEF Active
<1>11. Active' = Active \ {node} /\ node \in Active
  BY <1>2, <1>4 DEF Active
<1>. HIDE DEF node
<1>12. \A w \in Active' : \/ \E x \in Active' : index_of[w] < index_of[x]
                          \/ low'[w] <= low[node]
  BY <1>4, <1>9
<1>13. Ends(node)
  BY <1>4, <1>5, <1>6, <1>9, <1>10, <1>11, <1>12, Zenon DEF Ends
<1>. QED
  BY <1>13 DEF node

(* Where the node can reach one stacked before it, it stays on the stack. *)
LEMMA EndKeeps ==
  ASSUME SearchInv, NEW node, Ends(node), low[node] # index_of[node],
         UNCHANGED <<edges, root, index_of, stack, components>>
  PROVE  SearchInv'
<1>. USE DEF SearchInv
<1>0. \A n : Reachable(n)' = Reachable(n)
  BY ReachableSame
<1>1. /\ Active' = Active \ {node} /\ Stacked' = Stacked /\ Closed' = Closed
      /\ MetNodes' = MetNodes
  BY DEF Ends, Stacked, Closed, MetNodes
<1>2. node \in Active /\ Active \subseteq Stacked /\ Stacked \subseteq MetNodes
  BY DEF Ends, MetOnce
<1>3. \A n \in MetNodes : index_of[n] \in Nat /\ low[n] \in Nat /\ low'[n] \in Nat
  BY DEF SearchShape, Ends
<1>4. \A x \in Active : x = node \/ index_of[x] < index_of[node]
  BY DEF Ends
<1>5. \A n \in MetNodes : low'[n] <= low[n] /\ (low'[n] = low[n] \/ low'[n] = low[node])
  BY DEF Ends
<1>6. \A n, m : Tried(n, m)' => Tried(n, m)
  BY DEF Ends
<1>7. PICK back \in Stacked : back \in Reachable(node) /\ low[node] = index_of[back]
                              /\ index_of[back] < index_of[node]
  <2>1. low[node] <= index_of[node] /\ \E m \in Stacked : m \in Reachable(node) /\ low[node] = index_of[m]
    BY <1>2 DEF LowReached
  <2>2. PICK m \in Stacked : m \in Reachable(node) /\ low[node] = index_of[m]
    BY <2>1
  <2>3. index_of[m] < index_of[node]
    BY <1>2, <1>3, <2>1, <2>2
  <2>. QED
    BY <2>2, <2>3
<1>. HIDE DEF MetNodes, Stacked, Active, Closed, Tried
<1>8. SearchShape' /\ Numbered'
  BY <1>1 DEF SearchShape, Numbered, Ends
<1>9. MetOnce' /\ ClosedStays' /\ ReachesUp'
  BY <1>0, <1>1 DEF MetOnce, ClosedStays, ReachesUp
<1>10. TriedSeen'
  BY <1>1, <1>6 DEF TriedSeen
<1>11. LowReached'
  <2>1. ASSUME NEW n \in Stacked
        PROVE  low'[n] <= index_of[n] /\ \E m \in Stacked : m \in Reachable(n) /\ low'[n] = index_of[m]
    <3>1. PICK m \in Stacked : m \in Reachable(n) /\ low[n] = index_of[m]
      BY DEF LowReached
    <3>2. low[n] <= index_of[n]
      BY DEF LowReached
    <3>3. low'[n] <= index_of[n]
      BY <1>2, <1>3, <1>5, <3>2
    <3>4. CASE low'[n] = low[n]
      BY <3>1, <3>3, <3>4
    <3>5. CASE low'[n] = low[node]
      <4>1. PICK w \in Active : index_of[w] <= index_of[n] /\ w \in Reachable(n)
        BY DEF ReachesBack
      <4>2. index_of[w] <= index_of[node]
        BY <1>2, <1>3, <1>4
      <4>3. node \in Reachable(w)
        BY <1>2, <4>2 DEF ReachesUp
      <4>4. node \in Reachable(n)
        BY <4>1, <4>3, ReachableOn
      <4>5. back \in Reachable(n)
        BY <1>7, <4>4, ReachableOn
      <4>. QED
        BY <1>7, <3>3, <3>5, <4>5
    <3>. QED
      BY <1>2, <1>5, <3>4, <3>5
  <2>. QED
    BY <1>0, <1>1, <2>1 DEF LowReached
<1>12. ReachesBack'
  <2>1. PICK w2 \in Active : index_of[w2] <= index_of[back] /\ w2 \in Reachable(back)
    BY <1>7 DEF ReachesBack
  <2>2. w2 # node /\ w2 \in Reachable(node) /\ index_of[w2] <= index_of[node]
    BY <1>2, <1>3, <1>7, <2>1, ReachableOn
  <2>3. ASSUME NEW n \in Stacked
        PROVE  \E w \in Active \ {node} : index_of[w] <= index_of[n] /\ w \in Reachable(n)
    <3>1. PICK w \in Active : index_of[w] <= index_of[n] /\ w \in Reachable(n)
      BY DEF ReachesBack
    <3>2. CASE w # node
      BY <3>1, <3>2
    <3>3. CASE w = node
      <4>1. w2 \in Reachable(n)
        BY <2>2, <3>1, <3>3, ReachableOn
      <4>2. index_of[w2] <= index_of[n]
        BY <1>2, <1>3, <2>2, <3>1, <3>3
      <4>. QED
        BY <2>2, <4>1, <4>2
    <3>. QED
      BY <3>2, <3>3
  <2>. QED
    BY <1>0, <1>1, <2>3 DEF ReachesBack
<1>13. LowTold'
  <2>1. ASSUME NEW n \in Stacked, NEW m \in Stacked, NEW w \in Active \ {node},
               Tried(n, m)', Under(w, n)'
        PROVE  low'[w] <= index_of[m]
    <3>0. /\ index_of[w] \in Nat /\ index_of[n] \in Nat /\ index_of[m] \in Nat
          /\ index_of[node] \in Nat /\ low[w] \in Nat /\ low'[w] \in Nat /\ low[node] \in Nat
          /\ low'[w] <= low[w] /\ index_of[w] < index_of[node]
      BY <1>2, <1>3, <1>4, <1>5
    <3>1. /\ index_of[w] <= index_of[n]
          /\ \A x \in Active \ {node} : index_of[w] < index_of[x] => index_of[n] < index_of[x]
      BY <1>1, <2>1 DEF Under
    <3>2. CASE index_of[n] < index_of[node]
      <4>1. Under(w, n)
        BY <3>1, <3>2 DEF Under
      <4>2. low[w] <= index_of[m]
        BY <1>6, <2>1, <4>1 DEF LowTold
      <4>. QED
        BY <3>0, <4>2
    <3>3. CASE index_of[node] <= index_of[n]
      <4>1. \A x \in Active : ~(index_of[node] < index_of[x])
        BY <1>2, <1>3, <1>4
      <4>2. Under(node, n)
        BY <3>3, <4>1 DEF Under
      <4>3. low[node] <= index_of[m]
        BY <1>2, <1>6, <2>1, <4>2 DEF LowTold
      <4>4. \A x \in Active \ {node} : ~(index_of[w] < index_of[x])
        <5>1. \A x \in Active \ {node} : index_of[x] \in Nat /\ index_of[x] < index_of[node]
          BY <1>2, <1>3, <1>4
        <5>. QED
          BY <3>0, <3>1, <3>3, <5>1
      <4>5. low'[w] <= low[node]
        BY <1>1, <4>4 DEF Ends
      <4>. QED
        BY <3>0, <4>3, <4>5
    <3>. QED
      BY <3>0, <3>2, <3>3
  <2>. QED
    BY <1>1, <2>1 DEF LowTold
<1>14. ComponentsApart' /\ ComponentsAreSCCs'
  BY <1>0 DEF ComponentsApart, ComponentsAreSCCs
<1>. QED
  BY <1>8, <1>9, <1>10, <1>11, <1>12, <1>13, <1>14

(* Otherwise it and all stacked since are a component. *)
StackedFrom(node) == {n \in Stacked : index_of[node] <= index_of[n]}
StackedBefore(node) == {n \in Stacked : index_of[n] < index_of[node]}

LEMMA StackCut ==
  ASSUME SearchInv, NEW node \in Stacked,
         NEW place, place = CHOOSE k \in DOMAIN stack : stack[k] = node
  PROVE  /\ MembersFrom(place) = StackedFrom(node)
         /\ SubSeq(stack, 1, place - 1) \in Seq(Nodes)
         /\ Range(SubSeq(stack, 1, place - 1)) = StackedBefore(node)
         /\ \A j, k \in DOMAIN SubSeq(stack, 1, place - 1) :
              j < k => index_of[SubSeq(stack, 1, place - 1)[j]] < index_of[SubSeq(stack, 1, place - 1)[k]]
<1>1. stack \in Seq(Nodes)
  BY DEF SearchInv, SearchShape
<1>2. /\ Stacked = {stack[k] : k \in 1..Len(stack)} /\ DOMAIN stack = 1..Len(stack)
      /\ Len(stack) \in Nat
  BY <1>1, ElementsAre DEF Stacked
<1>3. place \in 1..Len(stack) /\ stack[place] = node
  BY <1>2
<1>4. PICK t : t = SubSeq(stack, 1, place - 1)
  OBVIOUS
<1>5. /\ t \in Seq(Nodes) /\ Len(t) = place - 1 /\ \A k \in 1..place - 1 : t[k] = stack[k]
      /\ Range(t) = {stack[k] : k \in 1..place - 1}
      /\ Range(SubSeq(stack, place, Len(stack))) = {stack[k] : k \in place..Len(stack)}
  <2>1. place \in 1..Len(stack)
    BY <1>3
  <2>2. /\ SubSeq(stack, 1, place - 1) \in Seq(Nodes)
        /\ Len(SubSeq(stack, 1, place - 1)) = place - 1
        /\ \A k \in 1..place - 1 : SubSeq(stack, 1, place - 1)[k] = stack[k]
        /\ Range(SubSeq(stack, 1, place - 1)) = {stack[k] : k \in 1..place - 1}
        /\ Range(SubSeq(stack, place, Len(stack))) = {stack[k] : k \in place..Len(stack)}
    BY <1>1, <2>1, RangeOfShorter
  <2>. QED
    BY <1>4, <2>2
<1>6. \A k \in 1..Len(stack) : index_of[stack[k]] \in Nat
  BY <1>2 DEF SearchInv, SearchShape, MetOnce
<1>7. /\ \A k \in 1..place - 1 : index_of[stack[k]] < index_of[node]
      /\ \A k \in place..Len(stack) : index_of[node] <= index_of[stack[k]]
  <2>1. \A j, k \in 1..Len(stack) : j < k => index_of[stack[j]] < index_of[stack[k]]
    BY <1>2 DEF SearchInv, Numbered
  <2>2. \A k \in 1..place - 1 : index_of[stack[k]] < index_of[node]
    BY <1>2, <1>3, <2>1
  <2>3. ASSUME NEW k \in place..Len(stack) PROVE index_of[node] <= index_of[stack[k]]
    <3>1. k = place \/ place < k
      BY <1>2, <1>3
    <3>2. k \in 1..Len(stack)
      BY <1>2, <1>3
    <3>. QED
      BY <1>3, <1>6, <2>1, <3>1, <3>2
  <2>. QED
    BY <2>2, <2>3
<1>8. 1..Len(stack) = 1..place - 1 \cup place..Len(stack)
  BY <1>2, <1>3
<1>9. \A k \in 1..Len(stack) : stack[k] \in Stacked
  BY <1>2
<1>10. {stack[k] : k \in 1..place - 1} = StackedBefore(node)
  <2>1. \A k \in 1..place - 1 : stack[k] \in StackedBefore(node)
    BY <1>7, <1>8, <1>9 DEF StackedBefore
  <2>2. ASSUME NEW n \in StackedBefore(node) PROVE n \in {stack[k] : k \in 1..place - 1}
    <3>1. PICK k \in 1..Len(stack) : n = stack[k] /\ index_of[n] < index_of[node]
      BY <1>2 DEF StackedBefore
    <3>2. k \notin place..Len(stack)
      BY <1>3, <1>6, <1>7, <3>1
    <3>. QED
      BY <1>8, <3>1, <3>2
  <2>. QED
    BY <2>1, <2>2
<1>11. {stack[k] : k \in place..Len(stack)} = StackedFrom(node)
  <2>1. \A k \in place..Len(stack) : stack[k] \in StackedFrom(node)
    BY <1>7, <1>8, <1>9 DEF StackedFrom
  <2>2. ASSUME NEW n \in StackedFrom(node) PROVE n \in {stack[k] : k \in place..Len(stack)}
    <3>1. PICK k \in 1..Len(stack) : n = stack[k] /\ index_of[node] <= index_of[n]
      BY <1>2 DEF StackedFrom
    <3>2. k \notin 1..place - 1
      BY <1>3, <1>6, <1>7, <3>1
    <3>. QED
      BY <1>8, <3>1, <3>2
  <2>. QED
    BY <2>1, <2>2
<1>12. MembersFrom(place) = StackedFrom(node)
  BY <1>5, <1>11 DEF MembersFrom
<1>13. DOMAIN t = 1..place - 1 /\ \A k \in 1..place - 1 : k \in DOMAIN stack
  BY <1>2, <1>3, <1>5, ElementsAre
<1>14. \A j, k \in DOMAIN t : j < k => index_of[t[j]] < index_of[t[k]]
  BY <1>5, <1>13 DEF SearchInv, Numbered
<1>. QED
  BY <1>4, <1>5, <1>10, <1>12, <1>14

(* That it is strongly connected, and that no edge leaves it but into what is
   closed. *)
LEMMA ComponentFound ==
  ASSUME SearchInv, NEW node, Ends(node), low[node] = index_of[node]
  PROVE  /\ \A n \in StackedFrom(node) :
              StackedFrom(node) = {m \in Reachable(n) : n \in Reachable(m)}
         /\ \A n \in StackedFrom(node) : edges[n] \subseteq StackedFrom(node) \cup Closed
<1>. USE DEF SearchInv
<1>. DEFINE M == StackedFrom(node)
<1>2. node \in Active /\ Active \subseteq Stacked /\ Stacked \subseteq MetNodes
      /\ MetNodes \subseteq Nodes /\ Closed \subseteq Nodes /\ Edges
  BY DEF Ends, MetOnce, SearchShape, Edges
<1>3. \A n \in MetNodes : index_of[n] \in Nat
  BY DEF SearchShape
<1>4. \A x \in Active : x = node \/ index_of[x] < index_of[node]
  BY DEF Ends
<1>. HIDE DEF MetNodes, Stacked, Active, Closed, Tried
<1>5. \A n \in M : n \in Stacked /\ index_of[node] <= index_of[n]
  BY DEF StackedFrom
<1>. HIDE DEF M
<1>6. ASSUME NEW n \in M, NEW m \in edges[n] PROVE m \in M \cup Closed
  <2>1. n \in Nodes /\ m \in Nodes
    BY <1>2, <1>5, <1>6 DEF Edges
  <2>2. Tried(n, m)
    <3>1. CASE n = node
      BY <1>6, <3>1 DEF Ends
    <3>2. CASE n # node
      <4>1. n \notin Active
        BY <1>2, <1>3, <1>4, <1>5, <3>2
      <4>. QED
        BY <1>6, <4>1 DEF Tried, TriedIn, Active, ActiveIn
    <3>. QED
      BY <3>1, <3>2
  <2>3. m \in MetNodes
    BY <1>2, <1>5, <2>1, <2>2 DEF TriedSeen
  <2>4. ASSUME m \in Stacked PROVE m \in M
    <3>1. \A x \in Active : ~(index_of[node] < index_of[x])
      BY <1>2, <1>3, <1>4
    <3>2. Under(node, n)
      BY <1>5, <3>1 DEF Under
    <3>3. low[node] <= index_of[m]
      BY <1>2, <1>5, <2>2, <2>4, <3>2 DEF LowTold
    <3>. QED
      BY <2>4, <3>3 DEF M, StackedFrom
  <2>. QED
    BY <2>3, <2>4 DEF MetOnce
<1>7. ASSUME NEW n \in M, NEW m \in M PROVE m \in Reachable(n)
  <2>1. PICK w \in Active : index_of[w] <= index_of[n] /\ w \in Reachable(n)
    BY <1>5 DEF ReachesBack
  <2>2. index_of[w] <= index_of[node]
    BY <1>2, <1>3, <1>4
  <2>3. node \in Reachable(w)
    BY <1>2, <2>2 DEF ReachesUp
  <2>4. m \in Reachable(node)
    BY <1>2, <1>5 DEF ReachesUp
  <2>. QED
    BY <2>1, <2>3, <2>4, ReachableOn
<1>8. ASSUME NEW n \in M, NEW m \in Reachable(n), n \in Reachable(m) PROVE m \in M
  <2>1. M \cup Closed \in SUBSET Nodes /\ \A k \in M \cup Closed : edges[k] \subseteq M \cup Closed
    BY <1>2, <1>5, <1>6 DEF ClosedStays
  <2>2. m \in M \cup Closed
    BY <2>1, ReachableStays
  <2>3. ASSUME m \in Closed PROVE FALSE
    <3>1. Reachable(m) \subseteq Closed
      BY <1>2, <2>3, ReachableStays DEF ClosedStays
    <3>. QED
      BY <1>5, <1>8, <3>1 DEF MetOnce
  <2>. QED
    BY <2>2, <2>3
<1>9. ASSUME NEW n \in M PROVE M = {m \in Reachable(n) : n \in Reachable(m)}
  BY <1>7, <1>8
<1>. QED
  BY <1>6, <1>9 DEF M

LEMMA EndCloses ==
  ASSUME SearchInv, NEW node, Ends(node), low[node] = index_of[node],
         stack' \in Seq(Nodes), Stacked' = StackedBefore(node),
         \A j, k \in DOMAIN stack' : j < k => index_of[stack'[j]] < index_of[stack'[k]],
         components' = Append(components, StackedFrom(node)),
         UNCHANGED <<edges, root, index_of>>
  PROVE  SearchInv'
<1>. USE DEF SearchInv
<1>. DEFINE M == StackedFrom(node)
<1>0. \A n : Reachable(n)' = Reachable(n)
  BY ReachableSame
<1>1. node \in Active /\ Active \subseteq Stacked /\ Stacked \subseteq MetNodes
      /\ MetNodes \subseteq Nodes
  BY DEF Ends, MetOnce, SearchShape
<1>2. \A n \in MetNodes : index_of[n] \in Nat /\ low[n] \in Nat /\ low'[n] \in Nat
  BY DEF SearchShape, Ends
<1>3. \A x \in Active : x = node \/ index_of[x] < index_of[node]
  BY DEF Ends
<1>4. \A n \in MetNodes : low'[n] <= low[n] /\ (low'[n] = low[n] \/ low'[n] = low[node])
  BY DEF Ends
<1>5. \A n, m : Tried(n, m)' => Tried(n, m)
  BY DEF Ends
<1>6. /\ components' \in Seq(SUBSET Nodes) /\ Len(components') = Len(components) + 1
      /\ Len(components) \in Nat
      /\ \A k \in 1..Len(components) : components'[k] = components[k]
      /\ components'[Len(components) + 1] = M
      /\ Range(components') = Range(components) \cup {M}
  <2>1. components \in Seq(SUBSET Nodes) /\ M \in SUBSET Nodes
    BY <1>1 DEF SearchShape, StackedFrom
  <2>. QED
    BY <2>1, RangeOfLonger
<1>7. Closed' = Closed \cup M
  BY <1>6 DEF Closed
<1>8. Active' = Active \ {node} /\ MetNodes' = MetNodes
  BY DEF Ends, MetNodes
<1>9. /\ M \subseteq Stacked /\ Stacked' \subseteq Stacked
      /\ Stacked = M \cup Stacked' /\ M \cap Stacked' = {}
      /\ \A n \in Stacked' : index_of[n] < index_of[node]
      /\ \A n \in Stacked : index_of[n] < index_of[node] => n \in Stacked'
  <2>1. \A n \in Stacked : index_of[n] \in Nat /\ index_of[node] \in Nat
    BY <1>1, <1>2
  <2>2. \A n \in Stacked : (index_of[node] <= index_of[n]) <=> ~(index_of[n] < index_of[node])
    BY <2>1
  <2>. HIDE DEF Stacked
  <2>. QED
    BY <2>2 DEF StackedFrom, StackedBefore
<1>10. DOMAIN components' = 1..Len(components) + 1 /\ DOMAIN components = 1..Len(components)
  BY <1>6, ElementsAre DEF SearchShape
<1>11. \A k \in DOMAIN components : components[k] \subseteq Closed
  BY DEF Closed, Range
<1>. HIDE DEF MetNodes, Stacked, Active, Closed, Tried, M
<1>12. SearchShape'
  BY <1>1, <1>6, <1>8 DEF SearchShape, Ends
<1>13. Numbered'
  BY <1>8 DEF Numbered, Ends
<1>14. MetOnce'
  <2>1. Active' \subseteq Stacked'
    BY <1>1, <1>3, <1>8, <1>9
  <2>. QED
    BY <1>7, <1>8, <1>9, <2>1 DEF MetOnce
<1>15. TriedSeen'
  BY <1>5, <1>8 DEF TriedSeen
<1>16. /\ \A n \in M : M = {m \in Reachable(n) : n \in Reachable(m)}
       /\ \A n \in M : edges[n] \subseteq M \cup Closed
  BY ComponentFound DEF M
<1>17. ClosedStays'
  BY <1>7, <1>16 DEF ClosedStays
<1>18. LowReached'
  <2>1. ASSUME NEW n \in Stacked'
        PROVE  low'[n] <= index_of[n] /\ \E m \in Stacked' : m \in Reachable(n) /\ low'[n] = index_of[m]
    <3>0. n \in Stacked /\ index_of[n] < index_of[node]
      BY <1>9
    <3>1. low[n] <= index_of[n] /\ \E m \in Stacked : m \in Reachable(n) /\ low[n] = index_of[m]
      BY <3>0 DEF LowReached
    <3>2. PICK m \in Stacked : m \in Reachable(n) /\ low[n] = index_of[m]
      BY <3>1
    <3>3. low'[n] = low[n]
      BY <1>1, <1>2, <1>4, <3>0, <3>1
    <3>4. m \in Stacked'
      BY <1>1, <1>2, <1>9, <3>0, <3>1, <3>2
    <3>. QED
      BY <3>1, <3>2, <3>3, <3>4
  <2>. QED
    BY <1>0, <2>1 DEF LowReached
<1>19. ReachesUp'
  BY <1>0, <1>8, <1>9 DEF ReachesUp
<1>20. ReachesBack'
  <2>1. ASSUME NEW n \in Stacked'
        PROVE  \E w \in Active \ {node} : index_of[w] <= index_of[n] /\ w \in Reachable(n)
    <3>0. n \in Stacked /\ index_of[n] < index_of[node]
      BY <1>9
    <3>1. PICK w \in Active : index_of[w] <= index_of[n] /\ w \in Reachable(n)
      BY <3>0 DEF ReachesBack
    <3>2. w # node
      BY <1>1, <1>2, <3>0, <3>1
    <3>. QED
      BY <3>1, <3>2
  <2>. QED
    BY <1>0, <1>8, <2>1 DEF ReachesBack
<1>21. LowTold'
  <2>1. ASSUME NEW n \in Stacked', NEW m \in Stacked', NEW w \in Active \ {node},
               Tried(n, m)', Under(w, n)'
        PROVE  low'[w] <= index_of[m]
    <3>0. n \in Stacked /\ m \in Stacked /\ index_of[n] < index_of[node]
      BY <1>9
    <3>1. /\ index_of[w] <= index_of[n]
          /\ \A x \in Active \ {node} : index_of[w] < index_of[x] => index_of[n] < index_of[x]
      BY <1>8, <2>1 DEF Under
    <3>2. Under(w, n)
      BY <3>0, <3>1 DEF Under
    <3>3. low[w] <= index_of[m]
      BY <1>5, <2>1, <3>0, <3>2 DEF LowTold
    <3>. QED
      BY <1>1, <1>2, <1>4, <3>0, <3>3
  <2>. QED
    BY <1>8, <2>1 DEF LowTold
<1>22. ComponentsApart'
  <2>1. \A k \in DOMAIN components : components[k] \cap M = {}
    BY <1>9, <1>11 DEF MetOnce
  <2>2. ASSUME NEW j \in DOMAIN components', NEW k \in DOMAIN components', j # k
        PROVE  components'[j] \cap components'[k] = {}
    <3>1. \A i \in DOMAIN components' : i \in DOMAIN components \/ i = Len(components) + 1
      BY <1>6, <1>10
    <3>2. \A i \in DOMAIN components : components'[i] = components[i]
      BY <1>6, <1>10
    <3>3. CASE j \in DOMAIN components /\ k \in DOMAIN components
      BY <2>2, <3>2, <3>3 DEF ComponentsApart
    <3>4. CASE j = Len(components) + 1 /\ k \in DOMAIN components
      BY <1>6, <2>1, <3>2, <3>4
    <3>5. CASE k = Len(components) + 1 /\ j \in DOMAIN components
      BY <1>6, <2>1, <3>2, <3>5
    <3>. QED
      BY <2>2, <3>1, <3>3, <3>4, <3>5
  <2>. QED
    BY <2>2 DEF ComponentsApart
<1>23. ComponentsAreSCCs'
  <2>1. Last(components)' = M
    BY <1>6 DEF Last
  <2>2. (UNION Range(components))' = Closed \cup M
    BY <1>7 DEF Closed
  <2>3. ASSUME NEW n \in M
        PROVE  M = {m \in Reachable(n)' : n \in Reachable(m)'} /\ edges[n] \subseteq M \cup Closed
    BY <1>0, <1>16
  <2>. QED
    BY <2>1, <2>2, <2>3 DEF ComponentsAreSCCs
<1>. QED
  BY <1>12, <1>13, <1>14, <1>15, <1>17, <1>18, <1>19, <1>20, <1>21, <1>22, <1>23

-----------------------------------------------------------------------------
LEMMA SearchBegins == TarjanInit => SearchInv
<1>. SUFFICES ASSUME TarjanInit PROVE SearchInv
  OBVIOUS
<1>1. /\ edges \in [Nodes -> SUBSET Nodes] /\ root = 0 /\ work = <<>> /\ stack = <<>>
      /\ components = <<>> /\ MetNodes = {} /\ index_of \in [MetNodes -> Nat]
      /\ low \in [MetNodes -> Nat]
  BY DEF TarjanInit, MetNodes
<1>2. DOMAIN work = {} /\ DOMAIN stack = {} /\ DOMAIN components = {}
  BY <1>1
<1>3. Active = {} /\ Stacked = {} /\ Closed = {}
  BY <1>2 DEF Active, ActiveIn, Stacked, Closed, Range
<1>. HIDE DEF MetNodes, Stacked, Active, Closed, Tried
<1>4. SearchShape
  <2>1. work \in Seq(Nodes \X SUBSET Nodes) /\ stack \in Seq(Nodes)
        /\ components \in Seq(SUBSET Nodes)
    BY <1>1
  <2>2. root \in 0..Count
    BY <1>1, CountAssumption
  <2>. QED
    BY <1>1, <1>2, <2>1, <2>2 DEF SearchShape, Worklist
<1>5. Numbered
  BY <1>1, <1>2 DEF Numbered, InOrder
<1>6. MetOnce
  BY <1>1, <1>3 DEF MetOnce
<1>7. /\ TriedSeen /\ ClosedStays /\ LowReached /\ ReachesUp /\ ReachesBack /\ LowTold
      /\ ComponentsApart /\ ComponentsAreSCCs
  BY <1>1, <1>2, <1>3 DEF TriedSeen, ClosedStays, LowReached, ReachesUp, ReachesBack,
     LowTold, ComponentsApart, ComponentsAreSCCs
<1>. QED
  BY <1>4, <1>5, <1>6, <1>7 DEF SearchInv

LEMMA NextRootKeeps ==
  ASSUME SearchInv, NextRoot
  PROVE  SearchInv'
<1>1. /\ work = <<>> /\ root \in Nodes /\ edges' = edges /\ components' = components
      /\ IF Met(root)
         THEN root' = root + 1 /\ UNCHANGED <<work, index_of, low, stack>>
         ELSE Meet(root, <<>>) /\ UNCHANGED root
  BY DEF NextRoot
<1>2. CASE Met(root)
  <2>1. /\ root' = root + 1 /\ UNCHANGED <<work, index_of, low, stack, edges, components>>
        /\ root \in MetNodes
    BY <1>1, <1>2 DEF Met, MetNodes
  <2>2. SearchShape'
    <3>1. root + 1 \in 0..Count
      BY <1>1, CountAssumption DEF Nodes
    <3>2. Worklist(work)'
      BY <2>1 DEF SearchInv, SearchShape, Worklist
    <3>. QED
      BY <2>1, <3>1, <3>2 DEF SearchInv, SearchShape, MetNodes
  <2>3. MetOnce'
    <3>1. ASSUME NEW r \in 0..root' - 1 PROVE r \in 0..root - 1 \/ r = root
      BY <1>1, <2>1, <3>1, CountAssumption DEF Nodes
    <3>2. \A r \in 0..root - 1 : r \in MetNodes
      BY DEF SearchInv, MetOnce
    <3>3. \A r \in 0..root' - 1 : r \in MetNodes
      BY <2>1, <3>1, <3>2
    <3>. QED
      BY <2>1, <3>3 DEF SearchInv, MetOnce, MetNodes, Active, ActiveIn, Stacked, Closed
  <2>4. Numbered' /\ TriedSeen' /\ ClosedStays'
    BY <2>1 DEF SearchInv, Numbered, InOrder, TriedSeen, ClosedStays, MetNodes, Tried, TriedIn, Closed
  <2>5. \A n : Reachable(n)' = Reachable(n)
    BY <2>1, ReachableSame
  <2>6. Active' = Active /\ Stacked' = Stacked /\ \A n, m : Tried(n, m)' <=> Tried(n, m)
    BY <2>1 DEF Active, ActiveIn, Stacked, Tried, TriedIn
  <2>7. \A w, n : Under(w, n)' <=> Under(w, n)
    BY <2>1, <2>6 DEF Under
  <2>. HIDE DEF Active, Stacked, Tried, Under
  <2>8. LowReached' /\ ReachesUp' /\ ReachesBack'
    BY <2>1, <2>5, <2>6 DEF SearchInv, LowReached, ReachesUp, ReachesBack
  <2>9. LowTold'
    BY <2>1, <2>6, <2>7 DEF SearchInv, LowTold
  <2>10. ComponentsApart' /\ ComponentsAreSCCs'
    BY <2>1, <2>5 DEF SearchInv, ComponentsApart, ComponentsAreSCCs
  <2>. QED
    BY <2>2, <2>3, <2>4, <2>8, <2>9, <2>10 DEF SearchInv
<1>3. CASE ~Met(root)
  <2>1. Meet(root, <<>>) /\ root' = root /\ root \in Nodes \ MetNodes
    BY <1>1, <1>3 DEF Met, MetNodes
  <2>2. DOMAIN work = {} /\ ActiveIn(work) = {} /\ work = <<>>
    BY <1>1 DEF ActiveIn
  <2>3. Worklist(work) /\ InOrder(index_of, work) /\ ActiveIn(work) \subseteq Stacked
    BY <2>2 DEF SearchInv, SearchShape, Numbered
  <2>4. Stacks(root, work)
    BY <1>1, <2>1, <2>2, <2>3, MeetStacks DEF SearchInv
  <2>5. ActiveIn(work) = Active /\ \A w \in Active : root \in Reachable(w)
    BY <2>2 DEF Active
  <2>6. \A n, m : TriedIn(work, n, m) => Tried(n, m) \/ m = root
    BY DEF Tried
  <2>. QED
    BY <1>1, <2>1, <2>4, <2>5, <2>6, MeetKeeps
<1>. QED
  BY <1>2, <1>3

LEMMA TryChildKeeps ==
  ASSUME SearchInv, TryChild
  PROVE  SearchInv'
<1>1. PICK node, child, rest :
        /\ node = Last(work)[1] /\ child = NextChild(Last(work)[2])
        /\ rest = Append(Front(work), <<node, StillToTry(Last(work)[2])>>)
  OBVIOUS
<1>2. /\ work # <<>> /\ Last(work)[2] # {} /\ UNCHANGED <<edges, root, components>>
      /\ IF ~Met(child) THEN Meet(child, rest)
         ELSE /\ low' = [low EXCEPT ![node] = LowVia(node, child)]
              /\ work' = rest
              /\ UNCHANGED <<index_of, stack>>
  BY <1>1 DEF TryChild
<1>3. Tries(node, child, rest)
  BY <1>1, <1>2, RestTries
<1>4. CASE Met(child)
  BY <1>2, <1>3, <1>4, EdgeKeeps
<1>5. CASE ~Met(child)
  <2>1. Meet(child, rest) /\ child \in Nodes \ MetNodes
    BY <1>2, <1>3, <1>5 DEF Tries, Met, MetNodes
  <2>2. Worklist(rest) /\ InOrder(index_of, rest) /\ ActiveIn(rest) = Active
        /\ Active \subseteq Stacked
    BY <1>3 DEF Tries, SearchInv, MetOnce
  <2>3. Stacks(child, rest)
    BY <1>2, <2>1, <2>2, MeetStacks DEF SearchInv
  <2>4. ASSUME NEW w \in Active PROVE child \in Reachable(w)
    <3>1. node \in Stacked /\ index_of[w] <= index_of[node] /\ child \in edges[node]
          /\ node \in Nodes
      BY <1>3, <2>2 DEF Tries
    <3>2. node \in Reachable(w)
      BY <3>1 DEF SearchInv, ReachesUp
    <3>3. child \in Reachable(node)
      BY <3>1, ReachableIn DEF SearchInv, SearchShape, Edges
    <3>. QED
      BY <3>2, <3>3, ReachableOn
  <2>5. \A n, m : TriedIn(rest, n, m) => Tried(n, m) \/ m = child
    BY <1>3 DEF Tries
  <2>. QED
    BY <1>2, <2>1, <2>2, <2>3, <2>4, <2>5, MeetKeeps
<1>. QED
  BY <1>4, <1>5

LEMMA FinishKeeps ==
  ASSUME SearchInv, Finish
  PROVE  SearchInv'
<1>1. PICK node, place : /\ node = Last(work)[1]
                         /\ place = CHOOSE k \in DOMAIN stack : stack[k] = node
  OBVIOUS
<1>2. /\ UNCHANGED <<edges, root, index_of>>
      /\ IF low[node] = index_of[node]
         THEN /\ components' = Append(components, MembersFrom(place))
              /\ stack' = SubSeq(stack, 1, place - 1)
         ELSE UNCHANGED <<components, stack>>
  BY <1>1 DEF Finish
<1>3. Ends(node)
  BY <1>1, FinishEnds
<1>4. CASE low[node] # index_of[node]
  BY <1>2, <1>3, <1>4, EndKeeps
<1>5. CASE low[node] = index_of[node]
  <2>1. node \in Stacked
    BY <1>3 DEF Ends, SearchInv, MetOnce
  <2>2. /\ MembersFrom(place) = StackedFrom(node)
        /\ SubSeq(stack, 1, place - 1) \in Seq(Nodes)
        /\ Range(SubSeq(stack, 1, place - 1)) = StackedBefore(node)
        /\ \A j, k \in DOMAIN SubSeq(stack, 1, place - 1) :
             j < k => index_of[SubSeq(stack, 1, place - 1)[j]] < index_of[SubSeq(stack, 1, place - 1)[k]]
    BY <1>1, <2>1, StackCut
  <2>3. /\ components' = Append(components, StackedFrom(node))
        /\ stack' \in Seq(Nodes) /\ Stacked' = StackedBefore(node)
        /\ \A j, k \in DOMAIN stack' : j < k => index_of[stack'[j]] < index_of[stack'[k]]
    BY <1>2, <1>5, <2>2 DEF Stacked
  <2>. QED
    BY <1>2, <1>3, <1>5, <2>3, EndCloses
<1>. QED
  BY <1>4, <1>5

LEMMA SearchStutters ==
  ASSUME SearchInv, UNCHANGED tarjanVars
  PROVE  SearchInv'
<1>1. UNCHANGED <<edges, root, work, index_of, low, stack, components>>
  BY DEF tarjanVars
<1>2. /\ Active' = Active /\ Stacked' = Stacked /\ Closed' = Closed /\ MetNodes' = MetNodes
      /\ \A n, m : Tried(n, m)' <=> Tried(n, m)
      /\ \A n : Reachable(n)' = Reachable(n)
  BY <1>1, ReachableSame DEF Active, ActiveIn, Stacked, Closed, MetNodes, Tried, TriedIn
<1>3. \A w, n : Under(w, n)' <=> Under(w, n)
  BY <1>1, <1>2 DEF Under
<1>4. Worklist(work)' /\ InOrder(index_of, work)'
  BY <1>1 DEF SearchInv, SearchShape, Numbered, Worklist, InOrder
<1>. HIDE DEF MetNodes, Stacked, Active, Closed, Tried, Under
<1>5. SearchShape' /\ Numbered' /\ MetOnce' /\ TriedSeen' /\ ClosedStays'
  BY <1>1, <1>2, <1>4 DEF SearchInv, SearchShape, Numbered, MetOnce, TriedSeen, ClosedStays
<1>6. LowReached' /\ ReachesUp' /\ ReachesBack'
  BY <1>1, <1>2 DEF SearchInv, LowReached, ReachesUp, ReachesBack
<1>7. LowTold' /\ ComponentsApart' /\ ComponentsAreSCCs'
  BY <1>1, <1>2, <1>3 DEF SearchInv, LowTold, ComponentsApart, ComponentsAreSCCs
<1>. QED
  BY <1>5, <1>6, <1>7 DEF SearchInv

LEMMA SearchHolds == TarjanSpec => []SearchInv
<1>1. SearchInv /\ [TarjanNext]_tarjanVars => SearchInv'
  BY NextRootKeeps, TryChildKeeps, FinishKeeps, SearchStutters DEF TarjanNext
<1>. QED
  BY SearchBegins, <1>1, PTL DEF TarjanSpec

(* On every graph of any size, each component _tarjan closes is exactly a
   strongly connected one, and every call that leaves it leads to one closed before:
   the explicit worklist, the two numberings and the order of the callees lose
   nothing. *)
THEOREM ComponentsAreTheCycles == TarjanSpec => []ComponentsAreSCCs
<1>1. SearchInv => ComponentsAreSCCs
  BY DEF SearchInv
<1>. QED
  BY <1>1, SearchHolds, PTL

(* When it returns, every function of the container is in exactly one of them,
   whichever were the roots. *)
THEOREM EveryFunctionHasOneComponent == TarjanSpec => []ComponentsPartition
<1>1. SearchInv => ComponentsPartition
  <2>1. SUFFICES ASSUME SearchInv, root = Count, work = <<>>
                 PROVE  /\ UNION Range(components) = Nodes
                        /\ stack = <<>>
                        /\ \A j, k \in DOMAIN components :
                             j # k => components[j] \cap components[k] = {}
    BY DEF ComponentsPartition, Returned
  <2>2. Active = {}
    BY <2>1 DEF Active, ActiveIn
  <2>3. Stacked = {}
    BY <2>1, <2>2 DEF SearchInv, ReachesBack
  <2>4. stack = <<>>
    <3>1. stack \in Seq(Nodes) /\ {stack[k] : k \in 1..Len(stack)} = {}
      BY <2>1, <2>3, ElementsAre DEF SearchInv, SearchShape, Stacked
    <3>2. Len(stack) \in Nat /\ \A k \in 1..Len(stack) : FALSE
      <4>1. \A k \in 1..Len(stack) : stack[k] \in {}
        BY <3>1
      <4>. QED
        BY <3>1, <4>1, LenProperties
    <3>3. Len(stack) = 0
      BY <3>2
    <3>. QED
      BY <3>1, <3>3, EmptySeq
  <2>5. MetNodes = Nodes
    BY <2>1 DEF SearchInv, SearchShape, MetOnce, Nodes
  <2>. QED
    BY <2>1, <2>3, <2>4, <2>5 DEF SearchInv, MetOnce, Closed, ComponentsApart
<1>. QED
  BY <1>1, SearchHolds, PTL
=============================================================================
