---------------------------- MODULE ValueProofs ----------------------------
(***************************************************************************)
(* What the slots hold while an accepted container runs: in every frame,   *)
(* values of the types the verifier gave it, canonical and written in this *)
(* invocation.  From it follows that the host is asked only for what the   *)
(* imports grant.                                                          *)
(***************************************************************************)
EXTENDS DeviceProofs

-----------------------------------------------------------------------------
(* What the operations return: integers where an encoder expects one, and
   canonical words out of the encoders. *)

(* Putting a set of bits together gives a number. *)
LEMMA OfOnesType ==
  ASSUME NEW S \in SUBSET (0..Bits32 - 1)
  PROVE  OfOnes(S) \in Int
<1>1. \A i \in S : 2^i \in Int
  BY WordAssumption
<1>2. IsFiniteSet(S)
  <2>1. IsFiniteSet(0..Bits32 - 1)
    BY WordAssumption, FS_Interval
  <2>. QED
    BY <2>1, FS_Subset
<1>. DEFINE D == SUBSET S
            f == CHOOSE g : g = [s \in D |->
                   IF s = {} THEN 0
                   ELSE 2^(CHOOSE x \in s : TRUE) + g[s \ {CHOOSE x \in s : TRUE}]]
<1>3. OfOnes(S) = Signed(f[S], M32)
  BY DEF OfOnes, MapThenSumSet, MapThenFoldSet
<1>. HIDE DEF f, D
<1>4. PowersAdded(D, f)
  BY <1>1, <1>2, SumOfPowers DEF f, D
<1>5. S \in D
  BY DEF D
<1>6. f[S] \in Int
  BY <1>4, <1>5 DEF PowersAdded
<1>. QED
  BY <1>3, <1>6, WordAssumption DEF Signed

-----------------------------------------------------------------------------
(* The encoders write canonical words, and the decoders read numbers. *)
LEMMA SignedType ==
  ASSUME NEW n \in Int, NEW m \in Nat \ {0}
  PROVE  /\ n % m \in 0..m - 1
         /\ Signed(n, m) \in Int
         /\ -m <= 2 * Signed(n, m) /\ 2 * Signed(n, m) < m
BY DEF Signed

LEMMA Encoders ==
  ASSUME NEW n \in Int
  PROVE  /\ FromI32(n) \in 0..M32 - 1
         /\ FromI64(n) \in 0..M64 - 1
         /\ AsF32(n) \in 0..M32 - 1
         /\ AsI32(n) \in Int /\ AsI32(n) \in -M64..M64
         /\ AsI64(n) \in Int /\ AsI64(n) \in -M64..M64
<1>1. M32 \in Nat \ {0} /\ M64 \in Nat \ {0} /\ M32 <= M64
  BY WordAssumption
<1>2. /\ n % M32 \in 0..M32 - 1 /\ n % M64 \in 0..M64 - 1
      /\ Signed(n, M32) \in Int
      /\ -M32 <= 2 * Signed(n, M32) /\ 2 * Signed(n, M32) < M32
      /\ Signed(n, M64) \in Int
      /\ -M64 <= 2 * Signed(n, M64) /\ 2 * Signed(n, M64) < M64
  BY <1>1, SignedType
<1>. HIDE DEF M32, M64
<1>. QED
  BY <1>1, <1>2 DEF FromI32, FromI64, AsF32, AsI32, AsI64

LEMMA BoolWord ==
  ASSUME NEW b
  PROVE  FromBool(b) \in {0, 1}
BY DEF FromBool

LEMMA WorseState ==
  ASSUME NEW a \in Validity, NEW b \in Validity
  PROVE  Worse(a, b) \in Validity
BY DEF Worse, Validity, VALID, INVALID

-----------------------------------------------------------------------------
(* What an operation hands the encoder: a number, and a state the device
   knows. *)
Outcome(o) == o[1] \in Int /\ o[2] \in Validity

LEMMA ArithType ==
  ASSUME NEW name \in ArithI32 \cup ArithI64, NEW a \in Int, NEW b \in Int,
         NEW m \in Nat \ {0}
  PROVE  Wrapped(name, a, b, m) \in Int
<1>1. a + b \in Int /\ a - b \in Int /\ a * b \in Int
  OBVIOUS
<1>2. \A n \in Int : Signed(n, m) \in Int
  BY SignedType
<1>. QED
  BY <1>1, <1>2 DEF Wrapped, ArithI32, ArithI64

LEMMA NegType ==
  ASSUME NEW a \in Int, NEW m \in Nat \ {0}
  PROVE  Neg(a, m) \in Int
BY SignedType DEF Neg

LEMMA QuotientType ==
  ASSUME NEW a \in Int, NEW b \in Int, b # 0
  PROVE  Quotient(a, b) \in Int
BY DEF Quotient, Magnitude

LEMMA DivRemType ==
  ASSUME NEW name, NEW a \in Int, NEW b \in Int, NEW state \in Validity, NEW m
  PROVE  Outcome(DivRem(name, a, b, state, m))
<1>1. b # 0 => Quotient(a, b) \in Int
  BY QuotientType
<1>2. INVALID \in Validity
  BY DEF Validity, VALID, INVALID
<1>3. ASSUME NEW q \in Int PROVE b * q \in Int /\ a - b * q \in Int
  OBVIOUS
<1>4. b # 0 => a - b * Quotient(a, b) \in Int
  BY <1>1, <1>3
<1>5. Outcome(Div(a, b, state, m))
  BY <1>1, <1>2 DEF Div, Outcome
<1>6. Outcome(Rem(a, b, state, m))
  <2>. HIDE DEF Quotient
  <2>1. CASE b = 0
    BY <2>1, <1>2 DEF Rem, Outcome
  <2>2. CASE b # 0 /\ 2 * a = -m /\ b = -1
    BY <2>2 DEF Rem, Outcome
  <2>3. CASE b # 0 /\ ~(2 * a = -m /\ b = -1)
    <3>1. Rem(a, b, state, m) = <<a - b * Quotient(a, b), state>>
      BY <2>3, Zenon DEF Rem
    <3>. QED
      BY <3>1, <2>3, <1>4 DEF Outcome
  <2>. QED
    BY <2>1, <2>2, <2>3
<1>. QED
  BY <1>5, <1>6 DEF DivRem

LEMMA BitsType ==
  ASSUME NEW name \in Bitwise32, NEW a \in Int, NEW b \in Int
  PROVE  Bits(name, a, b) \in Int /\ BitNot(a) \in Int
<1>1. Ones(a) \subseteq 0..Bits32 - 1 /\ Ones(b) \subseteq 0..Bits32 - 1
  BY DEF Ones
<1>2. \A S \in SUBSET (0..Bits32 - 1) : OfOnes(S) \in Int
  BY OfOnesType
<1>3. BitNot(a) \in Int
  BY <1>2 DEF BitNot
<1>4. /\ OfOnes(Ones(a) \cap Ones(b)) \in Int
      /\ OfOnes(Ones(a) \cup Ones(b)) \in Int
      /\ OfOnes((Ones(a) \ Ones(b)) \cup (Ones(b) \ Ones(a))) \in Int
  BY <1>1, <1>2
<1>5. Bits(name, a, b) \in Int
  BY <1>4 DEF Bits, Bitwise32
<1>. QED
  BY <1>3, <1>5

LEMMA ShiftType ==
  ASSUME NEW a \in Int, NEW count \in Int, NEW state \in Validity
  PROVE  Outcome(Shl(a, count, state)) /\ Outcome(Shr(a, count, state))
<1>1. INVALID \in Validity
  BY DEF Validity, VALID, INVALID
<1>2. M32 \in Nat \ {0} /\ Bits32 \in Nat
  BY WordAssumption
<1>3. CASE count < 0 \/ count >= Bits32
  BY <1>1, <1>3 DEF Shl, Shr, Outcome
<1>4. CASE ~(count < 0 \/ count >= Bits32)
  <2>1. count \in 0..Bits32 /\ Bits32 - count \in 0..Bits32
    BY <1>2, <1>4
  <2>2. 2^count \in Nat \ {0} /\ 2^(Bits32 - count) \in Nat \ {0}
    BY <2>1, WordAssumption
  <2>. DEFINE p == 2^count
              q == 2^(Bits32 - count)
  <2>. HIDE DEF p, q, M32
  <2>3. p \in Nat \ {0} /\ q \in Nat \ {0}
    BY <2>2 DEF p, q
  <2>4. a * p \in Int
    BY <2>3
  <2>5. FromI32(a) \in Int
    BY <1>2 DEF FromI32
  <2>6. FromI32(a) \div p \in Int
    BY <2>3, <2>5
  <2>7. Outcome(Shl(a, count, state))
    <3>1. Shl(a, count, state) = <<Signed(a * p, M32), state>>
      BY <1>4 DEF Shl, p
    <3>2. Signed(a * p, M32) \in Int
      BY <2>4, <1>2, SignedType
    <3>. QED
      BY <3>1, <3>2 DEF Outcome
  <2>8. Outcome(Shr(a, count, state))
    <3>. DEFINE fill == IF a < 0 /\ count > 0 THEN M32 - q ELSE 0
                x == FromI32(a) \div p
    <3>1. Shr(a, count, state) = <<Signed(x + fill, M32), state>>
      BY <1>4 DEF Shr, p, q
    <3>2. x \in Int
      BY <2>6
    <3>3. fill \in Int
      BY <2>3, <1>2
    <3>. HIDE DEF x, fill
    <3>4. Signed(x + fill, M32) \in Int
      BY <3>2, <3>3, <1>2, SignedType
    <3>. QED
      BY <3>1, <3>4 DEF Outcome
  <2>. QED
    BY <2>7, <2>8
<1>. QED
  BY <1>3, <1>4

LEMMA FloatType ==
  ASSUME NEW a \in 0..M32 - 1, NEW b \in 0..M32 - 1
  PROVE  /\ \A name \in ArithF32 : F32Arith(name, a, b) \in Int
         /\ F32Neg(a) \in Int
         /\ \A n \in -M64..M64 : F32FromInt(n) \in Int
         /\ \A state \in Validity, m \in Int : Outcome(TruncF32(a, state, m))
<1>. HIDE DEF M32, M64
<1>1. \A n \in 0..M32 - 1 : n \in Int
  OBVIOUS
<1>2. ASSUME NEW state \in Validity, NEW m \in Int PROVE Outcome(TruncF32(a, state, m))
  <2>1. INVALID \in Validity
    BY DEF Validity, VALID, INVALID
  <2>2. F32Whole(a) \subseteq Int
    BY FloatAssumption
  <2>3. CASE \E n \in F32Whole(a) : -m <= 2 * n /\ 2 * n < m
    <3>1. TruncF32(a, state, m) = <<CHOOSE n \in F32Whole(a) : TRUE, state>>
      BY <2>3 DEF TruncF32
    <3>2. (CHOOSE n \in F32Whole(a) : TRUE) \in F32Whole(a)
      BY <2>3
    <3>. QED
      BY <3>1, <3>2, <2>2 DEF Outcome
  <2>4. CASE ~\E n \in F32Whole(a) : -m <= 2 * n /\ 2 * n < m
    <3>1. TruncF32(a, state, m) = <<0, INVALID>>
      BY <2>4 DEF TruncF32
    <3>. QED
      BY <3>1, <2>1 DEF Outcome
  <2>. QED
    BY <2>3, <2>4
<1>. QED
  BY <1>1, <1>2, FloatAssumption

-----------------------------------------------------------------------------

(* A word read as a signed number and written back is the word. *)
LEMMA SignedBack ==
  ASSUME NEW m \in Nat \ {0}, NEW n \in Int
  PROVE  Signed(n, m) % m = n % m
<1>. DEFINE r == n % m
<1>1. r \in 0..m - 1 /\ r \in Int
  BY Division
<1>2. r % m = r
  BY <1>1, WordItself
<1>3. Signed(n, m) = r \/ Signed(n, m) = r - m
  BY DEF Signed
<1>. HIDE DEF r
<1>4. (r - m) % m = r % m
  <2>1. -1 \in Int /\ r + m * (-1) = r - m
    BY <1>1
  <2>2. (r + m * (-1)) % m = r % m
    BY <1>1, <2>1, SameRemainder
  <2>. QED
    BY <2>1, <2>2
<1>. QED
  BY <1>2, <1>3, <1>4 DEF r

(* The low half of a word does not depend on the sign of the whole. *)
LEMMA LowHalf ==
  ASSUME NEW n \in 0..M64 - 1
  PROVE  FromI32(AsI64(n)) = FromI32(n)
<1>1. M32 \in Nat \ {0} /\ M64 \in Nat \ {0} /\ M64 % M32 = 0
  BY WordAssumption
<1>. HIDE DEF M32, M64
<1>2. PICK k \in Int : M64 = M32 * k
  <2>1. M64 = M32 * (M64 \div M32) + (M64 % M32) /\ M64 \div M32 \in Int
    BY <1>1, Division
  <2>. QED
    BY <1>1, <2>1
<1>3. n % M64 = n
  BY <1>1, WordItself
<1>4. AsI64(n) = n \/ AsI64(n) = n - M64
  BY <1>3 DEF AsI64, Signed
<1>5. (n - M64) % M32 = n % M32
  <2>1. -k \in Int /\ n + M32 * (-k) = n - M64
    BY <1>1, <1>2
  <2>2. n \in Int
    BY <1>1
  <2>3. (n + M32 * (-k)) % M32 = n % M32
    BY <1>1, <2>1, <2>2, SameRemainder
  <2>. QED
    BY <2>1, <2>3
<1>. QED
  BY <1>4, <1>5 DEF FromI32


-----------------------------------------------------------------------------
(* Typings as sequences. *)

(* t is the first m elements of s, and g on top of them. *)
Atop(t, s, m, g) ==
  /\ Len(t) = m + Len(g)
  /\ \A k \in 1..m : t[k] = s[k]
  /\ \A j \in 1..Len(g) : t[m + j] = g[j]

(* A frame's types after an instruction: below what it took nothing moves,
   and what it gives comes on top. *)
LEMMA Regrown ==
  ASSUME NEW S, NEW locals \in Seq(S), NEW stack \in Seq(S), NEW n \in 0..Len(stack),
         NEW g \in Seq(S)
  PROVE  Atop(locals \o (Rest(stack, n) \o g), locals \o stack,
              Len(locals) + Len(stack) - n, g)
<1>1. Len(locals) \in Nat /\ Len(stack) \in Nat /\ Len(g) \in Nat
  BY LenProperties
<1>. DEFINE m == Len(stack) - n
            rest == SubSeq(stack, 1, m)
            top == rest \o g
            all == locals \o top
<1>2. m \in Nat /\ m <= Len(stack)
  BY <1>1
<1>3. Rest(stack, n) = rest
  BY DEF Rest
<1>. HIDE DEF m
<1>4. /\ rest \in Seq(S) /\ Len(rest) = m
      /\ \A k \in 1..m : rest[k] = stack[k]
  BY <1>2, Prefix
<1>. HIDE DEF rest
<1>5. /\ top \in Seq(S) /\ Len(top) = m + Len(g)
      /\ \A k \in 1..m : top[k] = stack[k]
      /\ \A j \in 1..Len(g) : top[m + j] = g[j]
  <2>1. /\ top \in Seq(S) /\ Len(top) = m + Len(g)
        /\ \A k \in 1..m + Len(g) : top[k] = IF k <= m THEN rest[k] ELSE g[k - m]
    BY <1>4, ConcatProperties
  <2>. HIDE DEF top
  <2>2. \A k \in 1..m : top[k] = stack[k]
    BY <2>1, <1>1, <1>2, <1>4
  <2>3. ASSUME NEW j \in 1..Len(g) PROVE top[m + j] = g[j]
    <3>1. m + j \in 1..m + Len(g) /\ ~(m + j <= m) /\ (m + j) - m = j
      BY <1>1, <1>2
    <3>. QED
      BY <2>1, <3>1
  <2>. QED
    BY <2>1, <2>2, <2>3
<1>. HIDE DEF top
<1>6. /\ all \in Seq(S) /\ Len(all) = Len(locals) + m + Len(g)
      /\ \A k \in 1..Len(locals) + m + Len(g) :
           all[k] = IF k <= Len(locals) THEN locals[k] ELSE top[k - Len(locals)]
  <2>1. /\ all \in Seq(S) /\ Len(all) = Len(locals) + Len(top)
        /\ \A k \in 1..Len(locals) + Len(top) :
             all[k] = IF k <= Len(locals) THEN locals[k] ELSE top[k - Len(locals)]
    BY <1>5, ConcatProperties
  <2>2. Len(locals) + Len(top) = Len(locals) + m + Len(g)
    BY <1>1, <1>2, <1>5
  <2>. QED
    BY <2>1, <2>2
<1>7. \A k \in 1..Len(locals) + Len(stack) :
        (locals \o stack)[k] = IF k <= Len(locals) THEN locals[k] ELSE stack[k - Len(locals)]
  BY <1>1, ConcatProperties
<1>. HIDE DEF all
<1>8. ASSUME NEW k \in 1..Len(locals) + m PROVE all[k] = (locals \o stack)[k]
  <2>1. /\ k \in 1..Len(locals) + m + Len(g) /\ k \in 1..Len(locals) + Len(stack)
        /\ ~(k <= Len(locals)) => k - Len(locals) \in 1..m
    BY <1>1, <1>2
  <2>. QED
    BY <1>5, <1>6, <1>7, <2>1
<1>9. ASSUME NEW j \in 1..Len(g) PROVE all[Len(locals) + m + j] = g[j]
  <2>1. /\ Len(locals) + m + j \in 1..Len(locals) + m + Len(g)
        /\ ~(Len(locals) + m + j <= Len(locals))
        /\ (Len(locals) + m + j) - Len(locals) = m + j
    BY <1>1, <1>2
  <2>. QED
    BY <1>5, <1>6, <2>1
<1>10. all = locals \o (Rest(stack, n) \o g) /\ Len(locals) + Len(stack) - n = Len(locals) + m
  BY <1>1, <1>3 DEF all, top, m
<1>. QED
  BY <1>1, <1>6, <1>8, <1>9, <1>10 DEF Atop

(* The same where nothing is given. *)
LEMMA Dropped ==
  ASSUME NEW S, NEW locals \in Seq(S), NEW stack \in Seq(S), NEW n \in 0..Len(stack)
  PROVE  Atop(locals \o Rest(stack, n), locals \o stack,
              Len(locals) + Len(stack) - n, <<>>)
<1>1. PICK e : e = <<>>
  OBVIOUS
<1>2. e \in Seq(S)
  BY <1>1
<1>3. Rest(stack, n) \o e = Rest(stack, n)
  <2>1. n \in Int /\ Len(stack) - n \in Nat /\ Len(stack) - n <= Len(stack)
    BY LenProperties
  <2>2. Rest(stack, n) \in Seq(S)
    BY <2>1, Prefix DEF Rest
  <2>. QED
    BY <1>1, <2>2, ConcatEmptySeq
<1>4. Atop(locals \o (Rest(stack, n) \o e), locals \o stack, Len(locals) + Len(stack) - n, e)
  BY <1>2, Regrown
<1>. QED
  BY <1>1, <1>3, <1>4
(* The elements on top of a stack. *)
LEMMA TopElement ==
  ASSUME NEW S, NEW s \in Seq(S), NEW n \in 0..Len(s), NEW j \in 1..n
  PROVE  Top(s, n)[j] = s[Len(s) - n + j]
<1>1. PICK L : L = Len(s)
  OBVIOUS
<1>2. L \in Nat /\ n \in 0..L
  BY <1>1, LenProperties
<1>3. /\ L - n + 1 \in 1..L + 1 /\ j \in 1..L - (L - n + 1) + 1
      /\ (L - n + 1) + j - 1 = L - n + j
  BY <1>2
<1>4. \A k \in L - n + 1..L : s[k] \in S
  BY <1>1, <1>2, ElementOfSeq
<1>5. SubSeq(s, L - n + 1, L)[j] = s[(L - n + 1) + j - 1]
  BY <1>1, <1>3, <1>4, SubSeqProperties
<1>. QED
  BY <1>1, <1>3, <1>5 DEF Top

-----------------------------------------------------------------------------
(* What the slots hold. *)

(* From slot `low` up, values of these types, each written in this
   invocation. *)
HoldsIn(vals, sts, low, types) ==
  \A k \in 1..Len(types) :
    Canonical(types[k], vals[low + k - 1]) /\ sts[low + k - 1] \in Validity

LocalsOf(i) == Fn(container, i).local_types

(* The types of the running frame. *)
HeldTypes == LocalsOf(current) \o shapes[current][pc]

(* The types of a suspended frame, without the arguments of its call. *)
Kept(f) ==
  LET p == f.return_pc - 2
  IN  LocalsOf(f.function)
        \o Rest(shapes[f.function][p], Fn(container, OperandAt(container, p)).param_count)

EndOf(f) == f.base + Len(Kept(f))

(* The frame f ends at or before slot `low`, and holds what it did. *)
Undisturbed(vals, sts, f, low) ==
  HoldsIn(vals, sts, f.base, Kept(f)) /\ EndOf(f) <= low

CallersHold ==
  \A n \in 1..Len(frames) :
    /\ Undisturbed(values, states, frames[n], base)
    /\ \A m \in n + 1..Len(frames) : EndOf(frames[n]) <= frames[m].base

SlotsTyped == values \in [Slot -> Int] /\ states \in [Slot -> Int]

(* Every frame holds what the verifier typed, and no frame reaches into the
   one above it: what keeps RunsAsTyped from one step to the next. *)
ValuesInv ==
  /\ SlotsTyped
  /\ status = "running" =>
       /\ sp <= MaxSlots
       /\ HoldsIn(values, states, base, HeldTypes)
       /\ CallersHold

(* A typing holds after an instruction if what it left alone is still there and
   what it gave is on top. *)
LEMMA HoldsAtop ==
  ASSUME NEW v, NEW s, NEW low \in Nat, NEW types, NEW t,
         NEW m \in Nat, NEW g, Len(g) \in Nat, Len(types) \in Nat, m <= Len(types),
         Atop(t, types, m, g),
         \A k \in 1..m : Canonical(types[k], v[low + k - 1]) /\ s[low + k - 1] \in Validity,
         \A j \in 1..Len(g) : /\ Canonical(g[j], v[low + m + j - 1])
                              /\ s[low + m + j - 1] \in Validity
  PROVE  HoldsIn(v, s, low, t)
<1>. SUFFICES ASSUME NEW k \in 1..Len(t)
              PROVE  Canonical(t[k], v[low + k - 1]) /\ s[low + k - 1] \in Validity
  BY DEF HoldsIn
<1>1. Len(t) = m + Len(g)
  BY DEF Atop
<1>2. CASE k <= m
  <2>1. k \in 1..m
    BY <1>1, <1>2
  <2>2. t[k] = types[k]
    BY <2>1 DEF Atop
  <2>. QED
    BY <2>1, <2>2
<1>3. CASE ~(k <= m)
  <2>1. k - m \in 1..Len(g) /\ m + (k - m) = k /\ low + m + (k - m) - 1 = low + k - 1
    BY <1>1, <1>3
  <2>2. t[k] = g[k - m]
    BY <2>1 DEF Atop
  <2>. QED
    BY <2>1, <2>2
<1>. QED
  BY <1>2, <1>3

(* The running frame. *)
LEMMA RunningFrame ==
  ASSUME DeviceInv, status = "running"
  PROVE  /\ current \in Functions(container) /\ base \in Nat
         /\ pc \in DOMAIN shapes[current] /\ verdict = "accepted"
         /\ LocalsOf(current) \in Seq(ValueType) /\ shapes[current][pc] \in Seq(ValueType)
         /\ Len(LocalsOf(current)) \in Nat /\ Len(shapes[current][pc]) \in Nat
         /\ HeldTypes \in Seq(ValueType)
         /\ Len(HeldTypes) = Len(LocalsOf(current)) + Len(shapes[current][pc])
         /\ sp = base + Len(HeldTypes)
<1>1. /\ current \in Functions(container) /\ base \in Nat
      /\ pc \in DOMAIN shapes[current] /\ verdict = "accepted"
      /\ sp = base + FrameSize(current, pc)
  BY DEF DeviceInv, RunningShape
<1>2. LocalsOf(current) \in Seq(ValueType) /\ shapes[current][pc] \in Seq(ValueType)
  BY <1>1, FunctionLocals, RunningTypes DEF DeviceInv, LocalsOf
<1>3. /\ HeldTypes \in Seq(ValueType)
      /\ Len(HeldTypes) = Len(LocalsOf(current)) + Len(shapes[current][pc])
      /\ Len(LocalsOf(current)) \in Nat /\ Len(shapes[current][pc]) \in Nat
  BY <1>2, ConcatProperties, LenProperties DEF HeldTypes
<1>4. FrameSize(current, pc) = Len(HeldTypes)
  BY <1>3 DEF FrameSize, LocalsOf
<1>. QED
  BY <1>1, <1>2, <1>3, <1>4

(* A suspended frame: f is a caller with `callee` running or suspended above
   it, from slot `start` on. *)
LEMMA WaitingFrame ==
  ASSUME DeviceInv, verdict = "accepted", NEW f \in Caller,
         NEW callee \in Functions(container), NEW start, Waits(f, callee, start)
  PROVE  /\ Kept(f) \in Seq(ValueType) /\ Len(Kept(f)) \in Nat
         /\ EndOf(f) = start
         /\ f.return_pc - 2 \in DOMAIN shapes[f.function]
         /\ NameAt(container, f.return_pc - 2) = "call"
         /\ OperandAt(container, f.return_pc - 2) = callee
         /\ Takes(container, f.function, f.return_pc - 2, shapes[f.function][f.return_pc - 2])
              = ParamTypes(Fn(container, callee))
<1>. DEFINE i      == f.function
            p      == f.return_pc - 2
            stack  == shapes[i][p]
            locals == LocalsOf(i)
            params == Fn(container, callee).param_count
<1>1. /\ p \in DOMAIN shapes[i] /\ i \in Functions(container) /\ f.base \in Nat
      /\ NameAt(container, p) = "call" /\ OperandAt(container, p) = callee
      /\ start = f.base + FrameSize(i, p) - params
  BY DEF Waits, Caller
<1>2. Takes(container, i, p, stack) = ParamTypes(Fn(container, callee))
  BY <1>1 DEF Takes, Predicate
<1>3. /\ locals \in Seq(ValueType) /\ stack \in Seq(ValueType)
      /\ Len(locals) \in Nat /\ Len(stack) \in Nat
      /\ params \in 0..Len(stack)
  BY <1>1, <1>2, TypedInstruction, FunctionLocals DEF DeviceInv, LocalsOf
<1>4. Kept(f) = locals \o Rest(stack, params)
  BY <1>1 DEF Kept
<1>5. FrameSize(i, p) = Len(locals) + Len(stack)
  BY DEF FrameSize, LocalsOf
<1>. HIDE DEF locals, stack, params
<1>6. Rest(stack, params) \in Seq(ValueType)
  <2>1. Len(stack) - params \in Nat /\ Len(stack) - params <= Len(stack)
    BY <1>3
  <2>. QED
    BY <1>3, <2>1, Prefix DEF Rest
<1>7. Kept(f) \in Seq(ValueType)
  BY <1>3, <1>4, <1>6, ConcatProperties
<1>8. Len(Kept(f)) = Len(locals) + Len(stack) - params
  BY <1>3, <1>4, SizeOfTypes
<1>9. EndOf(f) = start
  BY <1>1, <1>3, <1>5, <1>8 DEF EndOf
<1>. QED
  BY <1>1, <1>2, <1>3, <1>7, <1>8, <1>9 DEF stack

LEMMA SuspendedFrames ==
  ASSUME DeviceInv, status = "running", NEW n \in 1..Len(frames)
  PROVE  /\ frames \in Seq(Caller) /\ Len(frames) \in Nat
         /\ frames[n] \in Caller /\ frames[n].base \in Nat
         /\ Kept(frames[n]) \in Seq(ValueType) /\ Len(Kept(frames[n])) \in Nat
         /\ EndOf(frames[n]) \in Nat
<1>1. /\ frames \in Seq(Caller) /\ verdict = "accepted" /\ current \in Functions(container)
      /\ Len(frames) \in Nat
  BY LenProperties DEF DeviceInv, CallersShape, RunningShape
<1>2. frames[n] \in Caller
  BY <1>1, ElementOfSeq
<1>3. \E callee \in Functions(container) : \E start : Waits(frames[n], callee, start)
  <2>1. CASE n = Len(frames)
    <3>1. Waits(frames[n], current, base)
      BY <1>1, <2>1 DEF DeviceInv, CallersShape
    <3>. QED
      BY <1>1, <3>1
  <2>2. CASE n # Len(frames)
    <3>1. n \in 1..Len(frames) - 1 /\ n + 1 \in 1..Len(frames)
      BY <1>1, <2>2
    <3>2. frames[n + 1] \in Caller
      BY <1>1, <3>1, ElementOfSeq
    <3>3. Waits(frames[n], frames[n + 1].function, frames[n + 1].base)
      BY <3>1 DEF DeviceInv, CallersShape
    <3>. QED
      BY <3>2, <3>3 DEF Caller
  <2>. QED
    BY <2>1, <2>2
<1>4. Kept(frames[n]) \in Seq(ValueType) /\ Len(Kept(frames[n])) \in Nat
  BY <1>1, <1>2, <1>3, WaitingFrame
<1>5. frames[n].base \in Nat
  BY <1>2 DEF Caller
<1>. QED
  BY <1>1, <1>2, <1>4, <1>5 DEF EndOf

(* A frame that ends below what was written is undisturbed. *)
LEMMA StaysUndisturbed ==
  ASSUME NEW v, NEW s, NEW v2, NEW s2, NEW f, f.base \in Nat, Len(Kept(f)) \in Nat,
         NEW low \in Int, Undisturbed(v, s, f, low),
         \A x \in 0..low - 1 : v2[x] = v[x] /\ s2[x] = s[x]
  PROVE  Undisturbed(v2, s2, f, low)
<1>. SUFFICES ASSUME NEW k \in 1..Len(Kept(f))
              PROVE  /\ Canonical(Kept(f)[k], v2[f.base + k - 1])
                     /\ s2[f.base + k - 1] \in Validity
  BY DEF Undisturbed, HoldsIn
<1>1. f.base + k - 1 \in 0..low - 1
  BY DEF Undisturbed, EndOf
<1>. QED
  BY <1>1 DEF Undisturbed, HoldsIn

-----------------------------------------------------------------------------
(* What the typing of an instruction says of its operands and its results. *)
TypedAs(i, p, takes, gives) ==
  LET stack == shapes[i][p]
  IN  /\ gives \in Seq(ValueType)
      /\ LookupRefusal(container, i, p) = "none"
      /\ \A s \in Successors(container, p) :
           shapes[i][s] = Rest(stack, Len(takes)) \o gives
      /\ \A j \in 1..Len(takes) : stack[Len(stack) - Len(takes) + j] = takes[j]

LEMMA TypedEffect ==
  ASSUME VerifyInv, AcceptedInv, verdict = "accepted",
         NEW i \in Functions(container), NEW p \in DOMAIN shapes[i]
  PROVE  TypedAs(i, p, Takes(container, i, p, shapes[i][p]),
                 Gives(container, i, p, shapes[i][p]))
<1>. DEFINE stack == shapes[i][p]
            takes == Takes(container, i, p, stack)
            gives == Gives(container, i, p, stack)
<1>. USE DEF VerifyInv
<1>1. /\ Decoded(container) /\ RegionsTile(container)
      /\ i < index
  BY LenProperties DEF AcceptedInv, VerifyTypeOK, Decoded, DecodedContainer, Functions
<1>2. /\ p \in Region(container, i)
      /\ StepRefusal(container, i, p, stack) = "none"
      /\ \A s \in Successors(container, p) :
           s \in DOMAIN shapes[i] /\ shapes[i][s] = Effect(container, i, p, stack)
  BY <1>1 DEF WalkIsSound, Certificate, Closed
<1>3. stack \in Seq(ValueType) /\ Len(stack) \in Nat /\ Len(takes) \in 0..Len(stack)
  BY TypedInstruction
<1>4. gives \in Seq(ValueType)
  BY <1>1, <1>2, <1>3, EffectType
<1>5. ApplyRefusal(container, i, p, stack) = "none"
  BY <1>2 DEF StepRefusal
<1>6. ~(Top(stack, Len(takes)) # takes) /\ LookupRefusal(container, i, p) = "none"
  BY <1>5 DEF ApplyRefusal
<1>7. ASSUME NEW j \in 1..Len(takes)
      PROVE  stack[Len(stack) - Len(takes) + j] = takes[j]
  <2>1. Top(stack, Len(takes))[j] = stack[Len(stack) - Len(takes) + j]
    <3>. HIDE DEF takes, stack
    <3>. QED
      BY ONLY <1>3, TopElement, j \in 1..Len(takes)
  <2>. QED
    BY <1>6, <2>1
<1>. QED
  BY <1>2, <1>4, <1>6, <1>7 DEF Effect, TypedAs

(* The operands of the running frame, counted from the top, and its locals:
   where they lie, and what is there. *)
LEMMA OperandsHold ==
  ASSUME DeviceInv, ValuesInv, status = "running",
         NEW stack, stack = shapes[current][pc], NEW j \in 1..Len(stack)
  PROVE  /\ sp - j \in Slot /\ sp - j >= base
         /\ values[sp - j] \in Int
         /\ Canonical(stack[Len(stack) - j + 1], values[sp - j])
         /\ states[sp - j] \in Validity
<1>. DEFINE locals == LocalsOf(current)
            k == Len(locals) + Len(stack) - j + 1
<1>1. /\ locals \in Seq(ValueType) /\ stack \in Seq(ValueType)
      /\ Len(locals) \in Nat /\ Len(stack) \in Nat /\ base \in Nat
      /\ Len(HeldTypes) = Len(locals) + Len(stack)
      /\ sp = base + Len(HeldTypes) /\ sp <= MaxSlots /\ MaxSlots \in Nat
  BY RunningFrame, VmAssumption DEF ValuesInv
<1>2. /\ k \in 1..Len(HeldTypes) /\ base + k - 1 = sp - j
      /\ k \in 1..Len(locals) + Len(stack) /\ ~(k <= Len(locals))
      /\ k - Len(locals) = Len(stack) - j + 1
      /\ sp - j \in 0..MaxSlots - 1 /\ sp - j >= base
  BY <1>1
<1>3. HeldTypes[k] = stack[Len(stack) - j + 1]
  <2>. HIDE DEF k, locals
  <2>1. (locals \o stack)[k] = stack[k - Len(locals)]
    BY <1>1, <1>2, ConcatProperties
  <2>. QED
    BY <1>2, <2>1 DEF HeldTypes, locals
<1>4. Canonical(HeldTypes[k], values[sp - j]) /\ states[sp - j] \in Validity
  BY <1>2 DEF ValuesInv, HoldsIn
<1>5. values[sp - j] \in Int
  BY <1>2 DEF ValuesInv, SlotsTyped, Slot
<1>. QED
  BY <1>2, <1>3, <1>4, <1>5 DEF Slot

LEMMA LocalsHold ==
  ASSUME DeviceInv, ValuesInv, status = "running",
         NEW k \in 0..Len(LocalsOf(current)) - 1
  PROVE  /\ base + k \in Slot /\ base + k < sp
         /\ values[base + k] \in Int
         /\ At(LocalsOf(current), k) \in ValueType
         /\ Canonical(At(LocalsOf(current), k), values[base + k])
         /\ states[base + k] \in Validity
<1>. DEFINE locals == LocalsOf(current)
            stack  == shapes[current][pc]
<1>1. /\ locals \in Seq(ValueType) /\ stack \in Seq(ValueType)
      /\ Len(locals) \in Nat /\ Len(stack) \in Nat /\ base \in Nat
      /\ Len(HeldTypes) = Len(locals) + Len(stack)
      /\ sp = base + Len(HeldTypes) /\ sp <= MaxSlots /\ MaxSlots \in Nat
  BY RunningFrame, VmAssumption DEF ValuesInv
<1>2. /\ k + 1 \in 1..Len(HeldTypes) /\ base + (k + 1) - 1 = base + k
      /\ k + 1 \in 1..Len(locals) + Len(stack) /\ k + 1 <= Len(locals)
      /\ k + 1 \in 1..Len(locals)
      /\ base + k \in 0..MaxSlots - 1 /\ base + k < sp
  BY <1>1
<1>3. HeldTypes[k + 1] = locals[k + 1]
  <2>. HIDE DEF stack, locals
  <2>1. (locals \o stack)[k + 1] = locals[k + 1]
    BY <1>1, <1>2, ConcatProperties
  <2>. QED
    BY <2>1 DEF HeldTypes, locals, stack
<1>4. Canonical(HeldTypes[k + 1], values[base + k]) /\ states[base + k] \in Validity
  BY <1>2 DEF ValuesInv, HoldsIn
<1>5. values[base + k] \in Int
  BY <1>2 DEF ValuesInv, SlotsTyped, Slot
<1>6. At(locals, k) = locals[k + 1] /\ locals[k + 1] \in ValueType
  BY <1>1, <1>2, ElementOfSeq DEF At
<1>. QED
  BY <1>2, <1>3, <1>4, <1>5, <1>6 DEF Slot

-----------------------------------------------------------------------------
(* An instruction that goes on in its own frame. *)

LEMMA CallersUndisturbed ==
  ASSUME DeviceInv, ValuesInv, status = "running",
         UNCHANGED <<container, shapes, frames, base>>,
         \A x \in 0..base - 1 : values'[x] = values[x] /\ states'[x] = states[x]
  PROVE  CallersHold'
<1>. SUFFICES ASSUME NEW n \in 1..Len(frames)
              PROVE  /\ Undisturbed(values', states', frames[n], base)
                     /\ \A m \in n + 1..Len(frames) : EndOf(frames[n]) <= frames[m].base
  BY DEF CallersHold, Undisturbed, EndOf, Kept, LocalsOf
<1>1. /\ Undisturbed(values, states, frames[n], base)
      /\ \A m \in n + 1..Len(frames) : EndOf(frames[n]) <= frames[m].base
  BY DEF ValuesInv, CallersHold
<1>2. base \in Int
  BY DEF DeviceInv, RunningShape
<1>3. frames[n].base \in Nat /\ Len(Kept(frames[n])) \in Nat
  BY SuspendedFrames
<1>. QED
  BY <1>1, <1>2, <1>3, StaysUndisturbed

LEMMA ContinuesHeld ==
  ASSUME DeviceInv, ValuesInv, status = "running", Continues, UNCHANGED verifyVars,
         SlotsTyped', sp' <= MaxSlots,
         \A x \in 0..base - 1 : values'[x] = values[x] /\ states'[x] = states[x],
         HoldsIn(values', states', base, LocalsOf(current) \o shapes[current][pc'])
  PROVE  ValuesInv'
<1>1. UNCHANGED <<container, shapes, status, current, base, frames>>
  BY DEF Continues, verifyVars, frameVars
<1>2. CallersHold'
  BY <1>1, CallersUndisturbed
<1>3. HeldTypes' = LocalsOf(current) \o shapes[current][pc']
  BY <1>1 DEF HeldTypes, LocalsOf
<1>. QED
  BY <1>1, <1>2, <1>3 DEF ValuesInv

(* What it takes an instruction for to keep the frames as typed: what it did
   not take is still there, and what it gives is on top. *)
LEMMA MovedHeld ==
  ASSUME DeviceInv, ValuesInv, status = "running", Continues, UNCHANGED verifyVars,
         SlotsTyped', sp' <= MaxSlots,
         \A x \in 0..base - 1 : values'[x] = values[x] /\ states'[x] = states[x],
         NEW stack, stack = shapes[current][pc],
         NEW gives, gives = Gives(container, current, pc, stack),
         NEW n, n = Len(Takes(container, current, pc, stack)),
         NEW m, m = Len(HeldTypes) - n,
         \A k \in 1..m : /\ Canonical(HeldTypes[k], values'[base + k - 1])
                         /\ states'[base + k - 1] \in Validity,
         \A j \in 1..Len(gives) : /\ Canonical(gives[j], values'[base + m + j - 1])
                                  /\ states'[base + m + j - 1] \in Validity
  PROVE  ValuesInv'
<1>. DEFINE locals == LocalsOf(current)
<1>1. /\ current \in Functions(container) /\ base \in Nat
      /\ pc \in DOMAIN shapes[current] /\ verdict = "accepted"
      /\ locals \in Seq(ValueType) /\ stack \in Seq(ValueType)
      /\ Len(locals) \in Nat /\ Len(stack) \in Nat
      /\ Len(HeldTypes) = Len(locals) + Len(stack)
  BY RunningFrame
<1>2. /\ pc' \in Successors(container, pc)
      /\ VerifyInv /\ AcceptedInv
  BY DEF Continues, DeviceInv
<1>3. n \in 0..Len(stack)
  BY <1>1, <1>2, TypedInstruction
<1>4. /\ gives \in Seq(ValueType)
      /\ shapes[current][pc'] = Rest(stack, n) \o gives
  <2>1. PICK takes : takes = Takes(container, current, pc, stack)
    OBVIOUS
  <2>2. TypedAs(current, pc, takes, gives)
    BY <1>1, <1>2, <2>1, TypedEffect
  <2>3. /\ gives \in Seq(ValueType)
        /\ \A s \in Successors(container, pc) :
             shapes[current][s] = Rest(stack, Len(takes)) \o gives
    BY <2>2 DEF TypedAs
  <2>. QED
    BY <1>2, <2>1, <2>3
<1>5. Len(gives) \in Nat
  BY <1>4, LenProperties
<1>. HIDE DEF locals
<1>6. Atop(locals \o (Rest(stack, n) \o gives), locals \o stack,
           Len(locals) + Len(stack) - n, gives)
  BY <1>1, <1>3, <1>4, Regrown
<1>7. m = Len(locals) + Len(stack) - n /\ m \in Nat /\ m <= Len(HeldTypes)
      /\ Len(HeldTypes) \in Nat
  <2>1. PICK L, K : /\ L = Len(locals) /\ K = Len(stack) /\ L \in Nat /\ K \in Nat
                    /\ Len(HeldTypes) = L + K /\ n \in 0..K
    BY <1>1, <1>3
  <2>2. m = L + K - n
    BY <2>1
  <2>. QED
    BY ONLY <2>1, <2>2
<1>8. Atop(locals \o shapes[current][pc'], HeldTypes, m, gives)
  BY <1>4, <1>6, <1>7 DEF HeldTypes, locals
<1>9. HoldsIn(values', states', base, locals \o shapes[current][pc'])
  BY <1>1, <1>5, <1>7, <1>8, HoldsAtop
<1>. QED
  BY <1>9, ContinuesHeld DEF locals

(* Slots no one wrote hold what they did. *)
LEMMA StillHeld ==
  ASSUME DeviceInv, ValuesInv, status = "running", NEW m \in Int, m <= Len(HeldTypes),
         \A x \in 0..base + m - 1 : values'[x] = values[x] /\ states'[x] = states[x]
  PROVE  \A k \in 1..m : /\ Canonical(HeldTypes[k], values'[base + k - 1])
                         /\ states'[base + k - 1] \in Validity
<1>. SUFFICES ASSUME NEW k \in 1..m
              PROVE  /\ Canonical(HeldTypes[k], values'[base + k - 1])
                     /\ states'[base + k - 1] \in Validity
  OBVIOUS
<1>1. base \in Nat /\ Len(HeldTypes) \in Nat
  BY RunningFrame
<1>2. k \in 1..Len(HeldTypes) /\ base + k - 1 \in 0..base + m - 1
  BY <1>1
<1>3. Canonical(HeldTypes[k], values[base + k - 1]) /\ states[base + k - 1] \in Validity
  BY <1>2 DEF ValuesInv, HoldsIn
<1>. QED
  BY <1>2, <1>3

(* An instruction that writes one result over what it took. *)
LEMMA ProducedHeld ==
  ASSUME DeviceInv, ValuesInv, status = "running", UNCHANGED verifyVars,
         Name \notin Return \cup {"jmp"},
         NEW stack, stack = shapes[current][pc],
         NEW n, n = Len(Takes(container, current, pc, stack)),
         NEW type, Gives(container, current, pc, stack) = <<type>>,
         sp - n \in Slot,
         NEW v \in Int, Canonical(type, v), NEW s \in Validity, Produce(n, v, s)
  PROVE  ValuesInv'
<1>. DEFINE gives == <<type>>
            m     == Len(HeldTypes) - n
<1>1. /\ base \in Nat /\ sp = base + Len(HeldTypes) /\ Len(HeldTypes) \in Nat
      /\ current \in Functions(container) /\ pc \in DOMAIN shapes[current]
      /\ verdict = "accepted" /\ Len(HeldTypes) = Len(LocalsOf(current)) + Len(stack)
      /\ Len(LocalsOf(current)) \in Nat /\ Len(stack) \in Nat
  BY RunningFrame
<1>2. n \in 0..Len(stack)
  BY <1>1, TypedInstruction DEF DeviceInv
<1>3. m \in Nat /\ m <= Len(HeldTypes) /\ sp - n = base + m /\ base + m \in Slot
  <2>1. PICK L, K : /\ K = Len(stack) /\ L \in Nat /\ K \in Nat
                    /\ Len(HeldTypes) = L + K /\ n \in 0..K
    BY <1>1, <1>2
  <2>2. PICK H : H = Len(HeldTypes) /\ m = H - n
    OBVIOUS
  <2>3. PICK y : y = sp - n
    OBVIOUS
  <2>. HIDE DEF m
  <2>4. /\ L \in Nat /\ K \in Nat /\ n \in 0..K /\ base \in Nat
        /\ H = L + K /\ sp = base + H
    BY <1>1, <2>1, <2>2
  <2>5. m \in Nat /\ m <= H /\ y = base + m
    BY ONLY <2>2, <2>3, <2>4
  <2>. QED
    BY <2>2, <2>3, <2>5
<1>4. Len(gives) = 1 /\ gives[1] = type
  OBVIOUS
<1>5. Continues
  <2>1. Moves(n, 1)
    BY DEF Produce, Advance, Moves
  <2>. QED
    BY <1>4, <2>1, MovesContinues
<1>6. /\ values' = [values EXCEPT ![base + m] = v]
      /\ states' = [states EXCEPT ![base + m] = s]
      /\ sp' = base + m + 1
  BY <1>1, <1>3 DEF Produce
<1>. HIDE DEF m
<1>7. values \in [Slot -> Int] /\ states \in [Slot -> Int]
  BY DEF ValuesInv, SlotsTyped
<1>8. s \in Int
  BY DEF Validity, VALID, INVALID
<1>9. /\ SlotsTyped'
      /\ values'[base + m] = v /\ states'[base + m] = s
  BY <1>3, <1>6, <1>7, <1>8 DEF SlotsTyped
<1>10. sp' <= MaxSlots
  BY <1>1, <1>3, <1>6, VmAssumption DEF Slot
<1>11. ASSUME NEW x \in 0..base + m - 1
       PROVE  values'[x] = values[x] /\ states'[x] = states[x]
  <2>1. x # base + m /\ x \in Slot
    BY <1>1, <1>3, VmAssumption DEF Slot
  <2>. QED
    BY <1>6, <1>7, <2>1
<1>12. \A x \in 0..base - 1 : values'[x] = values[x] /\ states'[x] = states[x]
  <2>1. \A x \in 0..base - 1 : x \in 0..base + m - 1
    BY <1>1, <1>3
  <2>. QED
    BY <1>11, <2>1
<1>13. \A k \in 1..m : /\ Canonical(HeldTypes[k], values'[base + k - 1])
                       /\ states'[base + k - 1] \in Validity
  BY <1>3, <1>11, StillHeld
<1>14. \A j \in 1..Len(gives) : /\ Canonical(gives[j], values'[base + m + j - 1])
                                /\ states'[base + m + j - 1] \in Validity
  <2>1. base + m + 1 - 1 = base + m
    BY <1>1, <1>3
  <2>. QED
    BY <1>4, <1>9, <2>1
<1>. QED
  BY <1>5, <1>9, <1>10, <1>12, <1>13, <1>14, MovedHeld DEF m

(* An instruction that only drops what it took. *)
LEMMA PoppedHeld ==
  ASSUME DeviceInv, ValuesInv, status = "running", UNCHANGED verifyVars, Continues,
         UNCHANGED slots, 
         Gives(container, current, pc, shapes[current][pc]) = <<>>
  PROVE  ValuesInv'
<1>. DEFINE stack == shapes[current][pc]
            n     == Len(Takes(container, current, pc, stack))
            m     == Len(HeldTypes) - n
            gives == Gives(container, current, pc, stack)
<1>1. /\ base \in Nat /\ sp = base + Len(HeldTypes) /\ Len(HeldTypes) \in Nat
      /\ current \in Functions(container) /\ pc \in DOMAIN shapes[current]
      /\ verdict = "accepted" /\ Len(HeldTypes) = Len(LocalsOf(current)) + Len(stack)
      /\ Len(LocalsOf(current)) \in Nat /\ Len(stack) \in Nat
  BY RunningFrame
<1>2. n \in 0..Len(stack)
  BY <1>1, TypedInstruction DEF DeviceInv
<1>3. Len(gives) = 0
  OBVIOUS
<1>4. sp' = sp - n
  BY <1>1, <1>2, <1>3 DEF Continues
<1>5. m \in Int /\ m <= Len(HeldTypes) /\ sp' <= sp /\ sp' \in Int /\ sp \in Int
  <2>1. PICK L, K, H : /\ K = Len(stack) /\ H = Len(HeldTypes) /\ L \in Nat /\ K \in Nat
                       /\ H = L + K /\ n \in 0..K /\ m = H - n /\ sp = base + H
    BY <1>1, <1>2
  <2>. HIDE DEF m, n
  <2>2. m \in Int /\ m <= H /\ sp' <= sp /\ sp' \in Int /\ sp \in Int
    BY <1>1, <1>4, <2>1
  <2>. QED
    BY <2>1, <2>2
<1>6. SlotsTyped' /\ sp' <= MaxSlots
  <2>1. sp <= MaxSlots /\ SlotsTyped
    BY DEF ValuesInv
  <2>. HIDE DEF n, m
  <2>. QED
    BY <1>5, <2>1, VmAssumption DEF SlotsTyped, slots
<1>7. \A k \in 1..m : /\ Canonical(HeldTypes[k], values'[base + k - 1])
                      /\ states'[base + k - 1] \in Validity
  BY <1>5, StillHeld DEF slots
<1>8. \A j \in 1..Len(gives) : /\ Canonical(gives[j], values'[base + m + j - 1])
                                /\ states'[base + m + j - 1] \in Validity
  BY <1>3
<1>. QED
  BY <1>6, <1>7, <1>8, MovedHeld DEF slots

(* An instruction that also overwrites a local, with a value of its type. *)
LEMMA LocalSetHeld ==
  ASSUME DeviceInv, ValuesInv, status = "running", UNCHANGED verifyVars, Continues,
         Gives(container, current, pc, shapes[current][pc]) = <<>>,
         NEW k \in 0..Len(LocalsOf(current)) - 1,
         NEW v \in Int, Canonical(At(LocalsOf(current), k), v), NEW s \in Validity,
         values' = [values EXCEPT ![base + k] = v],
         states' = [states EXCEPT ![base + k] = s]
  PROVE  ValuesInv'
<1>. DEFINE stack == shapes[current][pc]
            n     == Len(Takes(container, current, pc, stack))
            m     == Len(HeldTypes) - n
            gives == Gives(container, current, pc, stack)
<1>1. /\ base \in Nat /\ sp = base + Len(HeldTypes) /\ Len(HeldTypes) \in Nat
      /\ current \in Functions(container) /\ pc \in DOMAIN shapes[current]
      /\ verdict = "accepted" /\ Len(HeldTypes) = Len(LocalsOf(current)) + Len(stack)
      /\ Len(LocalsOf(current)) \in Nat /\ Len(stack) \in Nat
      /\ LocalsOf(current) \in Seq(ValueType) /\ stack \in Seq(ValueType)
  BY RunningFrame
<1>2. n \in 0..Len(stack)
  BY <1>1, TypedInstruction DEF DeviceInv
<1>3. Len(gives) = 0
  OBVIOUS
<1>4. sp' = sp - n /\ sp <= MaxSlots
  BY <1>1, <1>2, <1>3 DEF Continues, ValuesInv
<1>5. base + k \in Slot /\ k + 1 \in 1..Len(HeldTypes) /\ k + 1 \in 1..Len(LocalsOf(current))
  BY <1>1, <1>4, VmAssumption DEF Slot
<1>6. values \in [Slot -> Int] /\ states \in [Slot -> Int] /\ s \in Int
  BY DEF ValuesInv, SlotsTyped, Validity, VALID, INVALID
<1>7. SlotsTyped' /\ sp' <= MaxSlots
  <2>1. SlotsTyped'
    BY <1>5, <1>6 DEF SlotsTyped
  <2>2. sp' <= MaxSlots
    <3>1. n \in Nat
      BY <1>1, <1>2
    <3>. HIDE DEF n
    <3>. QED
      BY <1>1, <1>4, <3>1, VmAssumption
  <2>. QED
    BY <2>1, <2>2
<1>8. ASSUME NEW x \in 0..base - 1
      PROVE  values'[x] = values[x] /\ states'[x] = states[x]
  <2>1. x # base + k /\ x \in Slot
    BY <1>1, <1>4, VmAssumption DEF Slot
  <2>. QED
    BY <1>6, <2>1
<1>9. HeldTypes[k + 1] = At(LocalsOf(current), k)
  <2>1. (LocalsOf(current) \o stack)[k + 1] = LocalsOf(current)[k + 1]
    <3>. HIDE DEF stack
    <3>1. k + 1 \in 1..Len(LocalsOf(current)) + Len(stack) /\ k + 1 <= Len(LocalsOf(current))
      BY <1>1, <1>5
    <3>. QED
      BY <1>1, <3>1, ConcatProperties
  <2>. QED
    BY <2>1 DEF At, HeldTypes
<1>10. ASSUME NEW j \in 1..m
       PROVE  /\ Canonical(HeldTypes[j], values'[base + j - 1])
              /\ states'[base + j - 1] \in Validity
  <2>1. j \in 1..Len(HeldTypes)
    <3>1. n \in Nat
      BY <1>1, <1>2
    <3>. HIDE DEF n
    <3>. QED
      BY <1>1, <3>1
  <2>2. base + j - 1 \in Slot
    BY <1>1, <1>4, <2>1, VmAssumption DEF Slot
  <2>3. CASE j = k + 1
    <3>1. base + j - 1 = base + k
      BY <1>1, <2>3
    <3>. QED
      BY <1>5, <1>6, <1>9, <2>3, <3>1
  <2>4. CASE j # k + 1
    <3>1. base + j - 1 # base + k
      BY <1>1, <2>1, <2>4
    <3>2. Canonical(HeldTypes[j], values[base + j - 1]) /\ states[base + j - 1] \in Validity
      BY <2>1 DEF ValuesInv, HoldsIn
    <3>. QED
      BY <1>6, <2>2, <3>1, <3>2
  <2>. QED
    BY <2>3, <2>4
<1>11. \A j \in 1..Len(gives) : /\ Canonical(gives[j], values'[base + m + j - 1])
                                /\ states'[base + m + j - 1] \in Validity
  BY <1>3
<1>. QED
  BY <1>7, <1>8, <1>10, <1>11, MovedHeld

-----------------------------------------------------------------------------
(* What the encoders write is canonical. *)

LEMMA Words ==
  /\ \A x \in Int : /\ FromI32(x) \in Int /\ Canonical(I32, FromI32(x))
                    /\ FromI64(x) \in Int /\ Canonical(I64, FromI64(x))
                    /\ AsF32(x) \in Int /\ Canonical(F32, AsF32(x))
  /\ \A b : FromBool(b) \in Int /\ Canonical(BOOL, FromBool(b))
<1>1. ASSUME NEW x \in Int
      PROVE  /\ FromI32(x) \in Int /\ Canonical(I32, FromI32(x))
             /\ FromI64(x) \in Int /\ Canonical(I64, FromI64(x))
             /\ AsF32(x) \in Int /\ Canonical(F32, AsF32(x))
  <2>1. /\ FromI32(x) \in 0..M32 - 1 /\ FromI64(x) \in 0..M64 - 1
        /\ AsF32(x) \in 0..M32 - 1
    BY Encoders
  <2>2. FromI32(x) \in Int /\ FromI64(x) \in Int /\ AsF32(x) \in Int
    BY <2>1
  <2>. QED
    BY <2>1, <2>2 DEF Canonical, I32, I64, F32, BOOL
<1>2. ASSUME NEW b PROVE FromBool(b) \in Int /\ Canonical(BOOL, FromBool(b))
  <2>1. FromBool(b) \in {0, 1}
    BY BoolWord
  <2>. QED
    BY <2>1 DEF Canonical, BOOL, I32, F32
<1>. QED
  BY <1>1, <1>2

ToI32 == ArithI32 \cup DivRemI32 \cup Bitwise32 \cup Shift32 \cup UnaryI32
           \cup {"const.i32", "const.i32.s8", "const.i32.s16", "wrap.i64_i32", "trunc.f32_i32"}
ToI64 == ArithI64 \cup DivRemI64 \cup {"neg.i64", "const.i64", "extend.i32_i64", "trunc.f32_i64"}
ToF32 == ArithF32 \cup {"neg.f32", "const.f32", "convert.i32_f32", "convert.i64_f32"}
ToBool == CompareI32 \cup CompareI64 \cup CompareF32
            \cup {"not", "and", "or", "const.true", "const.false"}

(* The type of a result, where the instruction alone fixes it. *)
LEMMA FixedGives ==
  ASSUME NEW c, NEW i, NEW p, NEW stack
  PROVE  /\ NameAt(c, p) \in ToI32 => Gives(c, i, p, stack) = <<I32>>
         /\ NameAt(c, p) \in ToI64 => Gives(c, i, p, stack) = <<I64>>
         /\ NameAt(c, p) \in ToF32 => Gives(c, i, p, stack) = <<F32>>
         /\ NameAt(c, p) \in ToBool => Gives(c, i, p, stack) = <<BOOL>>
<1>. USE DEF ArithI32, DivRemI32, CompareI32, Bitwise32, Shift32, ArithI64, DivRemI64,
             CompareI64, ArithF32, CompareF32, UnaryI32, Predicate, ConstState
<1>1. NameAt(c, p) \in ToI32 \cup ToI64 \cup ToF32 \cup ToBool =>
        Gives(c, i, p, stack) = Pushes(NameAt(c, p))
  BY DEF Gives, ToI32, ToI64, ToF32, ToBool
<1>2. \A name : /\ name \in ToI32 => Pushes(name) = <<I32>>
                /\ name \in ToI64 => Pushes(name) = <<I64>>
                /\ name \in ToF32 => Pushes(name) = <<F32>>
                /\ name \in ToBool => Pushes(name) = <<BOOL>>
  BY DEF Pushes, ToI32, ToI64, ToF32, ToBool
<1>. QED
  BY <1>1, <1>2

(* The operands an instruction takes are numbers with a state. *)
LEMMA TakenOperands ==
  ASSUME DeviceInv, ValuesInv, status = "running",
         NEW n, n = Len(Takes(container, current, pc, shapes[current][pc]))
  PROVE  /\ n \in {1, 2} => sp - n \in Slot /\ Operand1 \in Int /\ State1 \in Validity
         /\ n = 2 => /\ Operand2 \in Int /\ states[sp - 2] \in Validity
                     /\ State12 \in Validity
<1>. DEFINE stack == shapes[current][pc]
<1>1. n \in 0..Len(stack) /\ Len(stack) \in Nat
  BY RunningFrame, TypedInstruction DEF DeviceInv
<1>2. n \in {1, 2} => sp - 1 \in Slot /\ Operand1 \in Int /\ State1 \in Validity
  <2>1. n \in {1, 2} => 1 \in 1..Len(stack)
    BY <1>1
  <2>. QED
    BY <2>1, OperandsHold DEF Operand1, State1
<1>3. n = 2 => sp - 2 \in Slot /\ Operand2 \in Int /\ states[sp - 2] \in Validity
  <2>1. n = 2 => 2 \in 1..Len(stack)
    BY <1>1
  <2>. QED
    BY <2>1, OperandsHold DEF Operand2
<1>4. n = 2 => State12 \in Validity
  BY <1>2, <1>3, WorseState DEF State12, State1
<1>. QED
  BY <1>2, <1>3, <1>4

(* One result in place of the operands, of the type the instruction gives. *)
LEMMA ResultHeld ==
  ASSUME DeviceInv, ValuesInv, status = "running", UNCHANGED verifyVars,
         Name \in TwoToOne \cup OneToOne,
         NEW n, n = IF Name \in TwoToOne THEN 2 ELSE 1,
         NEW type, Gives(container, current, pc, shapes[current][pc]) = <<type>>,
         NEW v \in Int, Canonical(type, v), NEW s \in Validity, Produce(n, v, s)
  PROVE  ValuesInv'
<1>1. n = Len(Takes(container, current, pc, shapes[current][pc]))
  BY FixedCounts DEF Name
<1>2. sp - n \in Slot
  BY <1>1, TakenOperands
<1>3. Name \notin Return \cup {"jmp"}
  BY DEF TwoToOne, OneToOne, Return, ArithI32, DivRemI32, CompareI32, Bitwise32, Shift32,
     ArithI64, DivRemI64, CompareI64, ArithF32, CompareF32, UnaryI32
<1>. QED
  BY <1>1, <1>2, <1>3, ProducedHeld

(* The four ways a result is encoded. *)
LEMMA EncodedHeld ==
  ASSUME DeviceInv, ValuesInv, status = "running", UNCHANGED verifyVars,
         Name \in TwoToOne \cup OneToOne,
         NEW n, n = IF Name \in TwoToOne THEN 2 ELSE 1, NEW x, NEW s \in Validity
  PROVE  /\ x \in Int /\ Name \in ToI32 /\ Produce(n, FromI32(x), s) => ValuesInv'
         /\ x \in Int /\ Name \in ToI64 /\ Produce(n, FromI64(x), s) => ValuesInv'
         /\ x \in Int /\ Name \in ToF32 /\ Produce(n, AsF32(x), s) => ValuesInv'
         /\ Name \in ToBool /\ Produce(n, FromBool(x), s) => ValuesInv'
<1>. DEFINE gives == Gives(container, current, pc, shapes[current][pc])
<1>1. /\ Name \in ToI32 => gives = <<I32>>
      /\ Name \in ToI64 => gives = <<I64>>
      /\ Name \in ToF32 => gives = <<F32>>
      /\ Name \in ToBool => gives = <<BOOL>>
  BY FixedGives DEF Name
<1>2. CASE x \in Int /\ Name \in ToI32 /\ Produce(n, FromI32(x), s)
  BY <1>1, <1>2, Words, ResultHeld
<1>3. CASE x \in Int /\ Name \in ToI64 /\ Produce(n, FromI64(x), s)
  BY <1>1, <1>3, Words, ResultHeld
<1>4. CASE x \in Int /\ Name \in ToF32 /\ Produce(n, AsF32(x), s)
  BY <1>1, <1>4, Words, ResultHeld
<1>5. CASE Name \in ToBool /\ Produce(n, FromBool(x), s)
  BY <1>1, <1>5, Words, ResultHeld
<1>. QED
  BY <1>2, <1>3, <1>4, <1>5

(* What the operands are read as. *)
LEMMA OperandsRead ==
  ASSUME NEW a \in Int
  PROVE  /\ AsI32(a) \in Int /\ AsI32(a) \in -M64..M64
         /\ AsI64(a) \in Int /\ AsI64(a) \in -M64..M64
         /\ AsF32(a) \in 0..M32 - 1
BY Encoders

(* The operations on two operands. *)
LEMMA BinaryHeld ==
  ASSUME DeviceInv, ValuesInv, status = "running", UNCHANGED verifyVars,
         \/ BinaryI32 \/ DivideI32 \/ OrderI32 \/ BitwiseI32 \/ ShiftI32 \/ AndOr
         \/ BinaryI64 \/ DivideI64 \/ OrderI64 \/ BinaryF32 \/ OrderF32
  PROVE  ValuesInv'
<1>1. Name \in TwoToOne
  BY DEF On, BinaryI32, DivideI32, OrderI32, BitwiseI32, ShiftI32, AndOr, BinaryI64,
     DivideI64, OrderI64, BinaryF32, OrderF32, TwoToOne
<1>2. Operand1 \in Int /\ Operand2 \in Int /\ State12 \in Validity
  BY <1>1, FixedCounts, TakenOperands DEF Name
<1>. DEFINE a32 == AsI32(Operand2)
            b32 == AsI32(Operand1)
            a64 == AsI64(Operand2)
            b64 == AsI64(Operand1)
            af  == AsF32(Operand2)
            bf  == AsF32(Operand1)
            st  == State12
<1>3. /\ a32 \in Int /\ b32 \in Int /\ a64 \in Int /\ b64 \in Int
      /\ af \in 0..M32 - 1 /\ bf \in 0..M32 - 1
      /\ M32 \in Nat \ {0} /\ M64 \in Nat \ {0}
  BY <1>2, OperandsRead, WordAssumption
<1>. HIDE DEF a32, b32, a64, b64, af, bf, st, M32, M64
<1>4. CASE BinaryI32
  <2>1. Name \in ArithI32 /\ Produce(2, FromI32(Wrapped(Name, a32, b32, M32)), st)
    BY <1>4 DEF BinaryI32, On, Operate, a32, b32, st
  <2>2. Wrapped(Name, a32, b32, M32) \in Int
    BY <1>3, <2>1, ArithType
  <2>. QED
    BY <1>1, <1>2, <2>1, <2>2, EncodedHeld DEF ToI32, st
<1>5. CASE DivideI32
  <2>. DEFINE o == DivRem(Name, a32, b32, st, M32)
  <2>1. Name \in DivRemI32 /\ Produce(2, FromI32(o[1]), o[2])
    BY <1>5 DEF DivideI32, On, Operate, a32, b32, st
  <2>2. o[1] \in Int /\ o[2] \in Validity
    BY <1>2, <1>3, DivRemType DEF Outcome, st
  <2>. QED
    BY <1>1, <2>1, <2>2, EncodedHeld DEF ToI32
<1>6. CASE OrderI32
  <2>1. Name \in CompareI32 /\ Produce(2, FromBool(Compared(Name, a32, b32)), st)
    BY <1>6 DEF OrderI32, On, Operate, a32, b32, st
  <2>. QED
    BY <1>1, <1>2, <2>1, EncodedHeld DEF ToBool, st
<1>7. CASE BitwiseI32
  <2>1. Name \in Bitwise32 /\ Produce(2, FromI32(Bits(Name, a32, b32)), st)
    BY <1>7 DEF BitwiseI32, On, Operate, a32, b32, st
  <2>2. Bits(Name, a32, b32) \in Int
    BY <1>3, <2>1, BitsType
  <2>. QED
    BY <1>1, <1>2, <2>1, <2>2, EncodedHeld DEF ToI32, st
<1>8. CASE ShiftI32
  <2>. DEFINE o == IF Name = "shl.i32" THEN Shl(a32, b32, st) ELSE Shr(a32, b32, st)
  <2>1. Name \in Shift32 /\ Produce(2, FromI32(o[1]), o[2])
    BY <1>8 DEF ShiftI32, On, Operate, a32, b32, st
  <2>2. o[1] \in Int /\ o[2] \in Validity
    BY <1>2, <1>3, ShiftType DEF Outcome, st
  <2>. QED
    BY <1>1, <2>1, <2>2, EncodedHeld DEF ToI32
<1>9. CASE AndOr
  <2>1. Name \in {"and", "or"} /\ \E b : Produce(2, FromBool(b), st)
    BY <1>9 DEF AndOr, On, Operate, st
  <2>. QED
    BY <1>1, <1>2, <2>1, EncodedHeld DEF ToBool, st
<1>10. CASE BinaryI64
  <2>1. Name \in ArithI64 /\ Produce(2, FromI64(Wrapped(Name, a64, b64, M64)), st)
    BY <1>10 DEF BinaryI64, On, Operate, a64, b64, st
  <2>2. Wrapped(Name, a64, b64, M64) \in Int
    BY <1>3, <2>1, ArithType
  <2>. QED
    BY <1>1, <1>2, <2>1, <2>2, EncodedHeld DEF ToI64, st
<1>11. CASE DivideI64
  <2>. DEFINE o == DivRem(Name, a64, b64, st, M64)
  <2>1. Name \in DivRemI64 /\ Produce(2, FromI64(o[1]), o[2])
    BY <1>11 DEF DivideI64, On, Operate, a64, b64, st
  <2>2. o[1] \in Int /\ o[2] \in Validity
    BY <1>2, <1>3, DivRemType DEF Outcome, st
  <2>. QED
    BY <1>1, <2>1, <2>2, EncodedHeld DEF ToI64
<1>12. CASE OrderI64
  <2>1. Name \in CompareI64 /\ Produce(2, FromBool(Compared(Name, a64, b64)), st)
    BY <1>12 DEF OrderI64, On, Operate, a64, b64, st
  <2>. QED
    BY <1>1, <1>2, <2>1, EncodedHeld DEF ToBool, st
<1>13. CASE BinaryF32
  <2>1. Name \in ArithF32 /\ Produce(2, AsF32(F32Arith(Name, af, bf)), st)
    BY <1>13 DEF BinaryF32, On, Operate, af, bf, st
  <2>2. F32Arith(Name, af, bf) \in Int
    BY <1>3, <2>1, FloatType
  <2>. QED
    BY <1>1, <1>2, <2>1, <2>2, EncodedHeld DEF ToF32, st
<1>14. CASE OrderF32
  <2>1. Name \in CompareF32 /\ Produce(2, FromBool(ComparedF32(Name, af, bf)), st)
    BY <1>14 DEF OrderF32, On, Operate, af, bf, st
  <2>. QED
    BY <1>1, <1>2, <2>1, EncodedHeld DEF ToBool, st
<1>. QED
  BY <1>4, <1>5, <1>6, <1>7, <1>8, <1>9, <1>10, <1>11, <1>12, <1>13, <1>14

(* The operations on one. *)
LEMMA UnaryHeld ==
  ASSUME DeviceInv, ValuesInv, status = "running", UNCHANGED verifyVars,
         \/ NegI32 \/ BitNotI32 \/ Not \/ NegI64 \/ ExtendI32I64 \/ WrapI64I32 \/ NegF32
         \/ ConvertToF32 \/ TruncToI32 \/ TruncToI64
  PROVE  ValuesInv'
<1>1. Name \in OneToOne /\ ~(Name \in TwoToOne)
  BY DEF On, NegI32, BitNotI32, Not, NegI64, ExtendI32I64, WrapI64I32, NegF32,
     ConvertToF32, TruncToI32, TruncToI64, OneToOne, TwoToOne, ArithI32, DivRemI32, CompareI32,
     Bitwise32, Shift32, ArithI64, DivRemI64, CompareI64, ArithF32, CompareF32, UnaryI32
<1>2. Operand1 \in Int /\ State1 \in Validity
  BY <1>1, FixedCounts, TakenOperands DEF Name
<1>. DEFINE a32 == AsI32(Operand1)
            a64 == AsI64(Operand1)
            af  == AsF32(Operand1)
            st  == State1
<1>3. /\ a32 \in Int /\ a64 \in Int /\ af \in 0..M32 - 1
      /\ a32 \in -M64..M64 /\ a64 \in -M64..M64
      /\ M32 \in Nat \ {0} /\ M64 \in Nat \ {0} /\ M32 \in Int /\ M64 \in Int
  BY <1>2, OperandsRead, WordAssumption
<1>. HIDE DEF a32, a64, af, st, M32, M64
<1>4. CASE NegI32
  <2>1. Name = "neg.i32" /\ Produce(1, FromI32(Neg(a32, M32)), st)
    BY <1>4 DEF NegI32, On, Operate, a32, st
  <2>2. Neg(a32, M32) \in Int
    BY <1>3, NegType
  <2>. QED
    BY <1>1, <1>2, <2>1, <2>2, EncodedHeld DEF ToI32, UnaryI32, st
<1>5. CASE BitNotI32
  <2>1. Name = "bitnot.i32" /\ Produce(1, FromI32(BitNot(a32)), st)
    BY <1>5 DEF BitNotI32, On, Operate, a32, st
  <2>2. BitNot(a32) \in Int
    <3>1. "and.i32" \in Bitwise32
      BY DEF Bitwise32
    <3>. QED
      BY <1>3, <3>1, BitsType
  <2>. QED
    BY <1>1, <1>2, <2>1, <2>2, EncodedHeld DEF ToI32, UnaryI32, st
<1>6. CASE Not
  <2>1. Name = "not" /\ \E b : Produce(1, FromBool(b), st)
    BY <1>6 DEF Not, On, Operate, st
  <2>. QED
    BY <1>1, <1>2, <2>1, EncodedHeld DEF ToBool, st
<1>7. CASE NegI64
  <2>1. Name = "neg.i64" /\ Produce(1, FromI64(Neg(a64, M64)), st)
    BY <1>7 DEF NegI64, On, Operate, a64, st
  <2>2. Neg(a64, M64) \in Int
    BY <1>3, NegType
  <2>. QED
    BY <1>1, <1>2, <2>1, <2>2, EncodedHeld DEF ToI64, st
<1>8. CASE ExtendI32I64
  <2>1. Name = "extend.i32_i64" /\ Produce(1, FromI64(a32), st)
    BY <1>8 DEF ExtendI32I64, On, Operate, a32, st
  <2>. QED
    BY <1>1, <1>2, <1>3, <2>1, EncodedHeld DEF ToI64, st
<1>9. CASE WrapI64I32
  <2>1. Name = "wrap.i64_i32" /\ Produce(1, FromI32(a64), st)
    BY <1>9 DEF WrapI64I32, On, Operate, a64, st
  <2>. QED
    BY <1>1, <1>2, <1>3, <2>1, EncodedHeld DEF ToI32, st
<1>10. CASE NegF32
  <2>1. Name = "neg.f32" /\ Produce(1, AsF32(F32Neg(af)), st)
    BY <1>10 DEF NegF32, On, Operate, af, st
  <2>2. F32Neg(af) \in Int
    BY <1>3, FloatType
  <2>. QED
    BY <1>1, <1>2, <2>1, <2>2, EncodedHeld DEF ToF32, st
<1>11. CASE ConvertToF32
  <2>1. /\ Name \in {"convert.i32_f32", "convert.i64_f32"}
        /\ \E n \in {a32, a64} : Produce(1, AsF32(F32FromInt(n)), st)
    BY <1>11 DEF ConvertToF32, On, Operate, a32, a64, st
  <2>2. \A n \in {a32, a64} : F32FromInt(n) \in Int
    BY <1>3, FloatType
  <2>. QED
    BY <1>1, <1>2, <2>1, <2>2, EncodedHeld DEF ToF32, st
<1>12. CASE TruncToI32
  <2>. DEFINE o == TruncF32(af, st, M32)
  <2>1. Name = "trunc.f32_i32" /\ Produce(1, FromI32(o[1]), o[2])
    BY <1>12 DEF TruncToI32, On, Operate, af, st
  <2>2. o[1] \in Int /\ o[2] \in Validity
    BY <1>2, <1>3, FloatType DEF Outcome, st
  <2>. QED
    BY <1>1, <2>1, <2>2, EncodedHeld DEF ToI32
<1>13. CASE TruncToI64
  <2>. DEFINE o == TruncF32(af, st, M64)
  <2>1. Name = "trunc.f32_i64" /\ Produce(1, FromI64(o[1]), o[2])
    BY <1>13 DEF TruncToI64, On, Operate, af, st
  <2>2. o[1] \in Int /\ o[2] \in Validity
    BY <1>2, <1>3, FloatType DEF Outcome, st
  <2>. QED
    BY <1>1, <2>1, <2>2, EncodedHeld DEF ToI64
<1>. QED
  BY <1>4, <1>5, <1>6, <1>7, <1>8, <1>9, <1>10, <1>11, <1>12, <1>13

-----------------------------------------------------------------------------
(* What the tables say of the instruction at pc. *)
LEMMA LookedUp ==
  ASSUME DeviceInv, status = "running"
  PROVE  /\ TypedAs(current, pc, Takes(container, current, pc, shapes[current][pc]),
                    Gives(container, current, pc, shapes[current][pc]))
         /\ Name \in Indexed \cup ConstState => Arg \in Nat
         /\ Name \in {"load.l", "store.l", "loop.guard"} => Arg \in 0..Len(LocalsOf(current)) - 1
         /\ Name = "loop.guard" => At(LocalsOf(current), Arg) = I32
         /\ Name \in {"load.h", "store.h"} => Imp.type \in ValueType /\ Imp.kind = "entity"
         /\ Name = "load.h" => Imp.readable
         /\ Name = "store.h" => Imp.writable
         /\ Name = "call.h" => /\ Imp.type \in ValType /\ Imp.kind = "function"
                               /\ Imp.param_types \in Seq(ValueType)
         /\ Name = "call" => Arg \in Functions(container)
         /\ Name \in ConstState => Arg \in ValueType
<1>. DEFINE stack == shapes[current][pc]
<1>1. /\ VerifyInv /\ AcceptedInv /\ verdict = "accepted" /\ Decoded(container)
      /\ current \in Functions(container) /\ pc \in DOMAIN shapes[current]
      /\ LocalsOf(current) \in Seq(ValueType)
  BY RunningFrame DEF DeviceInv, VerifyInv, VerifyTypeOK
<1>2. TypedAs(current, pc, Takes(container, current, pc, stack), Gives(container, current, pc, stack))
  BY <1>1, TypedEffect
<1>3. LookupRefusal(container, current, pc) = "none"
  BY <1>2 DEF TypedAs
<1>4. Name \in Indexed \cup ConstState => Arg \in Byte
  BY <1>1, TypedInstruction DEF Name, Arg
<1>5. Byte \subseteq Nat
  BY DEF Byte
<1>6. Name \in {"load.l", "store.l", "loop.guard"} => Arg \in 0..Len(LocalsOf(current)) - 1
  <2>1. Name \in {"load.l", "store.l", "loop.guard"} => Arg < Len(LocalsOf(current))
    BY <1>3 DEF LookupRefusal, InLocals, ConstState, Name, Arg, LocalsOf
  <2>2. Name \in {"load.l", "store.l", "loop.guard"} => Arg \in Nat
    BY <1>4, <1>5 DEF Indexed
  <2>3. Len(LocalsOf(current)) \in Nat
    BY <1>1, LenProperties
  <2>. QED
    BY <2>1, <2>2, <2>3
<1>7. Name = "loop.guard" => At(LocalsOf(current), Arg) = I32
  BY <1>3 DEF LookupRefusal, ConstState, Name, Arg, LocalsOf
<1>8. /\ Name \in {"load.h", "store.h"} => Imp.kind = "entity"
      /\ Name = "load.h" => Imp.readable
      /\ Name = "store.h" => Imp.writable
      /\ Name = "call.h" => Imp.kind = "function"
  BY <1>3 DEF LookupRefusal, ConstState, Name, Arg, Imp, Granted
<1>9. /\ Name \in {"load.h", "store.h"} => Imp.type \in ValueType
      /\ Name = "call.h" => Imp.type \in ValType /\ Imp.param_types \in Seq(ValueType)
      /\ Name = "call" => Arg \in Functions(container)
      /\ Name \in ConstState => Arg \in ValueType
  <2>1. /\ Name = NameAt(container, pc) /\ Arg = OperandAt(container, pc)
        /\ Imp = At(container.imports, Arg)
    BY DEF Name, Arg, Imp
  <2>. QED
    BY <1>1, <1>3, <1>4, <2>1, LookupsSucceed
<1>. QED
  BY <1>2, <1>4, <1>5, <1>6, <1>7, <1>8, <1>9

(* What a host hands over becomes a canonical value of the declared type. *)
LEMMA HostWord ==
  ASSUME NEW value \in HostValue, NEW type \in ValueType
  PROVE  /\ ValueToSlot(type, value) \in Int /\ Canonical(type, ValueToSlot(type, value))
         /\ value.validity \in Validity
<1>1. value.as \in Int /\ value.validity \in Validity
  BY VmAssumption DEF HostValue
<1>2. type \in {I32, I64, F32, BOOL}
  BY DEF ValueType, I32, I64, F32, BOOL
<1>. QED
  BY <1>1, <1>2, Words DEF ValueToSlot, I32, I64, F32, BOOL

(* Zero is a value of every type. *)
LEMMA ZeroIsCanonical ==
  ASSUME NEW type
  PROVE  Canonical(type, 0)
<1>1. 0 \in 0..M32 - 1 /\ 0 \in 0..M64 - 1
  BY WordAssumption
<1>. QED
  BY <1>1 DEF Canonical

(* Where an instruction takes nothing and gives a value, there is a slot for
   it. *)
LEMMA PushesIntoSlot ==
  ASSUME DeviceInv, status = "running", InBounds,
         Name \in NoneToOne \cup {"load.l", "load.h"} \cup ConstState
  PROVE  /\ sp - 0 \in Slot
         /\ Name \notin Return \cup {"jmp"}
         /\ 0 = Len(Takes(container, current, pc, shapes[current][pc]))
<1>. USE DEF ConstState, NoneToOne, Pool
<1>1. sp \in Int /\ shapes[current][pc] \in Seq(ValueType)
  BY RunningTypes
<1>2. sp \in Slot
  <2>1. CASE Name = "load.l"
    <3>1. sp \in Touched
      BY <2>1 DEF Touched, Polymorphic, Predicate
    <3>. QED
      BY <3>1 DEF InBounds
  <2>2. CASE Name = "load.h"
    <3>1. sp \in Touched
      BY <2>2 DEF Touched, Polymorphic, Predicate
    <3>. QED
      BY <3>1 DEF InBounds
  <2>3. CASE Name \in ConstState
    <3>1. sp \in Touched
      BY <2>3 DEF Touched, Polymorphic, Predicate
    <3>. QED
      BY <3>1 DEF InBounds
  <2>4. CASE Name \in NoneToOne
    <3>1. Name \notin Polymorphic /\ Pops(Name) = <<>> /\ \E a : Pushes(Name) = <<a>>
      BY <2>4 DEF Polymorphic, Predicate, Return, Pops, Pushes, ArithI32, DivRemI32, CompareI32,
         Bitwise32, Shift32, ArithI64, DivRemI64, CompareI64, ArithF32, CompareF32, UnaryI32
    <3>2. Len(Pops(Name)) = 0 /\ Len(Pushes(Name)) = 1
      BY <3>1
    <3>3. Touched = sp - 0..sp - 1 \cup sp - 0..sp - 0 + 1 - 1
      BY <2>4, <3>1, <3>2 DEF Touched, Polymorphic, Predicate, Return
    <3>. QED
      BY <1>1, <3>3 DEF InBounds
  <2>. QED
    BY <2>1, <2>2, <2>3, <2>4
<1>3. sp - 0 \in Slot
  BY <1>1, <1>2
<1>4. Name \notin Return \cup {"jmp"}
  BY DEF Return
<1>5. 0 = Len(Takes(container, current, pc, shapes[current][pc]))
  BY <1>1, FixedCounts, TableCounts DEF Name
<1>. QED
  BY <1>3, <1>4, <1>5

(* A value pushed on the operands. *)
LEMMA PushHeld ==
  ASSUME DeviceInv, ValuesInv, status = "running", UNCHANGED verifyVars, InBounds,
         Name \in NoneToOne \cup {"load.l", "load.h"} \cup ConstState,
         NEW type, Gives(container, current, pc, shapes[current][pc]) = <<type>>,
         NEW v \in Int, Canonical(type, v), NEW s \in Validity, Produce(0, v, s)
  PROVE  ValuesInv'
BY PushesIntoSlot, ProducedHeld

(* An immediate operand is a number. *)
LEMMA ImmediateType ==
  ASSUME DeviceInv, status = "running", InTables,
         Name \in {"const.i32.s8", "const.i32.s16"}
  PROVE  Arg \in Int
<1>1. /\ container.code \in Seq(Byte) /\ Len(container.code) \in Nat /\ pc \in Nat
  BY RunningTypes, LenProperties
  DEF DeviceInv, VerifyInv, VerifyTypeOK, Decoded, DecodedContainer
<1>2. ASSUME NEW k \in 1..2, pc + k < Len(container.code)
      PROVE  At(container.code, pc + k) \in Int
  <2>1. pc + k + 1 \in 1..Len(container.code)
    BY <1>1, <1>2
  <2>2. At(container.code, pc + k) \in Byte
    BY <1>1, <2>1, ElementOfSeq DEF At
  <2>. QED
    BY <2>2 DEF Byte
<1>3. CASE Name = "const.i32.s8"
  <2>1. Size(Name) = 2 /\ pc + 1 < Len(container.code)
    BY <1>1, <1>3 DEF InTables, Size, Branch, Indexed, ConstState, Pool
  <2>2. Arg = Signed8(At(container.code, pc + 1))
    BY <1>3, <2>1 DEF Arg, OperandAt, Operand, Name
  <2>. QED
    BY <1>2, <2>1, <2>2 DEF Signed8
<1>4. CASE Name = "const.i32.s16"
  <2>1. /\ Size(Name) = 3 /\ pc + 1 < Len(container.code)
        /\ pc + 2 < Len(container.code)
    BY <1>1, <1>4 DEF InTables, Size, Branch, Indexed, ConstState, Pool
  <2>2. Arg = Signed16(At(container.code, pc + 1), At(container.code, pc + 2))
    BY <1>4, <2>1 DEF Arg, OperandAt, Operand, Name
  <2>3. At(container.code, pc + 1) \in Int /\ At(container.code, pc + 2) \in Int
    BY <1>2, <2>1
  <2>4. ASSUME NEW lo \in Int, NEW hi \in Int PROVE Signed16(lo, hi) \in Int
    <3>1. lo + 256 * hi \in Int
      OBVIOUS
    <3>. QED
      BY <3>1 DEF Signed16
  <2>5. Signed16(At(container.code, pc + 1), At(container.code, pc + 2)) \in Int
    BY <2>3, <2>4
  <2>. QED
    BY <2>2, <2>5
<1>. QED
  BY <1>3, <1>4

LEMMA ConstantsHeld ==
  ASSUME DeviceInv, ValuesInv, status = "running", UNCHANGED verifyVars, Constants
  PROVE  ValuesInv'
<1>. DEFINE gives == Gives(container, current, pc, shapes[current][pc])
<1>0. VALID \in Validity /\ UNAVAILABLE \in Validity /\ INVALID \in Validity
  BY DEF Validity, VALID, UNAVAILABLE, INVALID
<1>1. CASE ConstImmediate
  <2>1. /\ Name \in {"const.i32.s8", "const.i32.s16"} /\ InBounds
        /\ Produce(0, FromI32(Arg), VALID)
    BY <1>1 DEF ConstImmediate, On
  <2>2. gives = <<I32>>
    BY <2>1, FixedGives DEF Name, ToI32
  <2>3. Arg \in Int
    BY <2>1, ImmediateType DEF InBounds
  <2>. QED
    BY <1>0, <2>1, <2>2, <2>3, Words, PushHeld DEF NoneToOne
<1>2. CASE ConstPool
  <2>. DEFINE bits == At(container.constants, Arg).value
  <2>1. /\ Name \in Pool /\ InBounds
        /\ Produce(0, IF Name = "const.i64" THEN FromI64(bits) ELSE bits % M32, VALID)
    BY <1>2 DEF ConstPool, On
  <2>2. bits \in Int
    <3>1. Arg \in Nat /\ Arg < Len(container.constants)
      BY <2>1, LookedUp DEF InBounds, InTables, Indexed
    <3>2. container.constants \in Seq(Constant)
      BY DEF DeviceInv, VerifyInv, VerifyTypeOK, Decoded, DecodedContainer
    <3>3. Len(container.constants) \in Nat /\ Arg + 1 \in 1..Len(container.constants)
      BY <3>1, <3>2, LenProperties
    <3>4. At(container.constants, Arg) \in Constant
      BY <3>2, <3>3, ElementOfSeq DEF At
    <3>. QED
      BY <3>4 DEF Constant
  <2>. HIDE DEF bits
  <2>3. CASE Name = "const.i64"
    <3>1. gives = <<I64>>
      BY <2>3, FixedGives DEF Name, ToI64
    <3>2. Produce(0, FromI64(bits), VALID)
      BY <2>1, <2>3
    <3>. QED
      BY <1>0, <2>1, <2>2, <3>1, <3>2, Words, PushHeld DEF NoneToOne
  <2>4. CASE Name = "const.i32"
    <3>1. gives = <<I32>>
      BY <2>4, FixedGives DEF Name, ToI32
    <3>2. Produce(0, FromI32(bits), VALID)
      BY <2>1, <2>4 DEF FromI32
    <3>. QED
      BY <1>0, <2>1, <2>2, <3>1, <3>2, Words, PushHeld DEF NoneToOne
  <2>5. CASE Name = "const.f32"
    <3>1. gives = <<F32>>
      BY <2>5, FixedGives DEF Name, ToF32
    <3>2. Produce(0, AsF32(bits), VALID)
      BY <2>1, <2>5 DEF AsF32
    <3>. QED
      BY <1>0, <2>1, <2>2, <3>1, <3>2, Words, PushHeld DEF NoneToOne
  <2>. QED
    BY <2>1, <2>3, <2>4, <2>5 DEF Pool
<1>3. CASE ConstBool
  <2>1. /\ Name \in {"const.true", "const.false"} /\ InBounds
        /\ \E b : Produce(0, FromBool(b), VALID)
    BY <1>3 DEF ConstBool, On
  <2>2. gives = <<BOOL>>
    BY <2>1, FixedGives DEF Name, ToBool
  <2>. QED
    BY <1>0, <2>1, <2>2, Words, PushHeld DEF NoneToOne
<1>4. CASE ConstAbsent
  <2>1. /\ Name \in ConstState /\ InBounds
        /\ \E s \in Validity : Produce(0, 0, s)
    BY <1>0, <1>4 DEF ConstAbsent, On
  <2>2. gives = <<Arg>>
    BY <2>1 DEF Name, Arg, Gives, ConstState, Predicate
  <2>3. 0 \in Int /\ Canonical(Arg, 0)
    BY ZeroIsCanonical
  <2>. QED
    BY <2>1, <2>2, <2>3, PushHeld
<1>. QED
  BY <1>1, <1>2, <1>3, <1>4 DEF Constants

(* Loads, stores and what moves operands about. *)
LEMMA MovementHeld ==
  ASSUME DeviceInv, ValuesInv, status = "running", UNCHANGED verifyVars,
         LoadL \/ StoreL \/ Drop \/ Dup \/ LoadH \/ StoreH
  PROVE  ValuesInv'
<1>. DEFINE stack  == shapes[current][pc]
            locals == LocalsOf(current)
            takes  == Takes(container, current, pc, stack)
            gives  == Gives(container, current, pc, stack)
<1>1. /\ stack \in Seq(ValueType) /\ Len(stack) \in Nat
      /\ current \in Functions(container) /\ pc \in DOMAIN shapes[current]
      /\ verdict = "accepted" /\ sp \in Int
      /\ Len(takes) \in 0..Len(stack) /\ Len(takes) \in Nat
      /\ TypedAs(current, pc, takes, gives)
  BY RunningFrame, RunningTypes, TypedInstruction, LookedUp DEF DeviceInv
<1>2. CASE LoadL
  <2>1. /\ Name = "load.l" /\ InBounds
        /\ Produce(0, values[base + Arg], states[base + Arg])
    BY <1>2 DEF LoadL, On
  <2>2. Arg \in 0..Len(locals) - 1
    BY <2>1, LookedUp
  <2>3. /\ values[base + Arg] \in Int /\ states[base + Arg] \in Validity
        /\ Canonical(At(locals, Arg), values[base + Arg])
    BY <2>2, LocalsHold
  <2>4. gives = <<At(locals, Arg)>>
    BY <2>1 DEF Gives, Name, Arg, LocalsOf, Predicate, ConstState
  <2>. QED
    BY <2>1, <2>3, <2>4, PushHeld
<1>3. CASE StoreL
  <2>1. /\ Name = "store.l" /\ UNCHANGED <<status, frameVars>>
        /\ values' = [values EXCEPT ![base + Arg] = Operand1]
        /\ states' = [states EXCEPT ![base + Arg] = State1]
    BY <1>3 DEF StoreL, On, Advance
  <2>2. Arg \in 0..Len(locals) - 1
    BY <2>1, LookedUp
  <2>3. takes = <<At(locals, Arg)>> /\ gives = <<>>
    BY <2>1 DEF Takes, Gives, Name, Arg, LocalsOf, Predicate, ConstState, Pushes, ArithI32,
       DivRemI32, CompareI32, Bitwise32, Shift32, ArithI64, DivRemI64, CompareI64, ArithF32,
       CompareF32, UnaryI32
  <2>4. Len(takes) = 1
    BY <2>3
  <2>5. stack[Len(stack)] = At(locals, Arg)
    <3>1. takes[1] = At(locals, Arg) /\ 1 \in 1..Len(takes)
      BY <2>3, <2>4
    <3>2. Len(stack) - Len(takes) + 1 = Len(stack)
      BY <1>1, <2>4
    <3>. QED
      BY <1>1, <3>1, <3>2 DEF TypedAs
  <2>6. Operand1 \in Int /\ State1 \in Validity /\ Canonical(At(locals, Arg), Operand1)
    <3>1. 1 \in 1..Len(stack) /\ Len(stack) - 1 + 1 = Len(stack)
      BY <1>1, <2>4
    <3>. QED
      BY <2>5, <3>1, OperandsHold DEF Operand1, State1
  <2>7. Continues
    BY <1>1, <1>3, MoveSteps, <2>1 DEF Movement, Leave, StoreL, On
  <2>. QED
    BY <2>1, <2>2, <2>3, <2>6, <2>7, LocalSetHeld
<1>4. CASE Drop
  <2>1. Name = "drop" /\ UNCHANGED slots /\ status' = status
    BY <1>4 DEF Drop, On, Advance
  <2>2. gives = <<>>
    BY <2>1 DEF Gives, Name, Predicate, ConstState, Pushes, ArithI32, DivRemI32, CompareI32,
       Bitwise32, Shift32, ArithI64, DivRemI64, CompareI64, ArithF32, CompareF32, UnaryI32
  <2>3. Continues
    BY <1>1, <1>4, MoveSteps, <2>1 DEF Movement, Leave, Drop, On
  <2>. QED
    BY <2>1, <2>2, <2>3, PoppedHeld
<1>5. CASE LoadH
  <2>1. PICK value \in HostValue :
          /\ Name = "load.h" /\ InBounds
          /\ Produce(0, ValueToSlot(Imp.type, value), value.validity)
    BY <1>5 DEF LoadH, On
  <2>2. Imp.type \in ValueType
    BY <2>1, LookedUp
  <2>3. gives = <<Imp.type>>
    BY <2>1 DEF Gives, Name, Imp, Arg, Predicate, ConstState
  <2>. QED
    BY <2>1, <2>2, <2>3, HostWord, PushHeld
<1>6. CASE StoreH
  <2>1. Name = "store.h" /\ UNCHANGED slots /\ status' = status
    BY <1>6 DEF StoreH, On, Advance
  <2>2. gives = <<>>
    BY <2>1 DEF Gives, Name, Predicate, ConstState, Pushes, ArithI32, DivRemI32, CompareI32,
       Bitwise32, Shift32, ArithI64, DivRemI64, CompareI64, ArithF32, CompareF32, UnaryI32
  <2>3. Continues
    BY <1>1, <1>6, MoveSteps, <2>1 DEF Movement, Leave, StoreH, On
  <2>. QED
    BY <2>1, <2>2, <2>3, PoppedHeld
<1>7. CASE Dup
  <2>. DEFINE m == Len(HeldTypes) - Len(takes)
  <2>1. /\ Name = "dup" /\ InBounds /\ status' = status
        /\ values' = [values EXCEPT ![sp - 0] = Operand1]
        /\ states' = [states EXCEPT ![sp - 0] = State1]
        /\ sp' = sp - 0 + 1
    BY <1>7 DEF Dup, On, Produce, Advance
  <2>2. Len(takes) = 1 /\ gives = <<Last(stack), Last(stack)>>
    BY <1>1, <2>1, TableCounts DEF Gives, Name
  <2>3. /\ base \in Nat /\ Len(HeldTypes) \in Nat /\ sp = base + Len(HeldTypes)
        /\ Len(HeldTypes) = Len(locals) + Len(stack) /\ Len(locals) \in Nat
    BY RunningFrame
  <2>4. sp - 0 = sp /\ sp \in Slot /\ sp' = sp + 1
    <3>1. sp \in Touched
      BY <2>1 DEF Touched, Polymorphic, Predicate
    <3>. QED
      BY <1>1, <2>1, <3>1 DEF InBounds
  <2>5. Operand1 \in Int /\ State1 \in Validity /\ Canonical(Last(stack), Operand1)
    <3>1. 1 \in 1..Len(stack) /\ Len(stack) - 1 + 1 = Len(stack)
      BY <1>1, <2>2
    <3>. QED
      BY <3>1, OperandsHold DEF Operand1, State1, Last
  <2>6. values \in [Slot -> Int] /\ states \in [Slot -> Int] /\ State1 \in Int
    BY <2>5 DEF ValuesInv, SlotsTyped, Validity, VALID, INVALID
  <2>7. SlotsTyped' /\ values'[sp] = Operand1 /\ states'[sp] = State1
    BY <2>1, <2>4, <2>5, <2>6 DEF SlotsTyped
  <2>8. sp' <= MaxSlots
    BY <1>1, <2>4, VmAssumption DEF Slot
  <2>9. ASSUME NEW x \in 0..sp - 1 PROVE values'[x] = values[x] /\ states'[x] = states[x]
    <3>1. x # sp /\ x \in Slot
      BY <1>1, <2>4, VmAssumption DEF Slot
    <3>. QED
      BY <2>1, <2>4, <2>6, <3>1
  <2>10. m \in Nat /\ m <= Len(HeldTypes) /\ base + m = sp - 1 /\ base + m \in 0..sp - 1
    <3>. HIDE DEF locals, stack, takes
    <3>. QED
      BY <1>1, <2>2, <2>3
  <2>. HIDE DEF m
  <2>11. \A k \in 1..m : /\ Canonical(HeldTypes[k], values'[base + k - 1])
                         /\ states'[base + k - 1] \in Validity
    <3>1. m \in Int /\ \A x \in 0..base + m - 1 : x \in 0..sp - 1
      BY <1>1, <2>3, <2>10
    <3>2. \A x \in 0..base + m - 1 : values'[x] = values[x] /\ states'[x] = states[x]
      BY <2>9, <3>1
    <3>. QED
      BY <2>10, <3>1, <3>2, StillHeld
  <2>12. ASSUME NEW j \in 1..Len(gives)
         PROVE  /\ Canonical(gives[j], values'[base + m + j - 1])
                /\ states'[base + m + j - 1] \in Validity
    <3>1. j \in {1, 2} /\ gives[j] = Last(stack)
      BY <2>2
    <3>2. values'[sp - 1] = Operand1 /\ states'[sp - 1] = State1
      BY <2>9, <2>10 DEF Operand1, State1
    <3>3. base + m + j - 1 = (IF j = 1 THEN sp - 1 ELSE sp)
      BY <1>1, <2>3, <2>10, <3>1, SMTT(20)
    <3>. QED
      BY <2>5, <2>7, <3>1, <3>2, <3>3
  <2>13. Continues
    BY <1>1, <1>7, MoveSteps, <2>1 DEF Movement, Leave, Dup, On
  <2>14. \A x \in 0..base - 1 : values'[x] = values[x] /\ states'[x] = states[x]
    BY <1>1, <2>3, <2>9
  <2>. QED
    BY <2>7, <2>8, <2>11, <2>12, <2>13, <2>14, MovedHeld DEF m
<1>. QED
  BY <1>2, <1>3, <1>4, <1>5, <1>6, <1>7

(* An invocation that ends leaves numbers, and nothing else is promised. *)
LEMMA LeaveHeld ==
  ASSUME Leave
  PROVE  ValuesInv'
<1>1. M64 - 1 \in Int /\ 255 \in Int
  BY WordAssumption
<1>2. SlotsTyped'
  BY <1>1 DEF Leave, Leftover, SlotsTyped
<1>3. status' # "running"
  BY DEF Leave
<1>. QED
  BY <1>2, <1>3 DEF ValuesInv

LEMMA CallHHeld ==
  ASSUME DeviceInv, ValuesInv, status = "running", UNCHANGED verifyVars, CallH
  PROVE  ValuesInv'
<1>. DEFINE stack  == shapes[current][pc]
            takes  == Takes(container, current, pc, stack)
            gives  == Gives(container, current, pc, stack)
            count  == Len(Imp.param_types)
<1>1. /\ stack \in Seq(ValueType) /\ Len(takes) \in Nat /\ sp \in Int
  BY RunningTypes
<1>2. Name = "call.h" /\ InBounds
  BY DEF CallH, On
<1>3. /\ takes = Imp.param_types
      /\ gives = IF Imp.type = VOID THEN <<>> ELSE <<Imp.type>>
  BY <1>2 DEF Takes, Gives, Name, Imp, Arg, Predicate, ConstState
<1>4. CASE FaultWith("host_fault")
  BY <1>4, LeaveHeld DEF FaultWith
<1>5. CASE Imp.type = VOID /\ sp' = sp - count /\ Advance /\ UNCHANGED slots
  <2>1. gives = <<>>
    BY <1>3, <1>5
  <2>2. Continues
    <3>1. status' = status
      BY <1>5 DEF Advance
    <3>. QED
      BY <1>1, <3>1, MoveSteps DEF Movement, Leave, CallH, On
  <2>. QED
    BY <1>5, <2>1, <2>2, PoppedHeld
<1>6. CASE /\ Imp.type # VOID
           /\ \E value \in HostValue :
                Produce(count, ValueToSlot(Imp.type, value), value.validity)
  <2>1. PICK value \in HostValue : Produce(count, ValueToSlot(Imp.type, value), value.validity)
    BY <1>6
  <2>2. Imp.type \in ValueType
    BY <1>2, <1>6, LookedUp DEF ValType, ValueType, VOID, I32, BOOL
  <2>3. gives = <<Imp.type>>
    BY <1>3, <1>6
  <2>4. count = Len(takes) /\ Name \notin Return \cup {"jmp"}
    BY <1>2, <1>3 DEF Return
  <2>5. sp - count \in Slot
    <3>1. Touched = sp - count..sp - 1 \cup {sp - count}
      BY <1>2, <1>6 DEF Touched, Polymorphic, Predicate, ConstState
    <3>2. sp - count \in Touched
      BY <3>1
    <3>. QED
      BY <1>2, <3>2 DEF InBounds
  <2>. QED
    BY <2>1, <2>2, <2>3, <2>4, <2>5, HostWord, ProducedHeld
<1>. QED
  BY <1>4, <1>5, <1>6 DEF CallH

(* The operations whose result is of the type of an operand, or reads only its
   state. *)
LEMMA ElseHeld ==
  ASSUME DeviceInv, ValuesInv, status = "running", UNCHANGED verifyVars, Else
  PROVE  ValuesInv'
<1>. DEFINE stack  == shapes[current][pc]
            takes  == Takes(container, current, pc, stack)
            gives  == Gives(container, current, pc, stack)
<1>1. /\ stack \in Seq(ValueType) /\ Len(stack) \in Nat
      /\ Len(takes) \in 0..Len(stack) /\ Len(takes) \in Nat
      /\ TypedAs(current, pc, takes, gives)
  BY RunningFrame, RunningTypes, TypedInstruction, LookedUp DEF DeviceInv
<1>2. Name = "else"
  BY DEF Else, On
<1>3. Len(takes) = 2 /\ Len(stack) >= 2
  BY <1>1, <1>2, TableCounts DEF Name
<1>4. takes = <<Last(stack), Last(stack)>> /\ gives = <<Last(stack)>>
  <2>1. stack # <<>>
    BY <1>3
  <2>. QED
    BY <1>2, <2>1 DEF Takes, Gives, Name, Predicate, ConstState
<1>5. stack[Len(stack) - 2 + 1] = Last(stack) /\ stack[Len(stack) - 1 + 1] = Last(stack)
  <2>1. takes[1] = Last(stack) /\ 1 \in 1..Len(takes)
    BY <1>3, <1>4
  <2>2. stack[Len(stack) - 2 + 1] = Last(stack)
    BY <1>1, <1>3, <2>1 DEF TypedAs
  <2>3. Len(stack) - 1 + 1 = Len(stack)
    BY <1>1
  <2>. QED
    BY <2>2, <2>3 DEF Last
<1>6. /\ Operand1 \in Int /\ State1 \in Validity /\ Canonical(Last(stack), Operand1)
      /\ Operand2 \in Int /\ Canonical(Last(stack), Operand2)
  <2>1. 1 \in 1..Len(stack) /\ 2 \in 1..Len(stack)
    BY <1>1, <1>3
  <2>. QED
    BY <1>5, <2>1, OperandsHold DEF Operand1, Operand2, State1
<1>7. \E v \in {Operand1, Operand2} : \E s \in Validity : Produce(2, v, s)
  BY <1>6 DEF Else, Validity, VALID, INVALID
<1>8. sp - 2 \in Slot
  BY <1>3, TakenOperands
<1>. QED
  BY <1>2, <1>3, <1>4, <1>6, <1>7, <1>8, ProducedHeld DEF Return

LEMMA IsStateHeld ==
  ASSUME DeviceInv, ValuesInv, status = "running", UNCHANGED verifyVars, IsState
  PROVE  ValuesInv'
<1>. DEFINE stack  == shapes[current][pc]
            takes  == Takes(container, current, pc, stack)
            gives  == Gives(container, current, pc, stack)
<1>1. stack \in Seq(ValueType)
  BY RunningTypes
<1>2. /\ Name \in Predicate
      /\ \E b : Produce(1, FromBool(b), VALID)
  BY DEF IsState, On, Operate
<1>3. Len(takes) = 1
  BY <1>1, <1>2, TableCounts DEF Name
<1>4. gives = <<BOOL>>
  BY <1>2 DEF Gives, Name, Predicate, ConstState
<1>5. sp - 1 \in Slot /\ VALID \in Validity
  BY <1>3, TakenOperands DEF Validity, VALID, INVALID
<1>6. Name \notin Return \cup {"jmp"}
  BY <1>2 DEF Return, Predicate
<1>. QED
  BY <1>2, <1>3, <1>4, <1>5, <1>6, Words, ProducedHeld

-----------------------------------------------------------------------------
(* Jumps and the loop guard. *)
LEMMA LoopGuardHeld ==
  ASSUME DeviceInv, ValuesInv, status = "running", UNCHANGED verifyVars, LoopGuard
  PROVE  ValuesInv'
<1>. DEFINE stack  == shapes[current][pc]
            gives  == Gives(container, current, pc, stack)
            left   == AsI32(values[base + Arg]) - 1
<1>1. Name = "loop.guard"
  BY DEF LoopGuard, On
<1>2. /\ Arg \in 0..Len(LocalsOf(current)) - 1
      /\ At(LocalsOf(current), Arg) = I32
  BY <1>1, LookedUp
<1>3. /\ values[base + Arg] \in Int /\ states[base + Arg] \in Validity
      /\ base + Arg \in Slot
  BY <1>2, LocalsHold
<1>4. left \in Int
  <2>1. AsI32(values[base + Arg]) \in Int
    BY <1>3, OperandsRead
  <2>. QED
    BY <2>1
<1>5. FromI32(left) \in Int /\ Canonical(I32, FromI32(left))
  BY <1>4, Words
<1>6. gives = <<>>
  BY <1>1 DEF Gives, Name, Predicate, ConstState, Pushes, ArithI32, DivRemI32, CompareI32,
     Bitwise32, Shift32, ArithI64, DivRemI64, CompareI64, ArithF32, CompareF32, UnaryI32
<1>7. CASE FaultWith("iteration_limit")
  BY <1>7, LeaveHeld DEF FaultWith
<1>8. CASE /\ values' = [values EXCEPT ![base + Arg] = FromI32(left)]
           /\ Advance /\ UNCHANGED <<states, sp>>
  <2>1. Continues
    <3>1. sp \in Int /\ base \in Int
      BY RunningTypes
    <3>2. Continues \/ Leave \/ (status' = status /\ (Enters \/ Returns))
      BY <3>1, ControlSteps DEF Control
    <3>3. ~Enters /\ ~Returns /\ ~Leave
      BY <1>1, <1>8 DEF Enters, Returns, Leave, Advance, Name, Return
    <3>. QED
      BY <3>2, <3>3
  <2>2. states' = [states EXCEPT ![base + Arg] = states[base + Arg]]
    BY <1>3, <1>8 DEF ValuesInv, SlotsTyped
  <2>. QED
    BY <1>2, <1>3, <1>5, <1>6, <1>8, <2>1, <2>2, LocalSetHeld
<1>. QED
  BY <1>7, <1>8 DEF LoopGuard

LEMMA JumpsHeld ==
  ASSUME DeviceInv, ValuesInv, status = "running", UNCHANGED verifyVars, Jmp \/ JmpIf
  PROVE  ValuesInv'
<1>. DEFINE stack  == shapes[current][pc]
            gives  == Gives(container, current, pc, stack)
<1>1. Name \in {"jmp", "jmp_if_false", "jmp_if_true"}
  BY DEF Jmp, JmpIf, On
<1>2. gives = <<>>
  BY <1>1 DEF Gives, Name, Predicate, ConstState, Pushes, ArithI32, DivRemI32, CompareI32,
     Bitwise32, Shift32, ArithI64, DivRemI64, CompareI64, ArithF32, CompareF32, UnaryI32
<1>3. CASE Leave
  BY <1>3, LeaveHeld
<1>4. CASE UNCHANGED slots /\ status' = status
  <2>1. sp \in Int /\ base \in Int
    BY RunningTypes
  <2>2. Continues \/ Leave \/ (status' = status /\ (Enters \/ Returns))
    BY <2>1, ControlSteps DEF Control
  <2>3. ~Enters /\ ~Returns
    BY <1>1 DEF Enters, Returns, Name, Return
  <2>4. Continues
    BY <1>3, <1>4, <2>2, <2>3 DEF Leave
  <2>. QED
    BY <1>2, <1>4, <2>4, PoppedHeld
<1>. QED
  BY <1>3, <1>4 DEF Jmp, JmpIf, FaultWith

-----------------------------------------------------------------------------
(* Calls and returns. *)

(* The callee's frame: the arguments are its first locals, and the rest read
   as unavailable. *)
LEMMA EntersHeld ==
  ASSUME DeviceInv, ValuesInv, status = "running", UNCHANGED verifyVars, Call, ~OverCap
  PROVE  ValuesInv'
<1>. DEFINE stack  == shapes[current][pc]
            callee == Fn(container, Arg)
            locals == LocalsOf(Arg)
            params == callee.param_count
            F      == [return_pc |-> pc + 2, base |-> base, function |-> current]
            N      == Len(frames)
            K      == Len(stack)
            L      == Len(locals)
<1>1. /\ Name = "call" /\ InBounds
      /\ frames' = Append(frames, F)
      /\ base' = sp - params /\ sp' = base' + L /\ current' = Arg
      /\ values' = Cleared(values, sp, base' + L, 0)
      /\ states' = Cleared(states, sp, base' + L, UNAVAILABLE)
      /\ pc' = callee.code_offset
      /\ status' = status
      /\ UNCHANGED <<container, shapes>>
  BY DEF Call, On, Callee, LocalsOf, verifyVars
<1>2. /\ current \in Functions(container) /\ base \in Nat
      /\ pc \in DOMAIN shapes[current] /\ verdict = "accepted" /\ pc \in Nat
      /\ LocalsOf(current) \in Seq(ValueType) /\ stack \in Seq(ValueType)
      /\ Len(LocalsOf(current)) \in Nat /\ K \in Nat
      /\ Len(HeldTypes) = Len(LocalsOf(current)) + K
      /\ sp = base + Len(HeldTypes) /\ sp <= MaxSlots /\ MaxSlots \in Nat
  BY RunningFrame, RunningTypes, VmAssumption DEF ValuesInv
<1>3. Arg \in Functions(container)
  BY <1>1, LookedUp
<1>4. /\ locals \in Seq(ValueType) /\ L \in Nat /\ params \in 0..L
      /\ Len(ParamTypes(callee)) = params
  BY <1>3, FunctionLocals DEF DeviceInv, LocalsOf
<1>5. Takes(container, current, pc, stack) = ParamTypes(callee)
  BY <1>1 DEF Takes, Name, Arg, Predicate
<1>6. params \in 0..K
  <2>1. Len(Takes(container, current, pc, stack)) \in 0..K
    BY <1>2, TypedInstruction DEF DeviceInv
  <2>. QED
    BY <1>4, <1>5, <2>1
<1>7. \A k \in 1..params : stack[K - params + k] = locals[k]
  <2>1. \A k \in 1..params : stack[K - params + k] = ParamTypes(callee)[k]
    BY <1>4, <1>5, LookedUp DEF TypedAs
  <2>2. \A k \in 1..params : ParamTypes(callee)[k] = locals[k]
    BY <1>4, Prefix DEF ParamTypes, LocalsOf
  <2>. QED
    BY <2>1, <2>2
<1>8. Arg < index
  BY <1>2, <1>3, LenProperties
  DEF DeviceInv, AcceptedInv, VerifyInv, VerifyTypeOK, Decoded, DecodedContainer, Functions
<1>9. /\ pc' \in DOMAIN shapes[Arg] /\ Len(shapes[Arg][pc']) = 0
      /\ shapes[Arg][pc'] \in Seq(ValueType)
  <2>1. Certificate(container, Arg, shapes[Arg])
    BY <1>3, <1>8 DEF DeviceInv, VerifyInv, WalkIsSound
  <2>2. pc' \in DOMAIN shapes[Arg] /\ Len(shapes[Arg][pc']) = 0
    BY <1>1, <2>1 DEF Certificate, Start
  <2>. QED
    BY <1>3, <1>8, <2>2 DEF DeviceInv, AcceptedInv
<1>10. HeldTypes' = locals \o shapes[Arg][pc']
  BY <1>1 DEF HeldTypes, LocalsOf
<1>11. Len(HeldTypes') = L /\ \A k \in 1..L : HeldTypes'[k] = locals[k]
  BY <1>4, <1>9, <1>10, ConcatProperties
<1>. HIDE DEF K, L, params, locals, stack
<1>0. /\ base' = sp - params /\ sp' = base' + L /\ sp = base + Len(HeldTypes)
      /\ base \in Nat /\ sp \in Nat /\ L \in Nat /\ params \in 0..L /\ params \in 0..K
      /\ K \in Nat /\ MaxSlots \in Nat
  BY <1>1, <1>2, <1>4, <1>6
<1>12. /\ base' \in Nat /\ base' >= base /\ base' <= sp /\ sp' \in Nat
       /\ base' + L = sp'
  BY <1>1, <1>2, <1>4, <1>6, SMTT(20)
<1>13. sp' <= MaxSlots
  <2>1. CASE L = params
    BY <1>1, <1>2, <1>4, <2>1
  <2>2. CASE L # params
    <3>1. Touched = sp..sp + L - params - 1
      BY <1>1 DEF Touched, Polymorphic, Predicate, ConstState, Callee, L, locals, LocalsOf, params
    <3>2. sp + L - params - 1 \in sp..sp + L - params - 1
      BY <1>2, <1>4, <2>2
    <3>3. sp + L - params - 1 \in 0..MaxSlots - 1
      BY <1>1, <3>1, <3>2 DEF InBounds, Slot
    <3>. QED
      BY <1>1, <1>2, <1>4, <3>3
  <2>. QED
    BY <2>1, <2>2
<1>14. values \in [Slot -> Int] /\ states \in [Slot -> Int]
  BY DEF ValuesInv, SlotsTyped
<1>15. SlotsTyped'
  BY <1>1, <1>14 DEF SlotsTyped, Cleared, UNAVAILABLE
<1>16. ASSUME NEW x \in 0..sp - 1
       PROVE  values'[x] = values[x] /\ states'[x] = states[x]
  <2>1. PICK top : top = base' + L
    OBVIOUS
  <2>2. x \in Slot /\ x \notin sp..top - 1
    BY <1>2, VmAssumption DEF Slot
  <2>3. /\ values' = [n \in Slot |-> IF n \in sp..top - 1 THEN 0 ELSE values[n]]
        /\ states' = [n \in Slot |-> IF n \in sp..top - 1 THEN UNAVAILABLE ELSE states[n]]
    BY <1>1, <2>1 DEF Cleared
  <2>. QED
    BY <2>2, <2>3
<1>17. ASSUME NEW x \in sp..sp' - 1
       PROVE  values'[x] = 0 /\ states'[x] = UNAVAILABLE
  <2>1. PICK top : top = base' + L /\ top = sp' /\ top \in Nat /\ top <= MaxSlots
    BY <1>12, <1>13
  <2>2. x \in sp..top - 1
    BY <2>1
  <2>3. x \in Slot /\ x \in sp..top - 1
    <3>1. x >= 0 /\ x \in Int /\ x <= MaxSlots - 1
      BY <1>0, <2>1, <2>2
    <3>. QED
      BY <1>0, <2>2, <3>1 DEF Slot
  <2>4. /\ values' = [n \in Slot |-> IF n \in sp..top - 1 THEN 0 ELSE values[n]]
        /\ states' = [n \in Slot |-> IF n \in sp..top - 1 THEN UNAVAILABLE ELSE states[n]]
    BY <1>1, <2>1 DEF Cleared
  <2>. QED
    BY <2>3, <2>4
<1>18. HoldsIn(values, states, base, HeldTypes)' 
  <2>. SUFFICES ASSUME NEW k \in 1..L
                PROVE  /\ Canonical(locals[k], values'[base' + k - 1])
                       /\ states'[base' + k - 1] \in Validity
    BY <1>11 DEF HoldsIn
  <2>1. CASE k <= params
    <3>1. PICK j : j = params - k + 1
      OBVIOUS
    <3>2. /\ j \in 1..K /\ k \in 1..params /\ K - j + 1 = K - params + k
          /\ base' + k - 1 = sp - j /\ sp - j \in 0..sp - 1
      BY <1>0, <1>12, <2>1, <3>1
    <3>3. Canonical(stack[K - j + 1], values[sp - j]) /\ states[sp - j] \in Validity
      BY <3>2, OperandsHold DEF K, stack
    <3>. QED
      BY <1>7, <1>16, <3>2, <3>3
  <2>2. CASE ~(k <= params)
    <3>1. base' + k - 1 \in sp..sp' - 1
      BY <1>0, <2>2
    <3>2. UNAVAILABLE \in Validity /\ Canonical(locals[k], 0)
      BY ZeroIsCanonical DEF Validity, VALID, UNAVAILABLE, INVALID
    <3>. QED
      BY <1>17, <3>1, <3>2
  <2>. QED
    BY <2>1, <2>2
<1>19. /\ F \in Caller /\ N \in Nat /\ frames \in Seq(Caller)
       /\ Len(frames') = N + 1 /\ frames'[N + 1] = F
       /\ \A n \in 1..N : frames'[n] = frames[n]
  <2>1. F \in Caller /\ frames \in Seq(Caller)
    BY <1>2 DEF Caller, DeviceInv, CallersShape
  <2>. QED
    BY <1>1, <2>1, AppendProperties, LenProperties
<1>20. \A f : Kept(f)' = Kept(f) /\ EndOf(f)' = EndOf(f)
  BY <1>1 DEF Kept, EndOf, LocalsOf
<1>21. /\ Kept(F) = LocalsOf(current) \o Rest(stack, params)
       /\ EndOf(F) = base' /\ Len(Kept(F)) \in Nat
  <2>1. F.return_pc - 2 = pc /\ F.function = current /\ F.base = base
    BY <1>2
  <2>2. Waits(F, Arg, base')
    <3>1. FrameSize(current, pc) = Len(HeldTypes)
      BY <1>2 DEF FrameSize, LocalsOf, K, stack
    <3>2. base' = base + FrameSize(current, pc) - params
      BY <1>0, <3>1
    <3>. QED
      BY <1>1, <1>2, <2>1, <3>2 DEF Waits, Name, Arg, params
  <2>3. EndOf(F) = base' /\ Len(Kept(F)) \in Nat
    BY <1>2, <1>3, <1>19, <2>2, WaitingFrame
  <2>4. Kept(F) = LocalsOf(current) \o Rest(stack, params)
    BY <2>1 DEF Kept, Arg, params, stack
  <2>. QED
    BY <2>3, <2>4
<1>22. Undisturbed(values', states', F, base')
  <2>1. PICK e : e = <<>>
    OBVIOUS
  <2>2. PICK m : m = Len(LocalsOf(current)) + K - params
    OBVIOUS
  <2>3. Atop(Kept(F), HeldTypes, m, e)
    BY <1>2, <1>6, <1>21, <2>1, <2>2, Dropped DEF HeldTypes, K, stack
  <2>4. m \in Nat /\ m <= Len(HeldTypes) /\ Len(HeldTypes) \in Nat /\ Len(e) = 0
    BY <1>2, <1>6, <2>1, <2>2
  <2>5. ASSUME NEW k \in 1..m
        PROVE  /\ Canonical(HeldTypes[k], values'[base + k - 1])
               /\ states'[base + k - 1] \in Validity
    <3>1. k \in 1..Len(HeldTypes) /\ base + k - 1 \in 0..sp - 1
      BY <1>2, <2>4
    <3>2. Canonical(HeldTypes[k], values[base + k - 1]) /\ states[base + k - 1] \in Validity
      BY <3>1 DEF ValuesInv, HoldsIn
    <3>. QED
      BY <1>16, <3>1, <3>2
  <2>6. HoldsIn(values', states', base, Kept(F))
    <3>1. \A j \in 1..Len(e) : /\ Canonical(e[j], values'[base + m + j - 1])
                               /\ states'[base + m + j - 1] \in Validity
      BY <2>4
    <3>2. Len(e) \in Nat
      BY <2>4
    <3>. HIDE DEF F
    <3>. QED
      BY <1>2, <2>3, <2>4, <2>5, <3>1, <3>2, HoldsAtop
  <2>7. F.base = base /\ EndOf(F) <= base'
    BY <1>12, <1>21
  <2>. QED
    BY <2>6, <2>7 DEF Undisturbed
<1>23. ASSUME NEW n \in 1..N
       PROVE  /\ Undisturbed(values', states', frames[n], base')
              /\ EndOf(frames[n]) <= base
              /\ \A m \in n + 1..N : EndOf(frames[n]) <= frames[m].base
  <2>1. /\ Undisturbed(values, states, frames[n], base)
        /\ \A m \in n + 1..N : EndOf(frames[n]) <= frames[m].base
    BY DEF ValuesInv, CallersHold
  <2>2. frames[n].base \in Nat /\ Len(Kept(frames[n])) \in Nat /\ EndOf(frames[n]) \in Nat
    BY SuspendedFrames
  <2>3. \A x \in 0..base - 1 : values'[x] = values[x] /\ states'[x] = states[x]
    <3>1. \A x \in 0..base - 1 : x \in 0..sp - 1
      BY <1>2
    <3>. QED
      BY <1>16, <3>1
  <2>4. Undisturbed(values', states', frames[n], base)
    <3>1. base \in Int
      BY <1>2
    <3>. QED
      BY <2>1, <2>2, <2>3, <3>1, StaysUndisturbed
  <2>5. EndOf(frames[n]) <= base
    BY <2>1 DEF Undisturbed
  <2>6. EndOf(frames[n]) <= base'
    BY <1>2, <1>12, <2>2, <2>5
  <2>. QED
    BY <2>1, <2>4, <2>5, <2>6 DEF Undisturbed
<1>24. CallersHold'
  <2>. HIDE DEF F, N
  <2>1. ASSUME NEW n \in 1..N + 1
        PROVE  Undisturbed(values', states', frames'[n], base')
    BY <1>19, <1>22, <1>23
  <2>2. ASSUME NEW n \in 1..N + 1, NEW m \in n + 1..N + 1
        PROVE  EndOf(frames'[n]) <= frames'[m].base
    <3>1. n \in 1..N
      BY <1>19
    <3>2. CASE m = N + 1
      BY <1>19, <1>23, <3>1, <3>2 DEF F
    <3>3. CASE m # N + 1
      <4>1. m \in n + 1..N /\ m \in 1..N
        BY <1>19, <3>3
      <4>. QED
        BY <1>19, <1>23, <3>1, <4>1
    <3>. QED
      BY <3>2, <3>3
  <2>3. Len(frames)' = N + 1
    BY <1>19
  <2>4. \A n \in (1..Len(frames))' : Undisturbed(values, states, frames[n], base)'
    BY <1>20, <2>1, <2>3 DEF Undisturbed
  <2>5. \A n \in (1..Len(frames))' : \A m \in (n + 1..Len(frames))' :
          (EndOf(frames[n]) <= frames[m].base)'
    BY <1>20, <2>2, <2>3 DEF EndOf, Kept, LocalsOf
  <2>. QED
    BY <2>4, <2>5 DEF CallersHold
<1>. QED
  BY <1>13, <1>15, <1>18, <1>24 DEF ValuesInv

(* The caller's frame comes back as the typing of its call left it, with the
   result where the arguments began. *)
LEMMA ReturnsHeld ==
  ASSUME DeviceInv, ValuesInv, status = "running", UNCHANGED verifyVars, ReturnToCaller
  PROVE  ValuesInv'
<1>. DEFINE N      == Len(frames)
            f      == frames[N]
            i      == f.function
            p      == f.return_pc - 2
            stack  == shapes[i][p]
            params == Fn(container, current).param_count
            type   == Fn(container, current).return_type
            locals == LocalsOf(i)
            gives  == Gives(container, i, p, stack)
            m      == Len(Kept(f))
<1>1. /\ Name \in Return /\ InBounds /\ frames # <<>> /\ frames' = Front(frames)
      /\ base' = f.base /\ pc' = f.return_pc /\ current' = f.function
      /\ status' = status /\ UNCHANGED <<container, shapes>>
  BY DEF ReturnToCaller, On, Last, verifyVars
<1>2. /\ current \in Functions(container) /\ base \in Nat
      /\ pc \in DOMAIN shapes[current] /\ verdict = "accepted"
      /\ sp = base + Len(HeldTypes) /\ sp <= MaxSlots /\ MaxSlots \in Nat
      /\ Len(HeldTypes) \in Nat /\ frames \in Seq(Caller)
      /\ Len(HeldTypes) = Len(LocalsOf(current)) + Len(shapes[current][pc])
      /\ Len(LocalsOf(current)) \in Nat /\ Len(shapes[current][pc]) \in Nat
  BY RunningFrame, VmAssumption DEF ValuesInv, DeviceInv, CallersShape
<1>3. /\ N \in Nat \ {0} /\ N \in 1..N /\ f \in Caller
      /\ Len(frames') = N - 1
      /\ \A n \in 1..N - 1 : frames'[n] = frames[n]
  <2>1. frames \in Seq(Caller) /\ frames # <<>> /\ frames' = Front(frames)
    BY <1>1, <1>2
  <2>. QED
    BY ONLY <2>1, FrontLast
<1>4. /\ i \in Functions(container) /\ f.return_pc \in Int /\ f.base \in Nat
  BY <1>3 DEF Caller
<1>5. Waits(f, current, base)
  BY <1>1 DEF DeviceInv, CallersShape
<1>6. /\ EndOf(f) = base /\ m \in Nat /\ p \in DOMAIN shapes[i]
      /\ Kept(f) \in Seq(ValueType)
      /\ NameAt(container, p) = "call" /\ OperandAt(container, p) = current
      /\ Takes(container, i, p, stack) = ParamTypes(Fn(container, current))
  BY <1>2, <1>3, <1>5, WaitingFrame
<1>7. base = f.base + m
  BY <1>6 DEF EndOf
<1>8. /\ stack \in Seq(ValueType) /\ params \in 0..Len(stack)
      /\ locals \in Seq(ValueType)
      /\ Len(Takes(container, i, p, stack)) = params
  <2>1. Len(ParamTypes(Fn(container, current))) = params
    BY <1>2, FunctionLocals DEF DeviceInv
  <2>2. stack \in Seq(ValueType) /\ Len(Takes(container, i, p, stack)) \in 0..Len(stack)
    BY <1>2, <1>4, <1>6, TypedInstruction DEF DeviceInv
  <2>3. locals \in Seq(ValueType)
    BY <1>4, FunctionLocals DEF DeviceInv, LocalsOf
  <2>. QED
    BY <1>6, <2>1, <2>2, <2>3
<1>9. /\ gives \in Seq(ValueType) /\ Len(gives) \in Nat
      /\ shapes[i][pc'] = Rest(stack, params) \o gives
  <2>1. f.return_pc \in Successors(container, p)
    <3>1. After(container, p) = f.return_pc
      BY <1>4, <1>6 DEF After, Size, Branch, Indexed, Pool
    <3>. QED
      BY <1>6, <3>1 DEF Successors, Return
  <2>2. TypedAs(i, p, Takes(container, i, p, stack), gives)
    BY <1>2, <1>4, <1>6, TypedEffect DEF DeviceInv
  <2>3. gives \in Seq(ValueType) /\ shapes[i][f.return_pc] = Rest(stack, params) \o gives
    BY <1>8, <2>1, <2>2 DEF TypedAs
  <2>. QED
    BY <1>1, <2>3, LenProperties
<1>10. Kept(f) = locals \o Rest(stack, params)
  BY <1>6 DEF Kept
<1>11. HeldTypes' = locals \o (Rest(stack, params) \o gives)
  BY <1>1, <1>9 DEF HeldTypes, LocalsOf
<1>. HIDE DEF stack, locals, params, gives, m
<1>12. Atop(HeldTypes', Kept(f), m, gives)
  <2>1. PICK e : e = <<>>
    OBVIOUS
  <2>2. PICK k : k = Len(locals) + Len(stack) - params
    OBVIOUS
  <2>3. /\ Atop(HeldTypes', locals \o stack, k, gives)
        /\ Atop(Kept(f), locals \o stack, k, e)
    BY <1>8, <1>9, <1>10, <1>11, <2>1, <2>2, Regrown, Dropped
  <2>4. k = m
    <3>1. k \in Int /\ Len(e) = 0
      BY <1>8, <2>1, <2>2, LenProperties
    <3>2. m = k + Len(e)
      BY <2>3 DEF Atop, m
    <3>. QED
      BY <3>1, <3>2
  <2>5. \A j \in 1..m : HeldTypes'[j] = Kept(f)[j]
    BY <2>3, <2>4 DEF Atop
  <2>. QED
    BY <2>3, <2>4, <2>5 DEF Atop
<1>. DEFINE written ==
              /\ SlotsTyped' /\ sp' <= MaxSlots
              /\ \A x \in 0..base - 1 : values'[x] = values[x] /\ states'[x] = states[x]
              /\ \A j \in 1..Len(gives) :
                   /\ Canonical(gives[j], values'[f.base + m + j - 1])
                   /\ states'[f.base + m + j - 1] \in Validity
<1>13. ASSUME Name = "ret_v" PROVE written
  <2>1. /\ values' = [values EXCEPT ![base] = Operand1]
        /\ states' = [states EXCEPT ![base] = State1]
        /\ sp' = base + 1
    BY <1>13 DEF ReturnToCaller
  <2>2. base \in Slot
    <3>1. base \in Touched
      BY <1>1, <1>13 DEF Touched, Polymorphic, Predicate, ConstState
    <3>. QED
      BY <1>1, <3>1 DEF InBounds
  <2>3. type # VOID
    <3>1. StepRefusal(container, current, pc, shapes[current][pc]) = "none"
      BY RunningTypes
    <3>2. NameAt(container, pc) \in Return /\ NameAt(container, pc) # "ret"
      BY <1>13 DEF Name, Return
    <3>. QED
      BY <3>1, <3>2, ReturnMatches
  <2>4. gives = <<type>>
    BY <1>6, <2>3 DEF Gives, Predicate, ConstState, gives
  <2>5. Operand1 \in Int /\ State1 \in Validity /\ Canonical(type, Operand1)
    <3>. DEFINE top == shapes[current][pc]
                takes == Takes(container, current, pc, top)
    <3>1. takes = <<type>>
      BY <1>13 DEF Takes, Name, Predicate, ConstState
    <3>2. Len(takes) = 1 /\ takes[1] = type
      BY <3>1
    <3>3. Len(top) \in Nat /\ 1 \in 1..Len(top)
      <4>1. Len(takes) \in 0..Len(top) /\ Len(top) \in Nat
        BY <1>2, TypedInstruction DEF DeviceInv
      <4>. QED
        BY <3>2, <4>1
    <3>4. top[Len(top) - 1 + 1] = type
      BY <3>2, LookedUp DEF TypedAs
    <3>. QED
      BY <3>3, <3>4, OperandsHold DEF Operand1, State1
  <2>6. values \in [Slot -> Int] /\ states \in [Slot -> Int] /\ State1 \in Int
    BY <2>5 DEF ValuesInv, SlotsTyped, Validity, VALID, INVALID
  <2>7. SlotsTyped' /\ values'[base] = Operand1 /\ states'[base] = State1
    BY <2>1, <2>2, <2>5, <2>6 DEF SlotsTyped
  <2>8. sp' <= MaxSlots
    BY <1>2, <2>1, <2>2 DEF Slot
  <2>9. ASSUME NEW x \in 0..base - 1 PROVE values'[x] = values[x] /\ states'[x] = states[x]
    <3>1. x # base /\ x \in Slot
      BY <1>2, <2>2 DEF Slot
    <3>. QED
      BY <2>1, <2>6, <3>1
  <2>10. ASSUME NEW j \in 1..Len(gives)
         PROVE  /\ Canonical(gives[j], values'[f.base + m + j - 1])
                /\ states'[f.base + m + j - 1] \in Validity
    <3>1. j = 1 /\ gives[j] = type
      BY <2>4
    <3>2. f.base + m + j - 1 = base
      BY <1>2, <1>7, <3>1
    <3>. QED
      BY <2>5, <2>7, <3>1, <3>2
  <2>. QED
    BY <2>7, <2>8, <2>9, <2>10
<1>14. ASSUME Name # "ret_v" PROVE written
  <2>1. sp' = base /\ UNCHANGED slots
    BY <1>14 DEF ReturnToCaller
  <2>2. type = VOID
    <3>1. StepRefusal(container, current, pc, shapes[current][pc]) = "none"
      BY RunningTypes
    <3>2. NameAt(container, pc) \in Return /\ NameAt(container, pc) = "ret"
      BY <1>1, <1>14 DEF Name, Return
    <3>. QED
      BY <3>1, <3>2, ReturnMatches
  <2>3. Len(gives) = 0
    BY <1>6, <2>2 DEF Gives, Predicate, ConstState, gives
  <2>4. SlotsTyped' /\ sp' <= MaxSlots
    BY <1>2, <2>1 DEF ValuesInv, SlotsTyped, slots
  <2>5. \A x \in 0..base - 1 : values'[x] = values[x] /\ states'[x] = states[x]
    BY <2>1 DEF slots
  <2>6. \A j \in 1..Len(gives) : /\ Canonical(gives[j], values'[f.base + m + j - 1])
                                 /\ states'[f.base + m + j - 1] \in Validity
    BY <2>3
  <2>. QED
    BY <2>4, <2>5, <2>6
<1>15. written
  BY <1>13, <1>14
<1>16. /\ Undisturbed(values, states, f, base)
       /\ \A n \in 1..N - 1 : /\ Undisturbed(values, states, frames[n], base)
                              /\ EndOf(frames[n]) <= f.base
  <2>1. \A n \in 1..N - 1 : n \in 1..N /\ N \in n + 1..N
    BY <1>3
  <2>. HIDE DEF N
  <2>. QED
    BY <1>3, <2>1 DEF ValuesInv, CallersHold, N
<1>17. HoldsIn(values, states, base, HeldTypes)'
  <2>1. ASSUME NEW k \in 1..m
        PROVE  /\ Canonical(Kept(f)[k], values'[f.base + k - 1])
               /\ states'[f.base + k - 1] \in Validity
    <3>1. f.base + k - 1 \in 0..base - 1
      <4>1. PICK low, size : low = f.base /\ size = m /\ low \in Nat /\ size \in Nat
        BY <1>4, <1>6
      <4>2. base = low + size /\ k \in 1..size
        BY <1>7, <2>1, <4>1
      <4>3. low + k - 1 \in 0..base - 1
        BY ONLY <4>1, <4>2
      <4>. QED
        BY <4>1, <4>3
    <3>2. Canonical(Kept(f)[k], values[f.base + k - 1]) /\ states[f.base + k - 1] \in Validity
      BY <1>16 DEF Undisturbed, HoldsIn, m
    <3>. QED
      BY <1>15, <3>1, <3>2
  <2>2. PICK t : t = HeldTypes'
    OBVIOUS
  <2>3. m <= Len(Kept(f)) /\ Len(Kept(f)) \in Nat
    BY <1>6 DEF m
  <2>4. Atop(t, Kept(f), m, gives)
    BY <1>12, <2>2
  <2>. HIDE DEF f
  <2>5. HoldsIn(values', states', f.base, t)
    BY <1>4, <1>6, <1>9, <1>15, <2>1, <2>3, <2>4, HoldsAtop
  <2>. QED
    BY <1>1, <2>2, <2>5 DEF HoldsIn
<1>18. CallersHold'
  <2>1. ASSUME NEW n \in 1..N - 1
        PROVE  Undisturbed(values', states', frames[n], f.base)
    <3>1. n \in 1..N
      BY <1>3
    <3>2. frames[n].base \in Nat /\ Len(Kept(frames[n])) \in Nat
      BY <3>1, SuspendedFrames
    <3>3. f.base \in Int /\ \A x \in 0..f.base - 1 : x \in 0..base - 1
      BY <1>4, <1>6, <1>7
    <3>4. Undisturbed(values, states, frames[n], f.base)
      BY <1>16 DEF Undisturbed
    <3>5. \A x \in 0..f.base - 1 : values'[x] = values[x] /\ states'[x] = states[x]
      BY <1>15, <3>3
    <3>. QED
      <4>. HIDE DEF f
      <4>. QED
        BY <3>2, <3>3, <3>4, <3>5, StaysUndisturbed
  <2>2. ASSUME NEW n \in 1..N - 1, NEW k \in n + 1..N - 1
        PROVE  EndOf(frames[n]) <= frames[k].base
    <3>1. n \in 1..N /\ k \in n + 1..N
      BY <1>3
    <3>. QED
      BY <3>1 DEF ValuesInv, CallersHold
  <2>3. /\ Len(frames)' = N - 1
        /\ \A n \in 1..N - 1 : frames'[n] = frames[n]
        /\ \A n \in 1..N - 1 : \A k \in n + 1..N - 1 : k \in 1..N - 1
    BY <1>3
  <2>4. \A g : Kept(g)' = Kept(g) /\ EndOf(g)' = EndOf(g)
    BY <1>1 DEF Kept, EndOf, LocalsOf
  <2>. HIDE DEF N, f
  <2>5. \A n \in (1..Len(frames))' : Undisturbed(values, states, frames[n], base)'
    BY <1>1, <2>1, <2>3, <2>4 DEF Undisturbed
  <2>6. \A n \in (1..Len(frames))' : \A k \in (n + 1..Len(frames))' :
          (EndOf(frames[n]) <= frames[k].base)'
    BY <1>1, <2>2, <2>3 DEF EndOf, Kept, LocalsOf
  <2>. QED
    BY <2>5, <2>6 DEF CallersHold
<1>. QED
  BY <1>15, <1>17, <1>18 DEF ValuesInv

-----------------------------------------------------------------------------
(* The invariant is kept. *)

LEMMA ValuesInit == DeviceInit => ValuesInv
<1>1. M64 - 1 \in Int /\ 255 \in Int
  BY WordAssumption
<1>. QED
  BY <1>1 DEF DeviceInit, VmInit, ValuesInv, SlotsTyped, Leftover

LEMMA InvokeHeld ==
  ASSUME DeviceInv, ValuesInv, NEW entry \in Functions(container), Invoke(entry),
         UNCHANGED verifyVars
  PROVE  ValuesInv'
<1>. DEFINE locals == LocalsOf(entry)
            count  == Len(locals)
            stack  == shapes[entry][pc']
<1>1. CASE status' = "stray" /\ UNCHANGED slots
  BY <1>1 DEF ValuesInv, SlotsTyped, slots
<1>2. CASE /\ count <= MaxSlots
           /\ current' = entry /\ base' = 0 /\ sp' = count
           /\ pc' = Fn(container, entry).code_offset
           /\ values' = Cleared(values, 0, count, 0)
           /\ states' = Cleared(states, 0, count, UNAVAILABLE)
           /\ UNCHANGED frames
  <2>1. /\ verdict = "accepted" /\ frames = <<>> /\ UNCHANGED <<container, shapes>>
    BY DEF DeviceInv, Invoke, verifyVars
  <2>2. locals \in Seq(ValueType) /\ count \in Nat
    BY FunctionLocals DEF DeviceInv, LocalsOf
  <2>3. entry < index
    BY <2>1, LenProperties
    DEF DeviceInv, AcceptedInv, VerifyInv, VerifyTypeOK, Decoded, DecodedContainer, Functions
  <2>4. pc' \in DOMAIN shapes[entry] /\ Len(stack) = 0 /\ stack \in Seq(ValueType)
    <3>1. Certificate(container, entry, shapes[entry])
      BY <2>3 DEF DeviceInv, VerifyInv, WalkIsSound
    <3>2. pc' \in DOMAIN shapes[entry] /\ Len(stack) = 0
      BY <1>2, <3>1 DEF Certificate, Start
    <3>. QED
      BY <2>3, <3>2 DEF DeviceInv, AcceptedInv
  <2>5. HeldTypes' = locals \o stack
    BY <1>2, <2>1 DEF HeldTypes, LocalsOf
  <2>6. Len(HeldTypes') = count
    BY <2>2, <2>4, <2>5, ConcatProperties
  <2>. HIDE DEF locals, stack
  <2>7. values \in [Slot -> Int] /\ states \in [Slot -> Int] /\ MaxSlots \in Nat
    BY VmAssumption DEF ValuesInv, SlotsTyped
  <2>8. SlotsTyped'
    BY <1>2, <2>7 DEF SlotsTyped, Cleared, UNAVAILABLE
  <2>9. HoldsIn(values, states, base, HeldTypes)'
    <3>. SUFFICES ASSUME NEW k \in 1..count
                  PROVE  /\ Canonical(HeldTypes'[k], values'[0 + k - 1])
                         /\ states'[0 + k - 1] \in Validity
      BY <1>2, <2>6 DEF HoldsIn
    <3>1. 0 + k - 1 \in Slot /\ 0 + k - 1 \in 0..count - 1
      BY <1>2, <2>2, <2>7 DEF Slot
    <3>2. values'[0 + k - 1] = 0 /\ states'[0 + k - 1] = UNAVAILABLE
      BY <1>2, <3>1 DEF Cleared
    <3>3. UNAVAILABLE \in Validity /\ Canonical(HeldTypes'[k], 0)
      BY ZeroIsCanonical DEF Validity, VALID, UNAVAILABLE, INVALID
    <3>. QED
      BY <3>2, <3>3
  <2>10. CallersHold'
    <3>1. frames' = <<>>
      BY <1>2, <2>1
    <3>. QED
      BY <3>1 DEF CallersHold
  <2>. QED
    BY <1>2, <2>8, <2>9, <2>10 DEF ValuesInv
<1>3. count \in Nat
  BY FunctionLocals DEF DeviceInv, LocalsOf
<1>. QED
  BY <1>1, <1>2, <1>3, VmAssumption DEF Invoke, LocalsOf

LEMMA StepHeld ==
  ASSUME DeviceInv, ValuesInv, Step, UNCHANGED verifyVars
  PROVE  ValuesInv'
<1>1. status = "running"
  BY StepRuns
<1>2. CASE Constants
  BY <1>1, <1>2, ConstantsHeld
<1>3. CASE LoadL \/ StoreL \/ Drop \/ Dup \/ LoadH \/ StoreH
  BY <1>1, <1>3, MovementHeld
<1>4. CASE CallH
  BY <1>1, <1>4, CallHHeld
<1>5. CASE \/ BinaryI32 \/ DivideI32 \/ OrderI32 \/ BitwiseI32 \/ ShiftI32 \/ AndOr
           \/ BinaryI64 \/ DivideI64 \/ OrderI64 \/ BinaryF32 \/ OrderF32
  BY <1>1, <1>5, BinaryHeld
<1>6. CASE \/ NegI32 \/ BitNotI32 \/ Not \/ NegI64 \/ ExtendI32I64 \/ WrapI64I32 \/ NegF32
           \/ ConvertToF32 \/ TruncToI32 \/ TruncToI64
  BY <1>1, <1>6, UnaryHeld
<1>7. CASE Else \/ IsState
  BY <1>1, <1>7, ElseHeld, IsStateHeld
<1>8. CASE LoopGuard \/ Jmp \/ JmpIf
  BY <1>1, <1>8, LoopGuardHeld, JumpsHeld
<1>9. CASE Call
  <2>1. CASE OverCap
    BY <1>9, <2>1, LeaveHeld DEF Call, FaultWith
  <2>2. CASE ~OverCap
    BY <1>1, <1>9, <2>2, EntersHeld
  <2>. QED
    BY <2>1, <2>2
<1>10. CASE ReturnToCaller
  BY <1>1, <1>10, ReturnsHeld
<1>11. CASE ReturnToHost \/ Default
  BY <1>11, LeaveHeld DEF ReturnToHost, Default
<1>12. CASE Stray
  BY <1>12 DEF Stray, ValuesInv, SlotsTyped, slots
<1>. QED
  BY <1>2, <1>3, <1>4, <1>5, <1>6, <1>7, <1>8, <1>9, <1>10, <1>11, <1>12
  DEF Step, Movement, Core32, Core64, Floating, Logic, Control

LEMMA ValuesNext ==
  ASSUME DeviceInv, ValuesInv, [DeviceNext]_deviceVars
  PROVE  ValuesInv'
<1>1. CASE Verifying
  <2>1. status # "running"
    BY <1>1, VerifyingPending DEF DeviceInv, Verifying
  <2>. QED
    BY <1>1, <2>1 DEF Verifying, vmVars, slots, ValuesInv, SlotsTyped
<1>2. CASE Running
  <2>1. UNCHANGED verifyVars
    BY <1>2 DEF Running
  <2>2. CASE Load
    BY <2>2 DEF Load, ValuesInv, SlotsTyped, slots
  <2>3. CASE \E entry \in Functions(container) : Invoke(entry)
    BY <2>1, <2>3, InvokeHeld
  <2>4. CASE InvokeUnknown
    BY <2>4 DEF InvokeUnknown, ValuesInv, SlotsTyped, slots
  <2>5. CASE Step
    BY <2>1, <2>5, StepHeld
  <2>. QED
    BY <1>2, <2>2, <2>3, <2>4, <2>5 DEF Running, VmNext
<1>3. CASE UNCHANGED deviceVars
  <2>1. UNCHANGED <<container, shapes, status, current, base, frames, pc, sp, values, states>>
    BY <1>3 DEF deviceVars, verifyVars, vmVars, frameVars, slots
  <2>2. HeldTypes' = HeldTypes
    BY <2>1 DEF HeldTypes, LocalsOf
  <2>3. CallersHold' <=> CallersHold
    BY <2>1 DEF CallersHold, Undisturbed, HoldsIn, EndOf, Kept, LocalsOf
  <2>. QED
    BY <2>1, <2>2, <2>3 DEF ValuesInv, SlotsTyped, HoldsIn
<1>. QED
  BY <1>1, <1>2, <1>3 DEF DeviceNext

LEMMA ValuesInvariant == DeviceSpec => [](DeviceInv /\ ValuesInv)
<1>1. DeviceInit => DeviceInv /\ ValuesInv
  BY DeviceInitInv, ValuesInit
<1>2. DeviceInv /\ ValuesInv /\ [DeviceNext]_deviceVars => DeviceInv' /\ ValuesInv'
  BY DeviceNextInv, ValuesNext
<1>. QED
  BY <1>1, <1>2, PTL DEF DeviceSpec

(* The running frame and every suspended one, in the order they lie. *)
LEMMA FramesHoldTypes ==
  ASSUME DeviceInv, ValuesInv
  PROVE  RunsAsTyped
<1>. SUFFICES ASSUME status = "running", NEW n \in DOMAIN Live
              PROVE  FrameInShape(n) /\ FrameHoldsTypes(n)
  BY DEF RunsAsTyped
<1>. DEFINE N == Len(frames)
<1>1. FrameInShape(n)
  BY ShapeOfFrames DEF StaysInShape
<1>2. /\ frames \in Seq(Caller) /\ base \in Nat /\ sp \in Int /\ sp <= MaxSlots
      /\ MaxSlots \in Nat /\ sp = base + Len(HeldTypes)
  BY RunningTypes, RunningFrame, VmAssumption DEF DeviceInv, CallersShape, ValuesInv
<1>3. /\ N \in Nat /\ DOMAIN Live = 1..N + 1 /\ Len(Live) = N + 1
      /\ Live[N + 1] = [fn |-> current, base |-> base, pc |-> pc]
      /\ \A m \in 1..N : Live[m] = [fn |-> frames[m].function, base |-> frames[m].base,
                                    pc |-> frames[m].return_pc - 2]
  BY <1>2, LiveFrames
<1>. HIDE DEF N
<1>4. CASE n = N + 1
  <2>. DEFINE locals == LocalsOf(current)
              stack  == shapes[current][pc]
  <2>1. Live[n].fn = current /\ Live[n].base = base /\ Live[n].pc = pc /\ n = Len(Live)
    BY <1>3, <1>4
  <2>2. TypesOf(n) = locals \o Rest(stack, 0)
    BY <2>1 DEF TypesOf, LocalsOf
  <2>3. /\ locals \in Seq(ValueType) /\ stack \in Seq(ValueType)
        /\ Len(locals) \in Nat /\ Len(stack) \in Nat
        /\ Len(HeldTypes) = Len(locals) + Len(stack)
    BY RunningFrame
  <2>4. Atop(TypesOf(n), HeldTypes, Len(locals) + Len(stack) - 0, <<>>)
    <3>1. 0 \in 0..Len(stack)
      BY <2>3
    <3>. QED
      BY <2>2, <2>3, <3>1, Dropped DEF HeldTypes
  <2>. HIDE DEF locals, stack
  <2>5. Len(TypesOf(n)) = Len(HeldTypes) /\ Len(HeldTypes) \in Nat
    <3>1. Len(TypesOf(n)) = Len(locals) + Len(stack) - 0 + Len(<<>>)
      BY <2>4 DEF Atop
    <3>2. Len(<<>>) = 0
      OBVIOUS
    <3>. QED
      BY <2>3, <3>1, <3>2
  <2>6. \A k \in 1..Len(HeldTypes) : TypesOf(n)[k] = HeldTypes[k]
    <3>1. Len(locals) + Len(stack) - 0 = Len(HeldTypes)
      BY <2>3
    <3>. QED
      BY <2>4, <3>1 DEF Atop
  <2>. QED
    BY <1>1, <1>2, <2>1, <2>5, <2>6 DEF FrameHoldsTypes, ValuesInv, HoldsIn
<1>5. CASE n \in 1..N
  <2>. DEFINE f == frames[n]
  <2>1. f \in Caller
    BY <1>2, <1>5, ElementOfSeq DEF N
  <2>2. /\ Live[n].fn = f.function /\ Live[n].base = f.base /\ Live[n].pc = f.return_pc - 2
        /\ n # Len(Live)
    <3>1. Live[n] = [fn |-> f.function, base |-> f.base, pc |-> f.return_pc - 2]
      BY <1>3, <1>5
    <3>2. n # N + 1
      BY <1>3, <1>5
    <3>. HIDE DEF f
    <3>. QED
      BY <1>3, <3>1, <3>2
  <2>3. OperandAt(container, f.return_pc - 2) = Live[n + 1].fn
    BY <1>1, <2>2 DEF FrameInShape
  <2>4. TypesOf(n) = Kept(f)
    BY <2>2, <2>3 DEF TypesOf, Kept, LocalsOf
  <2>5. /\ HoldsIn(values, states, f.base, Kept(f)) /\ EndOf(f) <= base /\ EndOf(f) \in Nat
    BY <1>5, SuspendedFrames DEF ValuesInv, CallersHold, Undisturbed, N
  <2>6. f.base + Len(Kept(f)) <= MaxSlots
    <3>1. PICK e : e = EndOf(f) /\ e <= base /\ e \in Nat
      BY <2>5
    <3>2. Len(HeldTypes) \in Nat
      BY RunningFrame
    <3>3. e <= MaxSlots
      BY <1>2, <3>1, <3>2
    <3>. QED
      BY <3>1, <3>3 DEF EndOf
  <2>. QED
    BY <1>1, <2>2, <2>4, <2>5, <2>6 DEF FrameHoldsTypes, HoldsIn
<1>. QED
  BY <1>3, <1>4, <1>5

(* vm.c keeps no types and checks none: while it runs a container verify.py
   accepted, every slot of every frame on the call stack holds a value of the
   type the walk gave it, in the encoding mcuscript_ops.h writes, and a state
   set in this invocation. *)
THEOREM ValuesStayTyped == DeviceSpec => []RunsAsTyped
<1>1. DeviceInv /\ ValuesInv => RunsAsTyped
  BY FramesHoldTypes
<1>. QED
  BY <1>1, ValuesInvariant, PTL

-----------------------------------------------------------------------------
(* What crosses to the host.  A word canonical for a type, read as that type,
   is a value of it: written back it is canonical again. *)
HostTyped(type, v) ==
  /\ v.validity \in Validity
  /\ Canonical(type, ValueToSlot(type, v))
  /\ type = BOOL => v.as \in {0, 1}

LEMMA CrossesTyped ==
  ASSUME NEW type \in ValueType, NEW raw \in Int, NEW state \in Validity
  PROVE  HostTyped(type, SlotToValue(type, raw, state))
<1>1. type \in {I32, I64, F32, BOOL}
  BY DEF ValueType, I32, I64, F32, BOOL
<1>2. SlotToValue(type, raw, state).validity = state
  BY DEF SlotToValue
<1>3. PICK v : v = SlotToValue(type, raw, state)
  OBVIOUS
<1>4. CASE type = I32
  <2>1. v.as = AsI32(raw) /\ v.as \in Int
    BY <1>3, <1>4, OperandsRead DEF SlotToValue, I32, BOOL, F32
  <2>2. ValueToSlot(type, v) = FromI32(v.as)
    BY <1>4 DEF ValueToSlot, I32, BOOL, F32
  <2>. QED
    BY <1>2, <1>3, <1>4, <2>1, <2>2, Words DEF HostTyped, I32, BOOL
<1>5. CASE type = BOOL
  <2>1. v.as = FromBool(raw # 0)
    BY <1>3, <1>5 DEF SlotToValue, I32, BOOL, F32
  <2>2. ValueToSlot(type, v) = FromBool(v.as # 0)
    BY <1>5 DEF ValueToSlot, I32, BOOL, F32
  <2>. QED
    BY <1>2, <1>3, <1>5, <2>1, <2>2, Words, BoolWord DEF HostTyped
<1>6. CASE type = F32
  <2>1. v.as = AsF32(raw) /\ v.as \in Int
    BY <1>3, <1>6, Words DEF SlotToValue, I32, BOOL, F32
  <2>2. ValueToSlot(type, v) = AsF32(v.as)
    BY <1>6 DEF ValueToSlot, I32, BOOL, F32
  <2>. QED
    BY <1>2, <1>3, <1>6, <2>1, <2>2, Words DEF HostTyped, F32, BOOL
<1>7. CASE type = I64
  <2>1. v.as = AsI64(raw) /\ v.as \in Int
    BY <1>3, <1>7, OperandsRead DEF SlotToValue, I32, I64, BOOL, F32
  <2>2. ValueToSlot(type, v) = FromI64(v.as)
    BY <1>7 DEF ValueToSlot, I32, I64, BOOL, F32
  <2>. QED
    BY <1>2, <1>3, <1>7, <2>1, <2>2, Words DEF HostTyped, I64, BOOL
<1>. QED
  BY <1>1, <1>4, <1>5, <1>6, <1>7

(* What HostAccessHonoured says of one request. *)
Grants(imp, kind, given) ==
  CASE kind = "read"  -> imp.kind = "entity" /\ imp.readable
    [] kind = "write" -> imp.kind = "entity" /\ imp.writable /\ HostTyped(imp.type, given)
    [] kind = "call"  -> /\ imp.kind = "function"
                         /\ Len(given) = Len(imp.param_types)
                         /\ \A p \in DOMAIN given : HostTyped(imp.param_types[p], given[p])

LEMMA HonouredAsGranted ==
  HostAccessHonoured <=>
    (asked # <<>> => Grants(At(container.imports, asked[2]), asked[1], asked[3]))
BY DEF HostAccessHonoured, Grants, HostTyped

(* The reads and writes of an entity. *)
LEMMA EntityGranted ==
  ASSUME DeviceInv, ValuesInv, status = "running", UNCHANGED verifyVars, LoadH \/ StoreH
  PROVE  HostAccessHonoured'
<1>. DEFINE stack == shapes[current][pc]
            takes == Takes(container, current, pc, stack)
            given == SlotToValue(Imp.type, Operand1, State1)
<1>1. container' = container /\ Imp = At(container.imports, Arg)
  BY DEF verifyVars, Imp
<1>2. CASE LoadH
  <2>1. /\ Name = "load.h" /\ asked' = <<"read", Arg>>
    BY <1>2 DEF LoadH, On
  <2>2. Imp.kind = "entity" /\ Imp.readable
    BY <2>1, LookedUp
  <2>. QED
    BY <1>1, <2>1, <2>2 DEF HostAccessHonoured
<1>3. CASE StoreH
  <2>1. /\ Name = "store.h" /\ asked' = <<"write", Arg, given>>
    BY <1>3 DEF StoreH, On
  <2>2. Imp.kind = "entity" /\ Imp.writable /\ Imp.type \in ValueType
    BY <2>1, LookedUp
  <2>3. takes = <<Imp.type>>
    BY <2>1 DEF Takes, Name, Imp, Arg, Predicate, ConstState
  <2>4. 1 \in {1, 2} /\ Len(takes) = 1
    BY <2>3
  <2>5. Operand1 \in Int /\ State1 \in Validity
    BY <2>4, TakenOperands
  <2>6. HostTyped(Imp.type, given)
    BY <2>2, <2>5, CrossesTyped
  <2>7. Grants(Imp, "write", given)
    BY <2>2, <2>6 DEF Grants
  <2>8. /\ asked'[1] = "write" /\ asked'[2] = Arg /\ asked'[3] = given
    <3>. HIDE DEF given
    <3>. QED
      BY <2>1
  <2>9. Grants(At(container.imports, asked'[2]), asked'[1], asked'[3])
    BY <1>1, <2>7, <2>8
  <2>. QED
    BY <1>1, <2>9 DEF HostAccessHonoured, Grants, HostTyped
<1>. QED
  BY <1>2, <1>3

(* A call of the host hands over one argument for each parameter, of its type. *)
LEMMA CallGranted ==
  ASSUME DeviceInv, ValuesInv, status = "running", UNCHANGED verifyVars, CallH
  PROVE  HostAccessHonoured'
<1>. DEFINE stack == shapes[current][pc]
            takes == Takes(container, current, pc, stack)
            count == Len(Imp.param_types)
            given == [p \in 1..count |->
                        SlotToValue(Imp.param_types[p], values[sp - count + p - 1],
                                    states[sp - count + p - 1])]
<1>1. container' = container /\ Imp = At(container.imports, Arg)
  BY DEF verifyVars, Imp
<1>2. /\ Name = "call.h" /\ asked' = <<"call", Arg, given>>
  BY DEF CallH, On
<1>3. Imp.kind = "function" /\ Imp.param_types \in Seq(ValueType)
  BY <1>2, LookedUp
<1>4. takes = Imp.param_types
  BY <1>2 DEF Takes, Name, Imp, Arg, Predicate, ConstState
<1>5. /\ stack \in Seq(ValueType) /\ Len(stack) \in Nat /\ sp \in Int
      /\ count \in 0..Len(stack)
  BY <1>4, RunningFrame, TypedInstruction, RunningTypes DEF DeviceInv
<1>6. ASSUME NEW p \in 1..count
      PROVE  HostTyped(Imp.param_types[p], given[p])
  <2>1. PICK j : j = count - p + 1
    OBVIOUS
  <2>2. j \in 1..Len(stack) /\ sp - j = sp - count + p - 1
    BY <1>5, <2>1
  <2>3. values[sp - j] \in Int /\ states[sp - j] \in Validity
    BY <2>2, OperandsHold
  <2>4. Imp.param_types[p] \in ValueType
    BY <1>3, ElementOfSeq
  <2>. QED
    BY <2>2, <2>3, <2>4, CrossesTyped
<1>7. /\ Len(given) = count /\ DOMAIN given = 1..count
  <2>1. DOMAIN given = 1..count
    OBVIOUS
  <2>. QED
    BY <1>5, <2>1
<1>. HIDE DEF given
<1>8. Grants(Imp, "call", given)
  BY <1>3, <1>6, <1>7 DEF Grants
<1>9. /\ asked'[1] = "call" /\ asked'[2] = Arg /\ asked'[3] = given
  BY <1>2
<1>10. Grants(At(container.imports, asked'[2]), asked'[1], asked'[3])
  BY <1>1, <1>8, <1>9
<1>. QED
  BY <1>1, <1>10 DEF HostAccessHonoured, Grants, HostTyped

LEMMA HostAccessNext ==
  ASSUME DeviceInv, ValuesInv, HostAccessHonoured, [DeviceNext]_deviceVars
  PROVE  HostAccessHonoured'
<1>1. container' = container
  <2>1. VerifyNext => container' = container
    BY DEF VerifyNext, CheckGroups, CodeRegions, BeginWalk, Join, Visit, EndWalk, CallGraph,
       CompareDeclared, Refuse
  <2>. QED
    BY <2>1 DEF DeviceNext, Verifying, Running, deviceVars, verifyVars
<1>2. ASSUME asked' = asked PROVE HostAccessHonoured'
  BY <1>1, <1>2 DEF HostAccessHonoured
<1>3. ASSUME asked' = <<>> PROVE HostAccessHonoured'
  BY <1>3 DEF HostAccessHonoured
<1>4. CASE Verifying \/ UNCHANGED deviceVars
  BY <1>2, <1>4 DEF Verifying, vmVars, deviceVars
<1>5. CASE Running
  <2>1. UNCHANGED verifyVars
    BY <1>5 DEF Running
  <2>2. CASE Load \/ InvokeUnknown
    BY <1>2, <2>2 DEF Load, InvokeUnknown
  <2>3. CASE \E entry \in Functions(container) : Invoke(entry)
    BY <1>2, <1>3, <2>3 DEF Invoke
  <2>4. CASE Step
    <3>1. status = "running"
      BY <2>4, StepRuns
    <3>2. CASE LoadH \/ StoreH
      BY <2>1, <3>1, <3>2, EntityGranted
    <3>3. CASE CallH
      BY <2>1, <3>1, <3>3, CallGranted
    <3>4. CASE ~(LoadH \/ StoreH \/ CallH)
      <4>1. CASE Constants \/ LoadL \/ StoreL \/ Drop \/ Dup
        BY <1>2, <4>1 DEF Constants, ConstImmediate, ConstPool, ConstBool, ConstAbsent,
           LoadL, StoreL, Drop, Dup
      <4>2. CASE Core32
        BY <1>2, <4>2 DEF Core32, BinaryI32, DivideI32, NegI32, OrderI32, BitwiseI32,
           BitNotI32, ShiftI32, Operate
      <4>3. CASE Core64 \/ Floating
        BY <1>2, <4>3 DEF Core64, BinaryI64, DivideI64, NegI64, OrderI64, ExtendI32I64,
           WrapI64I32, Floating, BinaryF32, NegF32, OrderF32, ConvertToF32, TruncToI32,
           TruncToI64, Operate
      <4>4. CASE Logic
        BY <1>2, <4>4 DEF Logic, Not, AndOr, Else, IsState, Operate
      <4>5. CASE Control
        BY <1>2, <4>5 DEF Control, LoopGuard, Jmp, JmpIf, Call, ReturnToHost, ReturnToCaller
      <4>6. CASE Default \/ Stray
        BY <1>2, <4>6 DEF Default, Stray
      <4>. QED
        BY <2>4, <3>4, <4>1, <4>2, <4>3, <4>4, <4>5, <4>6 DEF Step, Movement
    <3>. QED
      BY <3>2, <3>3, <3>4
  <2>. QED
    BY <1>5, <2>2, <2>3, <2>4 DEF Running, VmNext
<1>. QED
  BY <1>4, <1>5 DEF DeviceNext

(* sysimport.h: whatever a container the verifier accepted does, the host is
   asked to read only what an import says may be read, to write only what it
   says may be written, and to call functions with an argument for each
   parameter; every value handed over is one of the declared type. *)
THEOREM HostIsAskedAsGranted == DeviceSpec => []HostAccessHonoured
<1>1. DeviceInit => HostAccessHonoured
  BY DEF DeviceInit, VmInit, HostAccessHonoured
<1>2. /\ DeviceInv /\ ValuesInv /\ HostAccessHonoured
      /\ [DeviceNext]_deviceVars
      => HostAccessHonoured'
  BY HostAccessNext
<1>. QED
  BY <1>1, <1>2, ValuesInvariant, PTL DEF DeviceSpec
=============================================================================
