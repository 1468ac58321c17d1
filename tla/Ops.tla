-------------------------------- MODULE Ops --------------------------------
(***************************************************************************)
(* The operations both backends execute (runtime/include/mcuscript_ops.h). *)
(*                                                                         *)
(* A slot is an unsigned word of Bits64 bits (64 in the build) and an i32  *)
(* is the low Bits32 of it (32 in the build), so overflow happens where it *)
(* happens in the code.  An operation that can produce `invalid` takes the *)
(* propagated state of its operands and returns a result <<value, state>>. *)
(*                                                                         *)
(* IEEE-754 arithmetic is the C compiler's: the operators F32... stand for *)
(* it, on bit patterns.                                                    *)
(***************************************************************************)
EXTENDS Integers, Isa

CONSTANTS
  Bits32, Bits64,     (* word sizes                                         *)
  F32Arith(_, _, _),  (* name, bits, bits: the rounded result, as bits      *)
  F32Neg(_),          (* bits of the negation                               *)
  F32Less(_, _),      (* ordered less-than: false on NaN                    *)
  F32Equal(_, _),     (* ordered equality: false on NaN                     *)
  F32FromInt(_),      (* bits of the nearest binary32                       *)
  F32Whole(_)         (* {the value truncated toward zero}, {} for a NaN    *)

M32 == 2^Bits32
M64 == 2^Bits64

ASSUME WordAssumption ==
  /\ Bits32 \in Nat \ {0} /\ Bits64 \in Nat
  /\ M32 \in Nat \ {0} /\ M64 \in Nat \ {0}
  /\ M32 <= M64 /\ M64 % M32 = 0
  /\ \A i \in 0..Bits32 : 2^i \in Nat \ {0}
  /\ 2^0 = 1 /\ \A i \in 0..Bits32 - 1 : 2^(i + 1) = 2 * 2^i

ASSUME FloatAssumption ==
  /\ \A a, b \in 0..M32 - 1 :
       /\ \A name \in ArithF32 : F32Arith(name, a, b) \in 0..M32 - 1
       /\ F32Neg(a) \in 0..M32 - 1
       /\ F32Less(a, b) \in BOOLEAN
       /\ F32Equal(a, b) \in BOOLEAN
       /\ F32Whole(a) \subseteq Int
  /\ \A n \in -M64..M64 : F32FromInt(n) \in 0..M32 - 1

Worse(a, b) == IF a > b THEN a ELSE b

(* The signed number an unsigned word of m values stands for, and back. *)
Signed(raw, m) == LET low == raw % m IN IF 2 * low >= m THEN low - m ELSE low

AsI32(slot)   == Signed(slot, M32)
SignExtended(n) == n % M64
FromI32(n)    == n % M32
AsI64(slot)   == Signed(slot, M64)
FromI64(n)    == n % M64
AsF32(slot)   == slot % M32
FromBool(b)   == IF b THEN 1 ELSE 0

-----------------------------------------------------------------------------
(* Wrapping arithmetic in a word of m values; name is add, sub or mul. *)
Wrapped(name, a, b, m) ==
  CASE name \in {"add.i32", "add.i64"} -> Signed(a + b, m)
    [] name \in {"sub.i32", "sub.i64"} -> Signed(a - b, m)
    [] name \in {"mul.i32", "mul.i64"} -> Signed(a * b, m)

Neg(a, m) == Signed(0 - a, m)

(* C's division truncates toward zero. *)
Magnitude(n) == IF n < 0 THEN -n ELSE n

Quotient(a, b) ==
  LET q == Magnitude(a) \div Magnitude(b)
  IN  IF (a < 0) = (b < 0) THEN q ELSE -q

DivUnlessZero(a, b, state, m) ==
  IF b = 0 THEN <<0, INVALID>> ELSE <<Quotient(a, b), state>>

(* Division by zero, and the one quotient that does not fit, are invalid. *)
Div(a, b, state, m) ==
  IF b = 0 \/ (2 * a = -m /\ b = -1) THEN <<0, INVALID>>
  ELSE <<Quotient(a, b), state>>

(* The remainder of that same pair is defined, and zero. *)
Rem(a, b, state, m) ==
  IF b = 0 THEN <<0, INVALID>>
  ELSE IF 2 * a = -m /\ b = -1 THEN <<0, state>>
  ELSE <<a - b * Quotient(a, b), state>>

DivRem(name, a, b, state, m) ==
  IF name \in {"div.i32", "div.i64"} THEN Div(a, b, state, m)
  ELSE Rem(a, b, state, m)

Compared(name, a, b) ==
  CASE name \in {"eq.i32", "eq.i64"} -> a = b
    [] name \in {"ne.i32", "ne.i64"} -> a # b
    [] name \in {"lt.i32", "lt.i64"} -> a < b
    [] name \in {"le.i32", "le.i64"} -> a <= b
    [] name \in {"gt.i32", "gt.i64"} -> a > b
    [] name \in {"ge.i32", "ge.i64"} -> a >= b

ComparedF32(name, a, b) ==
  CASE name = "eq.f32" -> F32Equal(a, b)
    [] name = "ne.f32" -> ~F32Equal(a, b)
    [] name = "lt.f32" -> F32Less(a, b)
    [] name = "le.f32" -> F32Less(a, b) \/ F32Equal(a, b)
    [] name = "gt.f32" -> F32Less(b, a)
    [] name = "ge.f32" -> F32Less(b, a) \/ F32Equal(a, b)

-----------------------------------------------------------------------------
(* Bits of an i32, computed in the unsigned type. *)
OnesOfMagnitude(n) == {i \in 0..Bits32 - 1 : (Magnitude(n) \div 2^i) % 2 = 1}
Ones(n) == {i \in 0..Bits32 - 1 : (FromI32(n) \div 2^i) % 2 = 1}

OfOnes(S) == Signed(MapThenSumSet(LAMBDA i : 2^i, S), M32)

Bits(name, a, b) ==
  CASE name = "and.i32" -> OfOnes(Ones(a) \cap Ones(b))
    [] name = "or.i32"  -> OfOnes(Ones(a) \cup Ones(b))
    [] name = "xor.i32" -> OfOnes((Ones(a) \ Ones(b)) \cup (Ones(b) \ Ones(a)))

BitNot(a) == OfOnes((0..Bits32 - 1) \ Ones(a))

Shl(a, count, state) ==
  IF count < 0 \/ count >= Bits32 THEN <<0, INVALID>>
  ELSE <<Signed(a * 2^count, M32), state>>

ShrLogical(a, count, state) ==
  IF count < 0 \/ count >= Bits32 THEN <<0, INVALID>>
  ELSE <<Signed(FromI32(a) \div 2^count, M32), state>>

(* Arithmetic: the unsigned shift, then the vacated bits filled with ones
   when the sign bit was set. *)
Shr(a, count, state) ==
  IF count < 0 \/ count >= Bits32 THEN <<0, INVALID>>
  ELSE LET bits == FromI32(a) \div 2^count
           fill == IF a < 0 /\ count > 0 THEN M32 - 2^(Bits32 - count) ELSE 0
       IN  <<Signed(bits + fill, M32), state>>

TruncToLimit(bits, state, m) ==
  IF \E n \in F32Whole(bits) : -m <= 2 * n /\ 2 * n <= m
  THEN <<CHOOSE n \in F32Whole(bits) : TRUE, state>>
  ELSE <<0, INVALID>>

(* Out of range and NaN are invalid: the test is written so NaN fails it. *)
TruncF32(bits, state, m) ==
  IF \E n \in F32Whole(bits) : -m <= 2 * n /\ 2 * n < m
  THEN <<CHOOSE n \in F32Whole(bits) : TRUE, state>>
  ELSE <<0, INVALID>>
=============================================================================
