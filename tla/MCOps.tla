------------------------------- MODULE MCOps -------------------------------
(***************************************************************************)
(* The integer and conversion operations of Ops against what they should   *)
(* compute, on every pair of words of Bits32 bits.                         *)
(***************************************************************************)
EXTENDS MCFloat

VARIABLES left, right, known   (* operands as i32, and the state they propagate *)

OpsInit ==
  /\ left \in {AsI32(w) : w \in 0..M32 - 1}
  /\ right \in {AsI32(w) : w \in 0..M32 - 1}
  /\ known \in Validity

InRange(n) == -M32 <= 2 * n /\ 2 * n < M32

(* mcuscript_op_div_i32 and _rem_i32 answer for every pair of operands: a
   quotient and a remainder that fit, where both are defined belong together
   as C's do (toward zero, the remainder with the dividend's sign), and are
   invalid exactly where there is no such pair. *)
DivisionIsTotal ==
  LET q == Div(left, right, known, M32)
      r == Rem(left, right, known, M32)
  IN  /\ InRange(q[1]) /\ InRange(r[1])
      /\ right = 0 => q = <<0, INVALID>> /\ r = <<0, INVALID>>
      /\ right # 0 /\ InRange(Quotient(left, right)) =>
           /\ q[2] = known
           /\ left = right * q[1] + r[1]
      /\ right # 0 /\ ~InRange(Quotient(left, right)) => q[2] = INVALID
      /\ right # 0 => /\ r[2] = known
                      /\ Magnitude(r[1]) < Magnitude(right)
                      /\ r[1] # 0 => (r[1] < 0) = (left < 0)

(* The shifts built from unsigned ones are what a signed number means by
   them: shr rounds toward minus infinity, shl multiplies modulo the word,
   and a count outside the word is invalid rather than undefined. *)
ShiftsAreArithmetic ==
  IF right \in 0..Bits32 - 1
  THEN /\ Shr(left, right, known) = <<left \div 2^right, known>>
       /\ \E k \in -M32..M32 : Shl(left, right, known)[1] = left * 2^right + k * M32
       /\ InRange(Shl(left, right, known)[1])
  ELSE Shr(left, right, known)[2] = INVALID /\ Shl(left, right, known)[2] = INVALID

(* The bit operations on signed words agree with arithmetic. *)
BitsAreTwosComplement ==
  LET and == Bits("and.i32", left, right)
      or  == Bits("or.i32", left, right)
      xor == Bits("xor.i32", left, right)
  IN  /\ and + or = left + right
      /\ xor = or - and
      /\ BitNot(left) = -left - 1
      /\ InRange(and) /\ InRange(or) /\ InRange(xor)

(* A float truncates to an integer only where the integer fits; otherwise,
   NaN and infinity included, the result is invalid and nothing overflows.
   An i32 that a float holds exactly comes back from it. *)
TruncationFits ==
  LET bits == FromI32(left)
      t32  == TruncF32(bits, known, M32)
      t64  == TruncF32(bits, known, M64)
  IN  /\ InRange(t32[1])
      /\ Nan(bits) \/ Inf(bits) => t32[2] = INVALID /\ t64[2] = INVALID
      /\ ~Nan(bits) /\ ~Inf(bits) =>
           /\ t32[2] = IF InRange(t64[1]) THEN known ELSE INVALID
           /\ t64[2] = known
      /\ Magnitude(left) \in {0, 1, 2, 4} =>
           TruncF32(F32FromInt(left), known, M32) = <<left, known>>
=============================================================================
