------------------------------ MODULE MCFloat ------------------------------
(***************************************************************************)
(* A float of four bits, to give the F32 constants of Ops values: a sign   *)
(* and three bits for 0, 1/2, 1, 2, 4, 8, infinity and NaN, computed in    *)
(* halves and rounded down.                                                *)
(***************************************************************************)
EXTENDS Ops

Halves == <<0, 1, 2, 4, 8, 16>>
Nan(f) == f % 8 = 7
Inf(f) == f % 8 = 6
Sign(f) == IF f >= 8 THEN -1 ELSE 1
Real2(f) == Sign(f) * Halves[(f % 8) + 1]
Rounded2(h) ==
  (IF h < 0 THEN 8 ELSE 0)
    + (IF Magnitude(h) > 16 THEN 6
       ELSE Max({n \in 0..5 : Halves[n + 1] <= Magnitude(h)}))

ToyArith(name, a, b) ==
  CASE Nan(a) \/ Nan(b) -> 7
    [] Inf(a) \/ Inf(b) -> IF name \in {"add.f32", "mul.f32"} THEN 6 ELSE 7
    [] name = "div.f32" /\ Real2(b) = 0 -> IF Real2(a) = 0 THEN 7 ELSE 6
    [] name = "div.f32" -> Rounded2(Quotient(2 * Real2(a), Real2(b)))
    [] name = "add.f32" -> Rounded2(Real2(a) + Real2(b))
    [] name = "sub.f32" -> Rounded2(Real2(a) - Real2(b))
    [] name = "mul.f32" -> Rounded2(Quotient(Real2(a) * Real2(b), 2))
ToyNeg(a)      == (a + 8) % 16
ToyOrder(a)    == Sign(a) * (IF Inf(a) THEN 99 ELSE Magnitude(Real2(a)))
ToyLess(a, b)  == ~Nan(a) /\ ~Nan(b) /\ ToyOrder(a) < ToyOrder(b)
ToyEqual(a, b) == ~Nan(a) /\ ~Nan(b) /\ ToyOrder(a) = ToyOrder(b)
ToyFromInt(n)  == Rounded2(2 * n)
ToyWhole(a)    == IF Nan(a) THEN {} ELSE {IF Inf(a) THEN Sign(a) * 999
                                          ELSE Quotient(Real2(a), 2)}
=============================================================================
