------------------------------- MODULE Script -------------------------------
(***************************************************************************)
(* What the compiler is given: a parsed script (ast.py), the profile's     *)
(* dimensions and units (profile.py) and the registry of what the host     *)
(* offers (registry.py).                                                   *)
(*                                                                         *)
(* A node is a record whose field kind says which it is, and the passes    *)
(* key what they learn by node identity, which is here the path from the   *)
(* function's name down to the node.  A script is the sequence of its      *)
(* functions, the entry points first.                                      *)
(***************************************************************************)
EXTENDS Isa, TLC

CONSTANTS
  Dimensions,  (* [name -> [type, cyclic, scale]]                           *)
  Units,       (* [spelling -> [dim, factor, offset]], the two exact        *)
  Registry     (* [name -> [kind, quantity, readable, writable, params]]    *)

(* A type and, if it has one, a dimension.  VOID is the type of what gives no
   value; PENDING stands for a type still being inferred, and NOTHING for
   Python's None. *)
Quantity(type, dim) == [type |-> type, dim |-> dim]
Plain(type) == Quantity(type, "")
InDimension(dim) == Quantity(Dimensions[dim].type, dim)

PENDING == Quantity(-1, "")
NOTHING == Quantity(-2, "")
IsQuantity(q) == q \notin {PENDING, NOTHING}

Dimensionless(q) == q.dim = ""
IsScale(q)  == q.dim # "" /\ Dimensions[q.dim].scale
IsCyclic(q) == q.dim # "" /\ Dimensions[q.dim].cyclic
IsInteger(q) == q.type \in {I32, I64}

-----------------------------------------------------------------------------
(* An absent operand, annotation or otherwise. *)
Absent == [kind |-> "absent"]

(* The nth part of a node, and the two parts of a match's nth arm. *)
Child(path, n) == Append(path, n)
ArmBody(path, n)    == path \o <<n + 1, 1>>
ArmPattern(path, n) == path \o <<n + 1, 2>>

(* Whether control can reach past a block: deliberately shallow, it looks at
   the last statement only (sema.py, falls_through). *)
RECURSIVE FallsThrough(_), IfFallsThrough(_)
FallsThrough(block) ==
  block # <<>> =>
    /\ Last(block).kind \notin {"return", "break", "continue"}
    /\ (Last(block).kind = "expr" /\ Last(block).value.kind = "if")
         => IfFallsThrough(Last(block).value)

IfFallsThrough(node) ==
  \/ node.otherwise.kind = "absent"
  \/ FallsThrough(node.then)
  \/ IF node.otherwise.kind = "if" THEN IfFallsThrough(node.otherwise)
     ELSE FallsThrough(node.otherwise.body)

-----------------------------------------------------------------------------
(* Exact rationals, in lowest terms (fractions.Fraction). *)
RECURSIVE Gcd(_, _)
Gcd(a, b) == IF b = 0 THEN a ELSE Gcd(b, a % b)

Abs(n) == IF n < 0 THEN -n ELSE n

Fraction(n, d) ==
  LET g == Gcd(Abs(n), Abs(d))
      s == IF d < 0 THEN -g ELSE g
  IN  [num |-> (Abs(n) \div g) * (IF (n < 0) = (s < 0) THEN 1 ELSE -1), den |-> Abs(d) \div g]

Whole(n) == Fraction(n, 1)
Times(x, y) == Fraction(x.num * y.num, x.den * y.den)
Over(x, y)  == Fraction(x.num * y.den, x.den * y.num)
Plus(x, y)  == Fraction(x.num * y.den + y.num * x.den, x.den * y.den)
=============================================================================
