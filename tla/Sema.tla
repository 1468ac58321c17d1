-------------------------------- MODULE Sema --------------------------------
(***************************************************************************)
(* Type, unit and flow analysis (sema.py, _Analyser).                      *)
(*                                                                         *)
(* A pass takes the analyser's state and returns it, with what the node    *)
(* yields in q.  An exception is a signal in the state: from then on every *)
(* pass returns the state it was given, up to the handler.  "error" is a   *)
(* refusal of the script; "unresolved" is _Unresolved, which unwinds to    *)
(* the function whose type was needed before it was known.  Only what      *)
(* Python restores on the way is restored here.                            *)
(***************************************************************************)
EXTENDS Script

BOOLEANS == Plain(BOOL)
WRONG == Quantity(-3, "")   \* a rule refused

Fail(s) == [s EXCEPT !.signal = "error"]

(* Yield q unless something was signalled on the way; WRONG is a refusal. *)
Yield(s, q) ==
  IF s.signal # "" THEN s ELSE IF q = WRONG THEN Fail(s) ELSE [s EXCEPT !.q = q]

Provided(holds, q) == IF holds THEN q ELSE WRONG

Valued(q) == IsQuantity(q) /\ q.type # VOID

-----------------------------------------------------------------------------
(* Quantities: which operands go together, and what they give. *)
Arithmetic(op, left, right) ==
  IF left.type = BOOL \/ right.type = BOOL THEN WRONG
  ELSE IF op \in {"+", "-"} /\ IsScale(left) # IsScale(right) THEN Provided(IsScale(right), left)
  ELSE IF op \in {"*", "/"} /\ IsScale(right) /\ ~IsScale(left) THEN left
  ELSE IF op = "*" /\ IsScale(left) /\ ~IsScale(right) THEN right
  ELSE CASE op \in {"+", "-", "mod"} ->
              Provided(/\ left.dim = right.dim \/ (op = "mod" /\ Dimensionless(right))
                       /\ Dimensionless(left) => left.type = right.type, left)
         [] op = "*" ->
              IF ~Dimensionless(left) THEN Provided(Dimensionless(right), left)
              ELSE Provided(~Dimensionless(right) \/ left.type = right.type, right)
         [] op = "/" ->
              IF left.dim = right.dim THEN Plain(F32)
              ELSE Provided(Dimensionless(right), left)

(* Mutant: a comparison looks at the dimensions only. *)
ComparedByDimension(op, left, right) ==
  CASE op \in {"<", "<=", ">", ">=", "==", "!="} -> Provided(left.dim = right.dim, BOOLEANS)
    [] op \in {"&", "|", "^", "<<", ">>"} ->
         Provided(/\ \A q \in {left, right} : Dimensionless(q) /\ IsInteger(q)
                  /\ op \in {"&", "|", "^"} => left.type = right.type, left)
    [] OTHER -> Arithmetic(op, left, right)

BinaryResult(op, left, right) ==
  CASE op \in {"<", "<=", ">", ">=", "==", "!="} -> Provided(left = right, BOOLEANS)
    [] op \in {"&", "|", "^", "<<", ">>"} ->
         Provided(/\ \A q \in {left, right} : Dimensionless(q) /\ IsInteger(q)
                  /\ op \in {"&", "|", "^"} => left.type = right.type, left)
    [] OTHER -> Arithmetic(op, left, right)

(* An annotation names a type or a dimension the profile declares. *)
Annotation(name) ==
  CASE name = "i32" -> Plain(I32) [] name = "i64" -> Plain(I64)
    [] name = "f32" -> Plain(F32) [] name = "bool" -> BOOLEANS
    [] name \in DOMAIN Dimensions -> InDimension(name)
    [] OTHER -> WRONG

(* A value in its dimension's base unit, and whether it is held exactly. *)
InBase(value, unit) == Plus(Times(value, Units[unit].factor), Units[unit].offset)
Held(value, unit) ==
  InDimension(Units[unit].dim).type = F32 \/ InBase(value, unit).den = 1

-----------------------------------------------------------------------------
(* Literals. *)
Literal(s, path, value, q) ==
  IF s.signal # "" THEN s
  ELSE [s EXCEPT !.values = (path :> value) @@ @, !.types = (path :> q) @@ @, !.q = q]

Suffixed(node, path, unit, s) ==
  IF unit \notin DOMAIN Units \/ ~Held(node.value, unit) THEN Fail(s)
  ELSE Literal(s, path, InBase(node.value, unit), InDimension(Units[unit].dim))

(* A whole numeral takes the type the place around it needs. *)
Number(node, path, want, s) ==
  IF node.suffix # "" THEN Suffixed(node, path, node.suffix, s)
  ELSE Literal(s, path, node.value,
         CASE node.decimal -> Plain(F32)
           [] ~node.decimal /\ IsQuantity(want) /\ Dimensionless(want)
                /\ want.type \in {I32, I64, F32} -> want
           [] OTHER -> Plain(I32))

(* 5min30s: one dimension, from the largest unit to the smallest. *)
Duration(node, path, s) ==
  LET unit(n) == Units[node.parts[n].suffix]
      whole[n \in 0..Len(node.parts)] ==
        IF n = 0 THEN Whole(0)
        ELSE Plus(whole[n - 1], InBase(node.parts[n].value, node.parts[n].suffix))
      sound(n) ==
        /\ node.parts[n].suffix \in DOMAIN Units
        /\ unit(n).dim = unit(1).dim
        /\ unit(n).offset = Whole(0)
        /\ n > 1 => Over(unit(n).factor, unit(n - 1).factor).num
                      < Over(unit(n).factor, unit(n - 1).factor).den
        /\ Held(node.parts[n].value, node.parts[n].suffix)
  IN  IF \A n \in DOMAIN node.parts : sound(n)
      THEN Literal(s, path, whole[Len(node.parts)], InDimension(unit(1).dim))
      ELSE Fail(s)

(* A name that is not a local is the host's. *)
Readable(name) == name \in DOMAIN Registry /\ Registry[name].kind = "entity"
                    /\ Registry[name].readable
Name(node, s) ==
  Yield(s, IF ~node.dotted /\ node.text \in DOMAIN s.scope THEN s.scope[node.text]
           ELSE IF Readable(node.text) THEN Registry[node.text].quantity ELSE WRONG)

-----------------------------------------------------------------------------
(* Everything below a node is read by Visit. *)
RECURSIVE Visit(_, _, _, _)
Expr(node, path, want, s) == Visit(node, path, want, s)
Block(block, path, s) == Visit([kind |-> "block", body |-> block], path, NOTHING, s)
FunctionOn(f, args, s) == Visit([kind |-> "function", function |-> f, args |-> args], <<>>, NOTHING, s)

(* A type still pending inside the function it waits on unwinds to it. *)
Demand(node, path, want, s) ==
  LET r == Expr(node, path, want, s)
  IN  IF r.signal # "" \/ r.q # PENDING THEN r
      ELSE IF r.progress = {} THEN Fail(r)
      ELSE [r EXCEPT !.signal = "unresolved", !.found = <<>>]

Unary(node, path, want, s) ==
  LET r == Demand(node.operand, Child(path, 1), IF node.op = "not" THEN BOOLEANS ELSE want, s)
  IN  Yield(r, CASE node.op = "not" -> Provided(r.q = BOOLEANS, BOOLEANS)
                 [] node.op = "-"   -> Provided(r.q.type # BOOL, r.q)
                 [] node.op = "~"   -> Provided(Dimensionless(r.q) /\ IsInteger(r.q), r.q))

Logical(node, path, s) ==
  LET a == Demand(node.left, Child(path, 1), BOOLEANS, s)
      b == Demand(node.right, Child(path, 2), BOOLEANS, Yield(a, Provided(a.q = BOOLEANS, a.q)))
  IN  Yield(b, Provided(b.q = BOOLEANS, BOOLEANS))

(* Either side may be the one still pending. *)
Fallback(node, path, want, s) ==
  LET a == Expr(node.left, Child(path, 1), want, s)
      b == Expr(node.right, Child(path, 2), IF IsQuantity(a.q) THEN a.q ELSE want, a)
  IN  Yield(b, CASE a.q = PENDING -> b.q
                 [] b.q = PENDING -> a.q
                 [] OTHER -> Provided(a.q = b.q, a.q))

Binary(node, path, want, s) ==
  CASE node.op \in {"and", "or"} -> Logical(node, path, s)
    [] node.op = "else"          -> Fallback(node, path, want, s)
    [] OTHER ->
         LET a == Demand(node.left, Child(path, 1), NOTHING, s)
             b == Demand(node.right, Child(path, 2),
                         IF node.op \in {"*", "/"} THEN NOTHING ELSE a.q, a)
         IN  Yield(b, BinaryResult(node.op, a.q, b.q))

-----------------------------------------------------------------------------
(* Calls. *)

(* The arguments in order, each of the type wanted where one is, left in
   given. *)
Arguments(args, path, wants, s) ==
  LET taken[k \in 0..Len(args)] ==
        IF k = 0 THEN [s EXCEPT !.given = <<>>]
        ELSE LET want == IF wants = <<>> THEN NOTHING ELSE wants[k]
                 r == Demand(args[k], Child(path, k), want, taken[k - 1])
                 y == Yield(r, Provided(want \in {NOTHING, r.q}, r.q))
             IN  [y EXCEPT !.given = Append(taken[k - 1].given, r.q)]
  IN  taken[Len(args)]

HostCall(node, path, s) ==
  LET fn == Registry[node.text]
  IN  IF \/ node.text \notin DOMAIN Registry
         \/ fn.kind # "function" \/ Len(node.args) # Len(fn.params)
      THEN Fail(s)
      ELSE Yield(Arguments(node.args, path, fn.params, s), fn.quantity)

AsVoid(q) == IF q = NOTHING THEN Plain(VOID) ELSE q

(* While the callee's type is pending nothing looks at what it is given. *)
Known(sig, r) == Yield(r, Provided(r.given = sig.params, AsVoid(sig.returns)))

Applied(node, path, f, r) ==
  IF r.signal # "" THEN r
  ELSE IF Len(node.args) # Len(f.params) THEN Fail(r)
  ELSE IF IF node.text \in DOMAIN r.sigs THEN r.sigs[node.text].returns = PENDING
          ELSE node.text \in r.progress
  THEN [r EXCEPT !.deferred = @ \cup {<<path, node.text>>}, !.q = PENDING]
  ELSE IF node.text \in DOMAIN r.sigs THEN Known(r.sigs[node.text], r)
  ELSE FunctionOn(f, r.given, r)

OwnFunction(node, path, s) ==
  Applied(node, path, s.functions[node.text], Arguments(node.args, path, <<>>, s))

OneOperand(node, path, s) ==
  LET r == Demand(node.args[1], Child(path, 1), NOTHING, s)
  IN  Yield(r, Provided(r.q.type # BOOL,
                 IF node.text = "abs" THEN r.q
                 ELSE Provided(r.q.type = F32,
                        IF Dimensionless(r.q) THEN Plain(I32) ELSE InDimension(r.q.dim))))

IsUnit(node) == node.kind \in {"unit", "name"} /\ node.text \in DOMAIN Units

(* The resolution, an optional third argument, is a plain number. *)
Resolution(node) ==
  Len(node.args) > 2 => node.args[3].kind = "number" /\ node.args[3].suffix = ""

(* to_i32(x, unit, resolution): out of the dimension system. *)
Conversion(node, path, target, s) ==
  LET r == Demand(node.args[1], Child(path, 1), NOTHING, s)
  IN  Yield(r, Provided(/\ r.q.type # BOOL
                        /\ IF Dimensionless(r.q) THEN Len(node.args) = 1
                           ELSE /\ Len(node.args) >= 2 /\ IsUnit(node.args[2])
                                /\ Units[node.args[2].text].dim = r.q.dim
                                /\ Resolution(node), Plain(target)))

ToUnit(node, path, s) ==
  LET r == Demand(node.args[1], Child(path, 1), NOTHING, s)
  IN  IF Len(node.args) \notin {2, 3} THEN Fail(s)
      ELSE Yield(r, Provided(/\ Dimensionless(r.q) /\ IsUnit(node.args[2])
                             /\ Resolution(node),
                             InDimension(Units[node.args[2].text].dim)))

Call(node, path, s) ==
  CASE node.args # <<>> /\ node.text = "to_i32" -> Conversion(node, path, I32, s)
    [] node.args # <<>> /\ node.text = "to_i64" -> Conversion(node, path, I64, s)
    [] node.args # <<>> /\ node.text = "to_f32" -> Conversion(node, path, F32, s)
    [] node.text = "to_unit"                    -> ToUnit(node, path, s)
    [] Len(node.args) = 1 /\ node.text \in {"round", "trunc", "abs"} -> OneOperand(node, path, s)
    [] node.text \in DOMAIN s.functions         -> OwnFunction(node, path, s)
    [] OTHER                                    -> HostCall(node, path, s)

-----------------------------------------------------------------------------
(* if and match.  An arm that unwinds may have the way out of a recursion
   beside it: the arms not read yet are read before the signal goes on, and
   what they and the arms already read give is carried to the second pass. *)
Kept(q) == IF Valued(q) THEN <<q>> ELSE <<>>

Elsewhere(raised, r) ==
  IF r.signal = "error" THEN r
  ELSE [r EXCEPT !.signal = "unresolved",
                 !.found = raised.found \o (IF r.signal = "" THEN Kept(r.q) ELSE <<>>)]

Resumed(s) == [s EXCEPT !.signal = "", !.q = NOTHING]

OtherArm(node, path, s) ==
  CASE node.otherwise.kind = "absent" -> Yield(s, NOTHING)
    [] node.otherwise.kind = "if"     -> Expr(node.otherwise, Child(path, 3), NOTHING, s)
    [] node.otherwise.kind = "block"  -> Block(node.otherwise.body, Child(path, 3), s)

Joined(then, other) ==
  IF other.signal = "unresolved" /\ then.signal = "" THEN [other EXCEPT !.found = @ \o Kept(then.q)]
  ELSE Yield(other, CASE NOTHING \in {then.q, other.q} -> Plain(VOID)
                      [] NOTHING \notin {then.q, other.q} /\ then.q = PENDING -> other.q
                      [] NOTHING \notin {then.q, other.q} /\ other.q = PENDING -> then.q
                      [] OTHER -> Provided(then.q = other.q, then.q))

OtherThan(then, node, path) ==
  IF then.signal = "unresolved" THEN Elsewhere(then, OtherArm(node, path, Resumed(then)))
  ELSE Joined(then, OtherArm(node, path, then))

Arms(node, path, test) ==
  IF test.signal # "" THEN test ELSE OtherThan(Block(node.then, Child(path, 2), test), node, path)

Boolean(r) == Yield(r, Provided(r.q = BOOLEANS, BOOLEANS))
IfExpr(node, path, s) ==
  Arms(node, path, Boolean(Demand(node.condition, Child(path, 1), BOOLEANS, s)))

(* Both ends of a range, left in given: a unit at one end is lent to a bare
   numeral at the other. *)
RangeEnds(low, high, path, want, s) ==
  LET suffix(end) == IF end.kind = "number" THEN end.suffix ELSE ""
      lent == IF suffix(high) # "" THEN suffix(high) ELSE suffix(low)
      named(end) == IF end.kind = "number" /\ end.suffix = "" THEN [end EXCEPT !.suffix = lent] ELSE end
      one(end, n, st) == Demand(named(end), Child(path, n), want, st)
      given(a, b) == [b EXCEPT !.given = <<a.q, b.q>>]
  IN  given(one(low, 1, s), one(high, 2, one(low, 1, s)))

Same(r, q, quantities) == Yield(r, Provided(quantities \subseteq {q}, q))

Pattern(pattern, path, subject, s) ==
  LET ends == RangeEnds(pattern.low, pattern.high, path, subject, s)
      value == Demand(pattern.value, Child(path, 1), subject, s)
  IN  CASE pattern.kind \in {"elsePattern", "statePattern"}      -> s
        [] pattern.kind \in {"valuePattern", "comparePattern"}   -> Same(value, subject, {value.q})
        [] pattern.kind = "rangePattern" -> Same(ends, subject, {ends.given[1], ends.given[2]})

(* What the arms after n give, read for the way out only. *)
LaterArms(node, path, n, raised) ==
  LET read[k \in n..Len(node.arms)] ==
        IF k = n THEN raised
        ELSE LET before == read[k - 1]
             IN  IF before.signal = "error" THEN before
                 ELSE Elsewhere(before, Expr(node.arms[k].body, ArmBody(path, k), NOTHING,
                                             Resumed(before)))
  IN  read[Len(node.arms)]

(* The nth arm, the result so far being before; its body, its test past. *)
ArmGives(node, path, n, before, arm) ==
  IF arm.signal = "unresolved"
  THEN LaterArms(node, path, n, [arm EXCEPT !.found = @ \o Kept(before)])
  ELSE Yield(arm, CASE arm.q = PENDING -> before
                    [] arm.q # PENDING /\ before = NOTHING -> arm.q
                    [] OTHER -> Provided(arm.q = before, before))

ArmAfter(node, path, n, before, test) ==
  IF test.signal # "" THEN test
  ELSE ArmGives(node, path, n, before, Expr(node.arms[n].body, ArmBody(path, n), before, test))

ArmsInTurn(node, path, want, s) ==
  LET after[n \in 0..Len(node.arms)] ==
        IF n = 0 THEN [s EXCEPT !.q = want]
        ELSE IF after[n - 1].signal # "" THEN after[n - 1]
        ELSE ArmAfter(node, path, n, after[n - 1].q,
                      Pattern(node.arms[n].pattern, ArmPattern(path, n), s.q, after[n - 1]))
  IN  after[Len(node.arms)]

Covered(node, subject) ==
  subject.type = BOOL \/ \E n \in DOMAIN node.arms : node.arms[n].pattern.kind = "elsePattern"

MatchExpr(node, path, want, s) ==
  LET subject == Demand(node.subject, Child(path, 1), NOTHING, s)
      matched(r) == Yield(r, Provided(Covered(node, subject.q), AsVoid(r.q)))
  IN  IF subject.signal # "" THEN subject ELSE matched(ArmsInTurn(node, path, want, subject))

Infer(node, path, want, s) ==
  CASE node.kind = "number"   -> Number(node, path, want, s)
    [] node.kind = "duration" -> Duration(node, path, s)
    [] node.kind = "bool"     -> Yield(s, BOOLEANS)
    [] node.kind = "state"    -> Yield(s, Provided(want # NOTHING, want))
    [] node.kind = "name"     -> Name(node, s)
    [] node.kind = "unary"    -> Unary(node, path, want, s)
    [] node.kind = "binary"   -> Binary(node, path, want, s)
    [] node.kind = "is"       -> Yield(Demand(node.operand, Child(path, 1), NOTHING, s), BOOLEANS)
    [] node.kind = "call"     -> Call(node, path, s)
    [] node.kind = "if"       -> IfExpr(node, path, s)
    [] node.kind = "match"    -> MatchExpr(node, path, want, s)

-----------------------------------------------------------------------------
(* Statements. *)
Assignment(node, path, s) ==
  LET name   == node.target.text
      local  == ~node.target.dotted /\ name \in DOMAIN s.scope
      entity == name \in DOMAIN Registry /\ Registry[name].kind = "entity"
      target == CASE local  -> Provided(~Contains(s.fixed, name), s.scope[name])
                  [] ~local /\ entity -> Provided(Registry[name].writable, Registry[name].quantity)
                  [] OTHER  -> WRONG
      v == Demand(node.value, Child(path, 1), target,
                  [s EXCEPT !.types = (Child(path, 2) :> target) @@ @])
      q == IF node.op = "=" THEN v.q ELSE BinaryResult(node.op, target, v.q)
  IN  IF target = WRONG THEN Fail(s) ELSE Yield(v, Provided(q = target, NOTHING))

Bound(node, want, v) ==
  IF v.signal # "" THEN v
  ELSE IF /\ want \in {NOTHING, v.q}
          /\ node.name \notin DOMAIN v.scope \cup DOMAIN Registry
          /\ v.q # WRONG
  THEN [v EXCEPT !.scope = (node.name :> v.q) @@ @, !.q = NOTHING]
  ELSE Fail(v)

Let(node, path, s) ==
  LET want == IF node.annotation = "" THEN NOTHING ELSE Annotation(node.annotation)
  IN  IF want = WRONG THEN Fail(s) ELSE Bound(node, want, Demand(node.value, Child(path, 1), want, s))

ReturnStatement(node, path, s) ==
  LET v == IF node.value = Absent THEN Yield(s, NOTHING)
           ELSE Expr(node.value, Child(path, 1), NOTHING, s)
  IN  IF v.signal # "" THEN v
      ELSE [v EXCEPT !.returns = Append(Front(@), Append(Last(@), v.q)), !.q = NOTHING]

(* The depth and the names being counted are put back where the body ends,
   and only there: a signal leaves them as they are. *)
Counting(r) ==
  LET low == r.given[1]
  IN  Yield(r, Provided(Dimensionless(low) /\ IsInteger(low) /\ r.given = <<low, low>>, NOTHING))

Left(scope, r) ==
  IF r.signal # "" THEN [r EXCEPT !.scope = scope]
  ELSE [r EXCEPT !.scope = scope, !.depth = @ - 1, !.fixed = Front(@), !.q = NOTHING]

Looped(node, path, s) ==
  IF s.signal # "" THEN s
  ELSE Left(s.scope, Block(node.body, Child(path, 3),
         [s EXCEPT !.scope = (node.variable :> s.given[1]) @@ @,
                   !.depth = @ + 1, !.fixed = Append(@, node.variable)]))

ForLoop(node, path, s) == Looped(node, path, Counting(RangeEnds(node.low, node.high, path, NOTHING, s)))

Statement(node, path, s) ==
  CASE node.kind = "let"    -> Let(node, path, s)
    [] node.kind = "assign" -> Assignment(node, path, s)
    [] node.kind = "expr"   -> Expr(node.value, Child(path, 1), NOTHING, s)
    [] node.kind = "return" -> ReturnStatement(node, path, s)
    [] node.kind \in {"break", "continue"} -> Yield(s, Provided(s.depth # 0, NOTHING))
    [] node.kind = "for"    -> ForLoop(node, path, s)

(* A block's value is its last expression, or nothing. *)
Statements(block, path, s) ==
  LET after[n \in 0..Len(block)] ==
        IF n = 0 THEN Yield(s, NOTHING)
        ELSE IF after[n - 1].signal # "" THEN after[n - 1]
        ELSE Visit(block[n], Child(path, n), NOTHING, after[n - 1])
      done == after[Len(block)]
  IN  [done EXCEPT !.scope = s.scope,
                   !.q = IF block # <<>> /\ Last(block).kind = "expr" THEN @ ELSE NOTHING]

(* A whole body: every way out gives the same kind of thing, and falling off
   the end is one where control can reach it. *)
Concluded(block, s, r) ==
  LET ways == Last(r.returns) \o (IF FallsThrough(block) THEN <<r.q>> ELSE <<>>)
      out  == [r EXCEPT !.returns = Front(@)]
      valued == SelectSeq(ways, Valued)
  IN  IF r.signal # ""
      THEN [out EXCEPT !.found = IF @ = <<>> THEN Last(r.returns) ELSE @]
      ELSE IF valued = <<>>
      THEN Yield(out, IF Contains(ways, PENDING) THEN PENDING ELSE NOTHING)
      ELSE Yield(out, Provided(\A n \in DOMAIN ways : ways[n] \in {PENDING, valued[1]}, valued[1]))

Body(block, path, s) ==
  Concluded(block, s, Block(block, path, [s EXCEPT !.returns = Append(@, <<>>)]))

-----------------------------------------------------------------------------
(* A function's types come from its first call. *)
Frame(f, args) ==
  FoldLeft(LAMBDA scope, n : (f.params[n].name :> args[n]) @@ scope, [x \in {} |-> NOTHING],
           [n \in DOMAIN args |-> n])

FrameFits(f, args) ==
  \A n \in DOMAIN args : f.params[n].annotation = "" \/ Annotation(f.params[n].annotation) = args[n]

ReadBody(f, args, s) ==
  IF FrameFits(f, args)
  THEN [Body(f.body, <<f.name>>, [s EXCEPT !.scope = Frame(f, args)]) EXCEPT !.scope = s.scope]
  ELSE Fail(s)

Sign(f, args, returns, s) ==
  [s EXCEPT !.sigs = (f.name :> [params |-> args, returns |-> returns]) @@ @]

(* Nothing to go on yet: resolve_cycles comes back to it. *)
Unresolved(f, args, s) ==
  [Sign(f, args, PENDING, s) EXCEPT
     !.unresolved = IF Contains(@, f.name) THEN @ ELSE Append(@, f.name),
     !.signal = "", !.q = PENDING]

(* The body again, with what the first reading found as the answer. *)
Confirmed(q, r) == Yield(r, Provided(IsQuantity(r.q) => r.q = q, q))

SecondPass(f, args, s) ==
  LET found == SelectSeq(s.found, Valued)
  IN  IF found = <<>> THEN Unresolved(f, args, s)
      ELSE Confirmed(found[1], ReadBody(f, args, Sign(f, args, found[1], [s EXCEPT !.signal = ""])))

Inferred(f, args, r) ==
  CASE r.signal = "unresolved" -> SecondPass(f, args, r)
    [] r.signal = "error"      -> r
    [] r.signal = "" /\ r.q = PENDING -> Unresolved(f, args, r)
    [] r.signal = "" /\ r.q # PENDING -> Yield(Sign(f, args, r.q, r), AsVoid(r.q))

InferFunction(f, args, s) ==
  Inferred(f, args, [ReadBody(f, args, [s EXCEPT !.progress = @ \cup {f.name}])
                       EXCEPT !.progress = s.progress])

Noted(path, r) ==
  IF r.signal = "" /\ IsQuantity(r.q) THEN [r EXCEPT !.types = (path :> r.q) @@ @] ELSE r

Visit(node, path, want, s) ==
  IF s.signal # "" THEN s
  ELSE CASE node.kind = "block"    -> Statements(node.body, path, s)
         [] node.kind = "function" -> InferFunction(node.function, node.args, s)
         [] node.kind \in {"let", "assign", "expr", "return", "break", "continue", "for"} ->
              Statement(node, path, s)
         [] OTHER -> Noted(path, Infer(node, path, want, s))

-----------------------------------------------------------------------------
(* The functions that waited on each other, once more in rounds. *)
Waiting(s) == SelectSeq(s.unresolved, LAMBDA name : s.sigs[name].returns = PENDING)

InferAgain(s) ==
  LET again(r, name) ==
        IF r.signal # "" THEN r
        ELSE FunctionOn(r.functions[name], r.sigs[name].params,
                        [r EXCEPT !.sigs = Restrict(@, DOMAIN @ \ {name})])
  IN  FoldLeft(again, s, Waiting(s))

Rounds(s) == FoldLeft(LAMBDA r, n : IF r.signal # "" THEN r ELSE InferAgain(r), s,
                      <<"">> \o s.unresolved)

Resolved(s) == IF s.signal = "" /\ Waiting(s) # <<>> THEN Fail(s) ELSE s
ResolveCycles(s) == Resolved(Rounds(s))

(* The calls that were pending get the type they turned out to have. *)
Settle(s) ==
  [s EXCEPT !.types = [p \in {d[1] : d \in s.deferred} |->
       AsVoid(s.sigs[(CHOOSE d \in s.deferred : d[1] = p)[2]].returns)] @@ @]

Fresh(script) ==
  [types |-> [p \in {} |-> NOTHING], values |-> [p \in {} |-> Whole(0)],
   sigs |-> [n \in {} |-> NOTHING], entries |-> [n \in {} |-> NOTHING],
   functions |-> [n \in {script[k].name : k \in {j \in DOMAIN script : ~script[j].entry}} |->
                    script[CHOOSE k \in DOMAIN script : script[k].name = n]],
   progress |-> {}, unresolved |-> <<>>, deferred |-> {}, returns |-> <<>>,
   depth |-> 0, fixed |-> <<>>, scope |-> [n \in {} |-> NOTHING],
   given |-> <<>>, found |-> <<>>, signal |-> "", q |-> NOTHING]

Entered(name, scope, r) ==
  IF r.signal # "" THEN r
  ELSE [r EXCEPT !.entries = (name :> IF r.q = PENDING THEN NOTHING ELSE r.q) @@ @, !.scope = scope]

Entries(script) ==
  FoldLeft(LAMBDA s, f : IF ~f.entry \/ s.signal # "" THEN s
                         ELSE Entered(f.name, s.scope, Body(f.body, <<f.name>>, s)),
           Fresh(script), script)

Analysed(s) ==
  IF s.signal # "" THEN s
  ELSE IF DOMAIN s.functions # DOMAIN s.sigs THEN Fail(s)
  ELSE Settle(s)

(* _Analyser.run: the entry points, then the cycles; signal says how it
   went. *)
Analyse(script) == Analysed(ResolveCycles(Entries(script)))
=============================================================================
