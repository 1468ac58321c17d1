------------------------------- MODULE Codegen -------------------------------
(***************************************************************************)
(* Code generation (codegen.py): a typed script becomes a container.       *)
(*                                                                         *)
(* A pass takes the emitter's state and returns it.  The first error stays *)
(* in it: "refused" is a diagnostic, "unforeseen" is an exception, or a    *)
(* diagnostic the source marks as one that cannot happen.  What is emitted *)
(* after an error is of no consequence.                                    *)
(***************************************************************************)
EXTENDS Script, Assembly

CONSTANTS
  Bits32,     (* the width of an i32                                        *)
  BitsShort,  (* the width of a two-byte immediate, no wider than an i32    *)
  F32Of(_)    (* the bits a rational rounds to                              *)

Emit(listing, e) == [e EXCEPT !.buf = @ \o listing]

Stop(how, e)  == IF e.error = "" THEN [e EXCEPT !.error = how] ELSE e
Refuse(e)     == Stop("refused", e)
Unforeseen(e) == Stop("unforeseen", e)

Suffix == I32 :> ".i32" @@ I64 :> ".i64" @@ F32 :> ".f32"

(* The instruction of that name for a type; a bool or a void has none. *)
EmitTyped(name, type, e) ==
  IF type \in DOMAIN Suffix THEN Emit(<<<<name \o Suffix[type]>>>>, e) ELSE Unforeseen(e)

CompareName == "==" :> "eq" @@ "!=" :> "ne" @@ "<" :> "lt" @@ "<=" :> "le"
                 @@ ">" :> "gt" @@ ">=" :> "ge"
BitwiseName == "&" :> "and" @@ "|" :> "or" @@ "^" :> "xor" @@ "<<" :> "shl" @@ ">>" :> "shr"
ArithName == "+" :> "add" @@ "-" :> "sub" @@ "*" :> "mul" @@ "/" :> "div" @@ "mod" :> "rem"

-----------------------------------------------------------------------------
(* A branch is emitted first, and patched when its target is known. *)
Here(e) == Len(e.buf) + 1
PatchTo(at, target, e) == [e EXCEPT !.buf[at] = <<@[1], target>>]

Patch(at, e) == PatchTo(at, Here(e), e)
PatchAll(branches, target, e) == FoldLeft(LAMBDA x, at : PatchTo(at, target, x), e, branches)

(* On the bool on top of the stack. *)
Joined(at, Other(_), then) == Patch(Here(then), Other(Patch(at, Emit(<<<<"jmp", 0>>>>, then))))
Choose(Then(_), Other(_), e) == Joined(Here(e), Other, Then(Emit(<<<<"jmp_if_false", 0>>>>, e)))

(* A lowering that branches on an operand does so only where it is valid. *)
Guarded(slot, Body(_), Absentee(_), e) ==
  Choose(Body, Absentee, Emit(<<<<"load.l", slot>>, <<"is_valid">>>>, e))

-----------------------------------------------------------------------------
(* The shared tables: an entry is added the first time it is used. *)
With(table, entry) == IF Contains(table, entry) THEN table ELSE Append(table, entry)
IndexOf(table, entry) == (CHOOSE n \in DOMAIN table : table[n] = entry) - 1

EmitPooled(type, value, e) ==
  LET entry == [type |-> type, value |-> value]
      pool  == With(e.constants, entry)
  IN  IF IndexOf(pool, entry) > 255 THEN Refuse(e)
      ELSE Emit(<<<<"const" \o Suffix[type], IndexOf(pool, entry)>>>>, [e EXCEPT !.constants = pool])

EmitHost(name, thing, e) ==
  LET imports == With(e.imports, thing)
  IN  IF thing \notin DOMAIN Registry THEN Unforeseen(e)
      ELSE IF Len(imports) > 256 THEN Refuse(e)
      ELSE Emit(<<<<name, IndexOf(imports, thing)>>>>, [e EXCEPT !.imports = imports])

(* Locals: a fresh slot, and a name for it. *)
NewSlot(type, e) ==
  IF Len(e.locals) > 255 THEN Refuse(e) ELSE [e EXCEPT !.locals = Append(@, type)]
Declare(name, type, e) == [NewSlot(type, e) EXCEPT !.scope = (name :> Len(e.locals)) @@ @]

(* What is on the stack goes into a fresh slot, which is the last one. *)
Keep(type, e) == Emit(<<<<"store.l", Len(e.locals)>>>>, NewSlot(type, e))

IsLocal(node, e) == ~node.dotted /\ node.text \in DOMAIN e.scope

Load(node, e) ==
  IF IsLocal(node, e) THEN Emit(<<<<"load.l", e.scope[node.text]>>>>, e)
  ELSE EmitHost("load.h", node.text, e)

-----------------------------------------------------------------------------
(* Literals. *)
Signed(bits) == -2^(bits - 1)..2^(bits - 1) - 1

Immediate(n) == <<IF n \in -128..127 THEN "const.i32.s8" ELSE "const.i32.s16", n>>

PushNumber(value, type, e) ==
  CASE type # F32 /\ value.den # 1 -> Unforeseen(e)
    [] type = I32 /\ value.num \notin Signed(Bits32) /\ value.den = 1 -> Refuse(e)
    [] type # F32 /\ value.den = 1 /\ value.num \in Signed(BitsShort) ->
         Emit(<<Immediate(value.num)>>
                \o (IF type = I64 THEN <<<<"extend.i32_i64">>>> ELSE <<>>), e)
    [] OTHER -> EmitPooled(type, IF type = F32 THEN F32Of(value) ELSE value.num, e)

Conversions ==
  <<I32, F32>> :> "convert.i32_f32" @@ <<F32, I32>> :> "trunc.f32_i32"
    @@ <<I32, I64>> :> "extend.i32_i64" @@ <<I64, I32>> :> "wrap.i64_i32"
    @@ <<I64, F32>> :> "convert.i64_f32" @@ <<F32, I64>> :> "trunc.f32_i64"

Convert(have, want, e) ==
  IF have = want THEN e
  ELSE IF <<have, want>> \in DOMAIN Conversions THEN Emit(<<<<Conversions[<<have, want>>]>>>>, e)
  ELSE Unforeseen(e)

(* f32 rounds to nearest, away from zero on a tie. *)
Truncate(target, e) ==
  IF target \in {I32, I64} THEN Convert(F32, target, e) ELSE Unforeseen(e)

RoundF32(target, e) ==
  LET slot == Len(e.locals)
      nearest(x) ==
        Truncate(target, Emit(<<<<"add.f32">>>>,
          Choose(LAMBDA y : PushNumber(Fraction(1, 2), F32, y),
                 LAMBDA y : PushNumber(Fraction(-1, 2), F32, y),
                 Emit(<<<<"ge.f32">>>>, PushNumber(Whole(0), F32,
                   Emit(<<<<"load.l", slot>>, <<"load.l", slot>>>>, x))))))
      absentee(x) == Truncate(target, Emit(<<<<"load.l", slot>>>>, x))
  IN  Guarded(slot, nearest, absentee, Keep(F32, e))

(* Divide, rounding likewise. *)
RoundInteger(divisor, type, e) ==
  LET slot == Len(e.locals)
      load(x) == Emit(<<<<"load.l", slot>>>>, x)
      divide(x) == EmitTyped("div", type, PushNumber(Whole(divisor), type, x))
      nearest(x) ==
        divide(EmitTyped("add", type,
          Choose(LAMBDA y : PushNumber(Fraction(divisor, 2), type, load(y)),
                 LAMBDA y : PushNumber(Fraction(-divisor, 2), type, load(y)),
                 EmitTyped("ge", type, PushNumber(Whole(0), type, load(x))))))
  IN  Guarded(slot, nearest, LAMBDA x : divide(load(x)), Keep(type, e))

-----------------------------------------------------------------------------
(* Conversions into and out of the dimension system: one exact rational. *)
Resolve(args) == IF Len(args) < 3 THEN Whole(1) ELSE args[3].value

Scaling(args, source) ==
  IF Dimensionless(source) \/ Len(args) < 2 THEN <<Resolve(args), Whole(0)>>
  ELSE <<Over(Resolve(args), Units[args[2].text].factor), Units[args[2].text].offset>>

(* v * scale + addend as (v * N + M) / D, in lowest terms. *)
Terms(scale, addend) ==
  LET n == scale.num * addend.den
      m == addend.num * scale.den
      d == scale.den * addend.den
      common == Gcd(Gcd(Abs(n), Abs(m)), Abs(d))
  IN  [times |-> Fraction(n, common).num, plus |-> Fraction(m, common).num,
       over |-> Fraction(d, common).num]

(* To f32 converts first and scales in decimals; to a whole number scales in
   whole numbers and rounds once, at the divide. *)
Rational(terms, source, target, e) ==
  LET working == IF F32 \in {source, target} THEN F32 ELSE source
      apply(name, n, neutral, x) ==
        IF n = neutral THEN x ELSE EmitTyped(name, working, PushNumber(Whole(n), working, x))
      divide(x) == IF working = F32 \/ terms.over = 1 THEN apply("div", terms.over, 1, x)
                   ELSE RoundInteger(terms.over, working, x)
      finish(x) == IF working = F32 /\ target # F32 THEN RoundF32(target, x)
                   ELSE Convert(working, target, x)
  IN  finish(divide(apply("add", terms.plus, 0,
        apply("mul", terms.times, 1, Convert(source, working, e)))))

-----------------------------------------------------------------------------
(* Everything below a node is lowered by Lower; keep says that the value of an
   expression, or of a block, is wanted. *)
RECURSIVE Lower(_, _, _, _)
Expr(node, path, e) == Lower(node, path, TRUE, e)
Block(block, path, keep, e) == Lower([kind |-> "block", body |-> block], path, keep, e)

TypeAt(path, e) == e.types[path]

(* The types a node's lowering looks up: analysis may not have left them. *)
TypesRead(node, path) ==
  CASE node.kind \in {"number", "duration", "state", "unary", "if"} -> {path}
    [] node.kind = "binary" -> {path, Child(path, 1), Child(path, 2)}
    [] node.kind = "match"  -> {path, Child(path, 1)}
    [] node.kind = "call" /\ node.text \in {"to_i32", "to_i64", "to_f32"} -> {Child(path, 1)}
    [] node.kind = "call" /\ node.text = "to_unit" -> {path, Child(path, 1)}
    [] node.kind = "call" /\ node.text \in {"abs", "round", "trunc"} -> {path}
    [] node.kind \in {"expr", "let"} -> {Child(path, 1)}
    [] node.kind = "assign" /\ node.op # "=" -> {Child(path, 1), Child(path, 2)}
    [] node.kind = "for" -> {Child(path, 1)}
    [] OTHER -> {}

Compilable(node, path, e) == e.error = "" /\ TypesRead(node, path) \subseteq DOMAIN e.types

Both(node, path, e) ==
  Expr(node.right, Child(path, 2), Expr(node.left, Child(path, 1), e))

Widest(types) == CASE F32 \in types -> F32
                   [] F32 \notin types /\ I64 \in types -> I64
                   [] OTHER -> I32

(* Each operand is converted as it lands, to the widest of the two and the
   result. *)
Arith(op, left, leftPath, right, rightPath, result, e) ==
  LET have(path) == TypeAt(path, e).type
      working == Widest({have(leftPath), have(rightPath), result.type})
      a == Convert(have(leftPath), working, Expr(left, leftPath, e))
      b == Convert(have(rightPath), working, Expr(right, rightPath, a))
  IN  IF op = "mod" /\ working = F32 THEN Refuse(e)
      ELSE Convert(working, result.type, EmitTyped(ArithName[op], working, b))

(* x + 5% is x * 105%. *)
RelativeChange(node, path, e) ==
  LET working == TypeAt(Child(path, 2), e).type
      a == Convert(TypeAt(Child(path, 1), e).type, working, Expr(node.left, Child(path, 1), e))
      b == Expr(node.right, Child(path, 2), PushNumber(Whole(1), working, a))
  IN  Convert(working, TypeAt(path, e).type,
        EmitTyped("mul", working, EmitTyped(ArithName[node.op], working, b)))

(* (a and b) or (not a and not b). *)
BoolEquality(node, path, e) ==
  LET left  == Len(e.locals)
      right == left + 1
      a == Expr(node.left, Child(path, 1), NewSlot(BOOL, NewSlot(BOOL, e)))
      b == Expr(node.right, Child(path, 2), Emit(<<<<"store.l", left>>>>, a))
  IN  Emit(<<<<"store.l", right>>, <<"load.l", left>>, <<"load.l", right>>, <<"and">>,
             <<"load.l", left>>, <<"not">>, <<"load.l", right>>, <<"not">>, <<"and">>, <<"or">>>>
             \o (IF node.op = "!=" THEN <<<<"not">>>> ELSE <<>>), b)

(* A cyclic quantity is ordered by its difference against zero. *)
Comparison(node, path, e) ==
  LET q == TypeAt(Child(path, 1), e)
      compare(x) == EmitTyped(CompareName[node.op], q.type, x)
  IN  IF IsCyclic(q) /\ node.op \in {"<", "<=", ">", ">="}
      THEN compare(PushNumber(Whole(0), q.type, EmitTyped("sub", q.type, Both(node, path, e))))
      ELSE compare(Both(node, path, e))

Binary(node, path, e) ==
  LET left   == TypeAt(Child(path, 1), e)
      right  == TypeAt(Child(path, 2), e)
      result == TypeAt(path, e)
  IN  CASE node.op \in {"else", "and", "or"} -> Emit(<<<<node.op>>>>, Both(node, path, e))
        [] node.op \in DOMAIN CompareName ->
             IF left.type = BOOL THEN BoolEquality(node, path, e) ELSE Comparison(node, path, e)
        [] node.op \in DOMAIN BitwiseName ->
             IF result.type # I32 THEN Refuse(e)
             ELSE EmitTyped(BitwiseName[node.op], I32, Both(node, path, e))
        [] node.op \in DOMAIN ArithName ->
             IF node.op \in {"+", "-"} /\ IsScale(right) /\ ~IsScale(left)
             THEN RelativeChange(node, path, e)
             ELSE Arith(node.op, node.left, Child(path, 1), node.right, Child(path, 2), result, e)

Unary(node, path, e) ==
  LET type == TypeAt(path, e).type
      a == Expr(node.operand, Child(path, 1), e)
  IN  CASE node.op = "not" -> Emit(<<<<"not">>>>, a)
        [] node.op = "-"   -> EmitTyped("neg", type, a)
        [] node.op = "~"   -> IF type # I32 THEN Refuse(a) ELSE Emit(<<<<"bitnot.i32">>>>, a)

-----------------------------------------------------------------------------
(* Calls. *)
AbsoluteValue(node, path, e) ==
  LET type == TypeAt(path, e).type
      slot == Len(e.locals)
      load(x) == Emit(<<<<"load.l", slot>>>>, x)
      a == Emit(<<<<"store.l", slot>>>>, Expr(node.args[1], Child(path, 1), NewSlot(type, e)))
      sign(x) == Choose(load, LAMBDA y : EmitTyped("neg", type, load(y)),
                        EmitTyped("ge", type, PushNumber(Whole(0), type, load(x))))
  IN  Guarded(slot, sign, load, a)

Target == "to_i32" :> I32 @@ "to_i64" :> I64 @@ "to_f32" :> F32

Conversion(node, path, target, e) ==
  LET source == TypeAt(Child(path, 1), e)
      by     == Scaling(node.args, source)
      terms  == Terms(by[1], Times(Times(Whole(-1), by[2]), by[1]))
  IN  Rational(terms, source.type, target, Expr(node.args[1], Child(path, 1), e))

(* A resolution of zero ends in a ZeroDivisionError. *)
ToUnit(node, path, e) ==
  LET unit  == Units[node.args[2].text]
      terms == Terms(Over(unit.factor, Resolve(node.args)), unit.offset)
  IN  IF Resolve(node.args).num = 0 THEN Unforeseen(e)
      ELSE Rational(terms, TypeAt(Child(path, 1), e).type, TypeAt(path, e).type,
                    Expr(node.args[1], Child(path, 1), e))

Arguments(node, path, e) ==
  LET after[k \in 0..Len(node.args)] ==
        IF k = 0 THEN e ELSE Expr(node.args[k], Child(path, k), after[k - 1])
  IN  after[Len(node.args)]

Call(node, path, e) ==
  CASE node.text \in DOMAIN Target -> Conversion(node, path, Target[node.text], e)
    [] node.text = "to_unit" -> ToUnit(node, path, e)
    [] node.text = "abs"     -> AbsoluteValue(node, path, e)
    [] node.text = "trunc"   -> Truncate(TypeAt(path, e).type, Expr(node.args[1], Child(path, 1), e))
    [] node.text = "round"   -> RoundF32(TypeAt(path, e).type, Expr(node.args[1], Child(path, 1), e))
    [] node.text \in DOMAIN e.index ->
         [Emit(<<<<"call", e.index[node.text]>>>>, Arguments(node, path, e))
            EXCEPT !.called = @ \cup {<<e.name, node.text>>}]
    [] OTHER -> EmitHost("call.h", node.text, Arguments(node, path, e))

-----------------------------------------------------------------------------
(* if and match. *)
IfExpr(node, path, value, e) ==
  LET test == Emit(<<<<"jmp_if_false", 0>>>>, Expr(node.condition, Child(path, 1), e))
      skip == Here(test) - 1
      then == Block(node.then, Child(path, 2), value, test)
      done == Here(then)
      other == Patch(skip, Emit(<<<<"jmp", 0>>>>, then))
  IN  CASE node.otherwise.kind = "absent" -> Patch(skip, then)
        [] node.otherwise.kind = "if" ->
             Patch(done, Lower([node.otherwise EXCEPT !.kind = "elseif"], Child(path, 3), value, other))
        [] node.otherwise.kind = "block" ->
             Patch(done, Block(node.otherwise.body, Child(path, 3), value, other))

(* The test for one arm: a bool on the stack. *)
Pattern(pattern, path, slot, type, e) ==
  LET load(x) == Emit(<<<<"load.l", slot>>>>, x)
  IN  CASE type = BOOL ->
             IF pattern.kind = "valuePattern" /\ pattern.value.kind = "bool"
             THEN IF pattern.value.value THEN load(e) ELSE Emit(<<<<"not">>>>, load(e))
             ELSE Unforeseen(e)
        [] type # BOOL /\ pattern.kind = "valuePattern" ->
             EmitTyped("eq", type, Expr(pattern.value, Child(path, 1), load(e)))
        [] type # BOOL /\ pattern.kind = "comparePattern" ->
             EmitTyped(CompareName[pattern.op], type, Expr(pattern.value, Child(path, 1), load(e)))
        [] type # BOOL /\ pattern.kind = "rangePattern" ->
             LET low  == EmitTyped("ge", type, Expr(pattern.low, Child(path, 1), load(e)))
                 high == EmitTyped("le", type, Expr(pattern.high, Child(path, 2), load(low)))
             IN  Emit(<<<<"and">>>>, high)
        [] type # BOOL /\ pattern.kind = "elsePattern" -> Unforeseen(e)

(* One rung of the ladder: past a test, the body and the way to the end. *)
Rung(Body(_), e) ==
  LET body == Body(Emit(<<<<"jmp_if_false", 0>>>>, e))
  IN  Patch(Here(e), [Emit(<<<<"jmp", 0>>>>, body) EXCEPT !.ends = Append(@, Here(body))])

(* Validity first; the arm that runs when no other does is not tested. *)
MatchExpr(node, path, e) ==
  LET subject == TypeAt(Child(path, 1), e).type
      slot == Len(e.locals)
      pattern(n) == node.arms[n].pattern
      body(n, x) == Expr(node.arms[n].body, ArmBody(path, n), x)
      arms(P(_)) == SelectSeq([n \in DOMAIN node.arms |-> n], P)
      onState(state, x) ==
        LET named == arms(LAMBDA n : pattern(n).kind = "statePattern" /\ pattern(n).state = state)
        IN  Rung(LAMBDA y : IF named # <<>> THEN body(named[1], y)
                            ELSE Emit(<<<<"const." \o state, TypeAt(path, e).type>>>>, y),
                 Emit(<<<<"load.l", slot>>, <<"is_" \o state>>>>, x))
      tested  == arms(LAMBDA n : pattern(n).kind # "statePattern")
      default == arms(LAMBDA n : pattern(n).kind = "elsePattern")
      last    == IF default # <<>> THEN default[1] ELSE Last(tested)
      onValue(x, n) == Rung(LAMBDA y : body(n, y),
                            Pattern(pattern(n), ArmPattern(path, n), slot, subject, x))
      a == Emit(<<<<"store.l", slot>>>>,
             Expr(node.subject, Child(path, 1), NewSlot(subject, e)))
      b == onState("invalid", onState("unavailable", a))
      c == FoldLeft(onValue, b, SelectSeq(tested, LAMBDA n : n # last))
      d == body(last, c)
  IN  IF tested = <<>> THEN Unforeseen(e)
      ELSE [PatchAll(SubSeq(d.ends, Len(e.ends) + 1, Len(d.ends)), Here(d), d) EXCEPT !.ends = e.ends]

-----------------------------------------------------------------------------
(* Statements. *)
Assign(node, path, e) ==
  LET place == TypeAt(Child(path, 2), e)
      value == IF node.op = "=" THEN Expr(node.value, Child(path, 1), e)
               ELSE Arith(node.op, node.target, Child(path, 2), node.value, Child(path, 1), place, e)
  IN  IF IsLocal(node.target, e) THEN Emit(<<<<"store.l", e.scope[node.target.text]>>>>, value)
      ELSE EmitHost("store.h", node.target.text, value)


(* The guard counts high - low + 1 turns; the variable is stepped before it is
   compared with the end. *)
Back(top, step, e) ==
  LET again == Emit(Append(step, <<"jmp_if_true", top>>), PatchAll(Last(e.loops).continues, Here(e), e))
  IN  PatchAll(<<top - 1>> \o Last(e.loops).breaks, Here(again), again)

Turns(node, path, variable, limit, e) ==
  LET guard == limit + 1
      test  == <<<<"load.l", variable>>, <<"load.l", limit>>, <<"le.i32">>>>
      one   == <<<<"const.i32.s8", 1>>, <<"add.i32">>>>
      head  == Emit(<<<<"store.l", limit>>, <<"load.l", limit>>, <<"load.l", variable>>,
                      <<"sub.i32">>>> \o one \o <<<<"store.l", guard>>>> \o test
                      \o <<<<"jmp_if_false", 0>>, <<"loop.guard", guard>>>>,
                    NewSlot(I32, NewSlot(I32, e)))
      step  == <<<<"load.l", variable>>>> \o one \o <<<<"store.l", variable>>>> \o test
  IN  Back(Here(head) - 1, step,
           Block(node.body, Child(path, 3), FALSE,
                 [head EXCEPT !.loops = Append(@, [breaks |-> <<>>, continues |-> <<>>])]))

ForLoop(node, path, e) ==
  LET low  == Expr(node.low, Child(path, 1), e)
      high == Expr(node.high, Child(path, 2),
                   Emit(<<<<"store.l", Len(low.locals)>>>>, Declare(node.variable, I32, low)))
  IN  IF TypeAt(Child(path, 1), e).type # I32 THEN Refuse(e)
      ELSE [Turns(node, path, Len(low.locals), Len(high.locals), high)
              EXCEPT !.scope = e.scope, !.loops = e.loops]

(* break and continue: a jump the innermost loop patches. *)
Leave(which, e) ==
  IF e.loops = <<>> THEN Unforeseen(e)
  ELSE [Emit(<<<<"jmp", 0>>>>, e) EXCEPT
          !.loops = Append(Front(@), [Last(@) EXCEPT ![which] = Append(@, Here(e))])]

Statement(node, path, keep, e) ==
  LET type == TypeAt(Child(path, 1), e).type
      value == Expr(node.value, Child(path, 1), e)
  IN  CASE node.kind = "let" ->
                  Emit(<<<<"store.l", Len(value.locals)>>>>, Declare(node.name, type, value))
             [] node.kind = "assign" -> Assign(node, path, e)
             [] node.kind = "expr" ->
                  IF type # VOID /\ ~keep THEN Emit(<<<<"drop">>>>, value) ELSE value
             [] node.kind = "return" ->
                  IF node.value = Absent THEN Emit(<<<<"ret">>>>, e) ELSE Emit(<<<<"ret_v">>>>, value)
             [] node.kind = "break"    -> Leave("breaks", e)
             [] node.kind = "continue" -> Leave("continues", e)
             [] node.kind = "for"      -> ForLoop(node, path, e)

Statements(block, path, value, e) ==
  LET after[n \in 0..Len(block)] ==
        IF n = 0 THEN e
        ELSE Lower(block[n], Child(path, n), value /\ n = Len(block), after[n - 1])
      done == [after[Len(block)] EXCEPT !.scope = e.scope]
  IN  IF value /\ (block = <<>> \/ Last(block).kind # "expr") THEN Unforeseen(done) ELSE done

Lower(node, path, keep, e) ==
  IF ~Compilable(node, path, e) THEN Unforeseen(e)
  ELSE CASE node.kind \in {"number", "duration"} ->
              PushNumber(e.values[path], TypeAt(path, e).type, e)
         [] node.kind = "bool"   -> Emit(<<<<IF node.value THEN "const.true" ELSE "const.false">>>>, e)
         [] node.kind = "state"  -> Emit(<<<<"const." \o node.state, TypeAt(path, e).type>>>>, e)
         [] node.kind = "name"   -> Load(node, e)
         [] node.kind = "unary"  -> Unary(node, path, e)
         [] node.kind = "binary" -> Binary(node, path, e)
         [] node.kind = "is" ->
              Emit(<<<<"is_" \o node.state>>>> \o (IF node.negated THEN <<<<"not">>>> ELSE <<>>),
                   Expr(node.operand, Child(path, 1), e))
         [] node.kind = "call"  -> Call(node, path, e)
         [] node.kind = "if"    -> IfExpr(node, path, TypeAt(path, e).type # VOID, e)
         [] node.kind = "match" -> MatchExpr(node, path, e)
         [] node.kind = "elseif" -> IfExpr(node, path, keep, e)
         [] node.kind = "block"  -> Statements(node.body, path, keep, e)
         [] OTHER -> Statement(node, path, keep, e)

-----------------------------------------------------------------------------
(* A whole function: what it gives is left on the stack, or returned on the
   way. *)
Run(function, params, returns, e) ==
  LET start == [e EXCEPT !.buf = <<>>, !.loops = <<>>, !.name = function.name,
                         !.locals = [n \in DOMAIN params |-> params[n].type],
                         !.scope = [x \in {function.params[n].name : n \in DOMAIN params} |->
                           IndexOf([n \in DOMAIN params |-> function.params[n].name], x)]]
      falls == FallsThrough(function.body)
  IN  Emit(IF falls THEN <<<<IF returns # NOTHING THEN "ret_v" ELSE "ret">>>> ELSE <<>>,
           Block(function.body, <<function.name>>, returns # NOTHING /\ falls, start))

TypeOf(q) == IF q = NOTHING THEN VOID ELSE q.type

Recorded(n, function, params, returns, e) ==
  LET listing == Branched(e.buf)
      record == [name |-> n, code_offset |-> Len(e.code), return_type |-> TypeOf(returns),
                 max_stack |-> 0, max_call_depth |-> 0, local_types |-> e.locals,
                 param_count |-> Len(params), invocable |-> function.entry,
                 recursion_cap |-> 0, component |-> 0]
  IN  IF e.error # "" THEN e
      ELSE IF ~Reachable(listing) THEN Unforeseen(e)
      ELSE [e EXCEPT !.code = @ \o Code(listing), !.records = Append(@, record)]

(* One function after the other: entry points first, as the script has them. *)
Emitted(script, a) ==
  LET start == [buf |-> <<>>, locals |-> <<>>, scope |-> <<>>, loops |-> <<>>, ends |-> <<>>,
                name |-> "", called |-> {}, constants |-> <<>>, imports |-> <<>>, error |-> "",
                index |-> [f \in {script[n].name : n \in {m \in DOMAIN script : ~script[m].entry}} |->
                             (CHOOSE n \in DOMAIN script : script[n].name = f) - 1],
                types |-> a.types, values |-> a.values, code |-> <<>>, records |-> <<>>]
      params(f)  == IF f.entry THEN <<>> ELSE a.sigs[f.name].params
      returns(f) == IF f.entry THEN a.entries[f.name] ELSE a.sigs[f.name].returns
      add(e, n) ==
        IF e.error # "" THEN e
        ELSE Recorded(n, script[n], params(script[n]), returns(script[n]),
                      Run(script[n], params(script[n]), returns(script[n]), e))
  IN  FoldLeft(add, start, [n \in DOMAIN script |-> n])

(* One limit per circle of calls, stated on any of its functions, and none
   outside one. *)
RECURSIVE Closure(_)
Closure(R) ==
  LET longer == R \cup {<<p[1], q[2]>> : <<p, q>> \in {x \in R \X R : x[1][2] = x[2][1]}}
  IN  IF longer = R THEN R ELSE Closure(longer)

Circle(called, f) ==
  {f} \cup {g \in {p[2] : p \in called} : {<<f, g>>, <<g, f>>} \subseteq Closure(called)}

Stated(script, circle) ==
  {script[n].limit : n \in {m \in DOMAIN script : script[m].name \in circle}} \ {0}

CapsAgree(script, called) ==
  \A n \in DOMAIN script :
    LET f == script[n].name
    IN  Cardinality(Stated(script, Circle(called, f))) = IF <<f, f>> \in Closure(called) THEN 1 ELSE 0

Cap(script, called, f) ==
  LET stated == Stated(script, Circle(called, f)) IN IF stated = {} THEN 0 ELSE CHOOSE n \in stated : TRUE

(* The groups the instructions are in. *)
RECURSIVE GroupsUsed(_, _)
GroupsUsed(code, pc) ==
  IF pc >= Len(code) THEN {}
  ELSE {GroupOf(At(code, pc))} \cup AlsoNeeds(Mnemonic(At(code, pc)))
         \cup GroupsUsed(code, pc + Size(Mnemonic(At(code, pc))))

HostRecord(name) ==
  LET thing == Registry[name]
  IN  [kind |-> thing.kind, readable |-> thing.readable, writable |-> thing.writable,
       type |-> thing.quantity.type, param_types |-> [n \in DOMAIN thing.params |-> thing.params[n].type]]

(* Up to the facts the verifier's own analysis declares. *)
Linked(script, e) ==
  LET capped(n) == [e.records[n] EXCEPT !.recursion_cap = Cap(script, e.called, script[n].name)]
  IN  [error |-> IF e.error = "" /\ ~CapsAgree(script, e.called) THEN "refused" ELSE e.error,
       names |-> e.imports,
       circles |-> [f \in {script[n].name : n \in DOMAIN script} |->
         [members |-> Circle(e.called, f), cap |-> Cap(script, e.called, f)]],
       container |->
         [code |-> e.code, constants |-> e.constants, groups |-> GroupsUsed(e.code, 0),
          functions |-> [n \in DOMAIN e.records |-> capped(n)],
          imports |-> [n \in DOMAIN e.imports |-> HostRecord(e.imports[n])]]]

Generate(script, a) == Linked(script, Emitted(script, a))
=============================================================================
