----------------------------- MODULE MCCompiler -----------------------------
(***************************************************************************)
(* A profile, a registry and families of small scripts, each with the way  *)
(* to its end: every operator on every two kinds of operand, every order   *)
(* of arms, every way out of a loop, circles of calls.  Words are 9 and 18 *)
(* bits wide, and the floats are those of MCFloat.                         *)
(***************************************************************************)
EXTENDS Compiler, MCFloat

Nothing == {[code |-> <<>>, functions |-> <<>>, imports |-> <<>>, constants |-> <<>>, groups |-> {}]}

-----------------------------------------------------------------------------
(* The profile: a temperature that is kept in quarters, a span of time, a
   scale in halves, an angle that wraps, and an instant in an i64. *)
Dimension(type, cyclic, scale) == [type |-> type, cyclic |-> cyclic, scale |-> scale]

ToyDimensions ==
  "temp" :> Dimension(I32, FALSE, FALSE) @@ "span" :> Dimension(I32, FALSE, FALSE)
    @@ "ratio" :> Dimension(F32, FALSE, TRUE) @@ "turn" :> Dimension(I32, TRUE, FALSE)
    @@ "instant" :> Dimension(I64, FALSE, FALSE)

UnitOf(dim, num, den, offset) ==
  [dim |-> dim, factor |-> [num |-> num, den |-> den], offset |-> [num |-> offset, den |-> 1]]

ToyUnits ==
  "C" :> UnitOf("temp", 4, 1, 0) @@ "F" :> UnitOf("temp", 2, 1, -6) @@ "cell" :> UnitOf("temp", 3, 2, 0)
    @@ "s" :> UnitOf("span", 1, 1, 0) @@ "min" :> UnitOf("span", 6, 1, 0)
    @@ "pct" :> UnitOf("ratio", 1, 2, 0) @@ "deg" :> UnitOf("turn", 1, 1, 0)
    @@ "tick" :> UnitOf("instant", 1, 1, 0)

(* What the host offers. *)
EntityOf(quantity) ==
  [kind |-> "entity", quantity |-> quantity, readable |-> TRUE, writable |-> TRUE, params |-> <<>>]

ToyRegistry ==
  "in.i" :> EntityOf(Plain(I32)) @@ "in.l" :> EntityOf(Plain(I64)) @@ "in.f" :> EntityOf(Plain(F32))
    @@ "in.b" :> EntityOf(Plain(BOOL)) @@ "in.temp" :> EntityOf(Quantity(I32, "temp"))
    @@ "in.ratio" :> EntityOf(Quantity(F32, "ratio")) @@ "in.turn" :> EntityOf(Quantity(I32, "turn"))
    @@ "out.i" :> EntityOf(Plain(I32))
    @@ "host.ask" :> [EntityOf(Plain(I32)) EXCEPT !.kind = "function",
                                                  !.params = <<Plain(I32), Plain(BOOL)>>]
    @@ "host.beep" :> [EntityOf(Plain(VOID)) EXCEPT !.kind = "function"]

ToyF32Of(x) == Rounded2(Quotient(2 * x.num, x.den))

SomeReadings == {-256, 0, 3, 255}

-----------------------------------------------------------------------------
(* Trees. *)
Num(n)        == [kind |-> "number", value |-> Whole(n), suffix |-> "", decimal |-> FALSE]
Dec(n, d)     == [Num(0) EXCEPT !.value = Fraction(n, d), !.decimal = TRUE]
In(n, unit)   == [Num(n) EXCEPT !.suffix = unit]
Var(name)     == [kind |-> "name", text |-> name, dotted |-> FALSE]
Host(name)    == [kind |-> "name", text |-> name, dotted |-> TRUE]
True(holds)   == [kind |-> "bool", value |-> holds]
State(name)   == [kind |-> "state", state |-> name]
Op(x, op, y)  == [kind |-> "binary", op |-> op, left |-> x, right |-> y]
Prefix(op, x) == [kind |-> "unary", op |-> op, operand |-> x]
Is(x, state, negated) == [kind |-> "is", operand |-> x, state |-> state, negated |-> negated]
Apply(f, args) == [kind |-> "call", text |-> f, args |-> args]
IfElse(c, then, other) == [kind |-> "if", condition |-> c, then |-> then, otherwise |-> other]
BlockOf(body) == [kind |-> "block", body |-> body]
Match(x, arms) == [kind |-> "match", subject |-> x, arms |-> arms]
Arm(pattern, body) == [pattern |-> pattern, body |-> body]

LetBe(name, x)  == [kind |-> "let", name |-> name, annotation |-> "", value |-> x]
LetOf(name, type, x) == [LetBe(name, x) EXCEPT !.annotation = type]
Set(target, op, x) == [kind |-> "assign", target |-> target, op |-> op, value |-> x]
Do(x)      == [kind |-> "expr", value |-> x]
Give(x)    == [kind |-> "return", value |-> x]
For(variable, low, high, body) ==
  [kind |-> "for", variable |-> variable, low |-> low, high |-> high, body |-> body]

Entry(body) == [name |-> "main", entry |-> TRUE, params |-> <<>>, body |-> body, limit |-> 0]
Fun(name, params, limit, body) ==
  [name |-> name, entry |-> FALSE, limit |-> limit, body |-> body,
   params |-> [n \in DOMAIN params |-> [name |-> params[n], annotation |-> ""]]]

Expression(x) == <<Entry(<<Give(x)>>)>>

-----------------------------------------------------------------------------
(* Every operator on every two operands; most pairs are refused. *)
Operands ==
  {Host(name) : name \in {"in.i", "in.l", "in.f", "in.b", "in.temp", "in.ratio", "in.turn"}}
    \cup {Num(-1), Dec(1, 2), In(2, "F"), In(1, "pct"), True(TRUE)}

Bools == {Host("in.b"), True(TRUE)}

Operators == {"+", "-", "*", "/", "mod", "==", "!=", "<", "<=", ">", ">=", "and", "or", "else",
              "&", "|", "^", "<<", ">>"}

OrderOfBools ==
  {Expression(Op(x, op, y)) : x \in Bools, op \in {"<", "<=", ">", ">="}, y \in Bools}

Operations ==
  {Expression(Op(x, op, y)) : x \in Operands, op \in Operators, y \in Operands} \ OrderOfBools

Ratios == {Host("in.ratio"), In(1, "pct")}
RoundedRatios == {Expression(Apply(f, <<x>>)) : f \in {"round", "trunc"}, x \in Ratios}

UnaryScripts ==
  ({Expression(Prefix(op, x)) : op \in {"-", "not", "~"}, x \in Operands}
    \cup {Expression(Is(x, state, negated)) : x \in {Host("in.i"), Host("in.b")},
             state \in {"valid", "unavailable", "invalid"}, negated \in BOOLEAN}
    \cup {Expression(Apply(f, <<x>>)) : f \in {"abs", "round", "trunc", "to_i32", "to_i64", "to_f32"},
                                       x \in Operands}) \ RoundedRatios

(* Into the dimension system and out of it again, for every whole number from
   -9 to 9. *)
ThereAndBack ==
  LET into == {Apply("to_unit", <<Var("k"), Var(unit)>> \o by) :
                 unit \in {"C", "F", "cell"}, by \in {<<>>, <<Num(2)>>}}
      out(x) == {Apply("to_i32", <<x, Var(unit)>> \o by) :
                   unit \in {"C", "F"}, by \in {<<>>, <<Num(4)>>, <<Dec(1, 2)>>, <<Num(0)>>}}
      all == UNION {out(x) : x \in into}
  IN  {<<Entry(<<For("k", Num(-9), Num(9), <<Set(Host("out.i"), "=", x)>>)>>)>> : x \in all}

(* Out by a third, whose half is no whole number; into parts of zero. *)
OddDivisors == {Expression(Apply("to_i32", <<Host("in.temp"), Var("cell")>>))}
ZeroResolutions == {Expression(Apply("to_unit", <<Num(3), Var("C"), Num(0)>>))}

-----------------------------------------------------------------------------
(* A match on a number: up to three arms in every order, then the rest. *)
Patterns ==
  {[kind |-> "valuePattern", value |-> Num(3)],
   [kind |-> "comparePattern", op |-> ">", value |-> Num(0)],
   [kind |-> "rangePattern", low |-> Num(-1), high |-> Host("in.i")],
   [kind |-> "statePattern", state |-> "unavailable"],
   [kind |-> "statePattern", state |-> "invalid"]}

Otherwise == [kind |-> "elsePattern"]

Arms(patterns) ==
  [n \in 1..Len(patterns) + 1 |->
     IF n > Len(patterns) THEN Arm(Otherwise, Num(0)) ELSE Arm(patterns[n], Num(n))]

Matches ==
  {Expression(Match(Host("in.i"), Arms(patterns))) : patterns \in SeqOf(Patterns, 3)}

ElseFirst == {Expression(Match(Host("in.i"), <<Arm(Otherwise, Num(0)), Arm(p, Num(1))>>)) :
                p \in {q \in Patterns : q.kind # "statePattern"}}

(* On a bool: both values in either order, or one and the rest. *)
Value(holds) == [kind |-> "valuePattern", value |-> True(holds)]
MatchesOfBool ==
  {Expression(Match(Host("in.b"), first \o <<Arm(Value(ends[1]), Num(1)), Arm(ends[2], Num(2))>>)) :
     first \in {<<>>, <<Arm([kind |-> "statePattern", state |-> "invalid"], Num(3))>>},
     ends \in {<<holds, Otherwise>> : holds \in BOOLEAN}
                 \cup {<<holds, Value(~holds)>> : holds \in BOOLEAN}}

(* One value only, and a value that is not written out. *)
BoolsUncovered ==
  {Expression(Match(Host("in.b"), <<Arm(Value(holds), Op(Host("in.i"), "+", Num(1)))>>)) : holds \in BOOLEAN}
BoolsAgainst ==
  {Expression(Match(Host("in.b"), <<Arm([Value(TRUE) EXCEPT !.value = Host("in.b")], Num(1)),
                                    Arm(Otherwise, Num(2))>>))}

(* For what the arms do: with and without an arm for each absence. *)
Beep == Apply("host.beep", <<>>)
MatchesForEffect ==
  {<<Entry(<<Do(Match(Host("in.i"), absences \o
                  <<Arm([kind |-> "valuePattern", value |-> Num(3)], Beep),
                    Arm(Otherwise, IfElse(Host("in.b"), <<Do(Beep)>>, Absent))>>)), Give(Num(1))>>)>> :
     absences \in {[n \in DOMAIN named |-> Arm([kind |-> "statePattern", state |-> named[n]], Beep)] :
                     named \in SeqOf({"unavailable", "invalid"}, 2)}}

-----------------------------------------------------------------------------
(* Ways out of a loop: what an if does in either arm, and what follows. *)
Ways == {<<>>, <<Set(Var("n"), "+", Num(4))>>, <<Set(Host("out.i"), "=", Var("k"))>>,
         <<[kind |-> "break"]>>, <<[kind |-> "continue"]>>, <<Give(Var("k"))>>}

LoopsOut ==
  {<<Entry(<<LetBe("n", Num(0)),
             For("k", Num(1), Num(2),
                 <<Do(IfElse(Host("in.b"), then, other)), Set(Var("n"), "+", Num(1))>> \o after),
             Give(Var("n"))>>)>> :
     then \in Ways, other \in {Absent} \cup {BlockOf(w) : w \in Ways}, after \in Ways}

(* Ends of a range: at the largest i32, from a reading, too far apart. *)
Ranges ==
  {<<Entry(<<LetBe("n", Num(0)),
             For("k", ends[1], ends[2], <<Set(Var("n"), "+", Var("k"))>>),
             Give(Var("n"))>>)>> :
     ends \in {<<Num(253), Host("in.i")>>, <<Host("in.i"), Num(2)>>, <<Num(-3), Host("in.i")>>,
               <<Num(1), Num(254)>>, <<Num(2), Num(1)>>, <<Host("in.i"), Host("in.i")>>}}

(* A loop variable with the name of a variable outside, once and twice. *)
Shadows ==
  {<<Entry(<<LetBe("k", Num(5)), For("k", Num(1), Num(2), body), Set(Var("k"), "+", Num(1)), Give(Var("k"))>>)>> :
     body \in {<<Set(Host("out.i"), "=", Var("k"))>>,
              <<Do(IfElse(Host("in.b"), <<[kind |-> "break"]>>, Absent))>>,
              <<For("k", Num(3), Num(4), <<Set(Host("out.i"), "=", Var("k"))>>),
                Set(Host("out.i"), "=", Var("k"))>>}}

-----------------------------------------------------------------------------
(* Functions: circles of one and of two, with the way out in either arm, under
   limits above and below the depth they reach. *)
Base(n) == Op(Var("n"), "<=", Num(0))
Down(f) == Apply(f, <<Op(Var("n"), "-", Num(1))>>)

(* What a callee returns is handed on, or calculated with. *)
HandedOn(f) ==
  {<<Do(IfElse(Base("n"), <<Give(Num(7))>>, Absent)), Give(Down(f))>>,
   <<Give(Match(Var("n"), <<Arm([kind |-> "comparePattern", op |-> ">", value |-> Num(0)], Down(f)),
                            Arm(Otherwise, Var("n"))>>))>>}

CalculatedWith(f) ==
  {<<Give(IfElse(Base("n"), <<Do(Num(7))>>, BlockOf(<<Do(Op(Down(f), "+", Var("n")))>>)))>>,
   <<Give(IfElse(Op(Var("n"), ">", Num(0)), <<Do(Op(Var("n"), "+", Down(f)))>>, BlockOf(<<Do(Num(7))>>)))>>,
   <<Give(Op(Match(Var("n"), <<Arm([kind |-> "comparePattern", op |-> ">", value |-> Num(1)], Down(f)),
                               Arm(Otherwise, State("invalid"))>>), "else", Num(7)))>>}

Begins == Entry(<<Give(Apply("f", <<Num(3)>>))>>)
Circle(limit, body, other) == <<Begins, Fun("f", <<"n">>, 0, body), Fun("g", <<"n">>, limit, other)>>

Recursions ==
  {<<Begins, Fun("f", <<"n">>, limit, body)>> :
     limit \in {0, 2, 4}, body \in HandedOn("f") \cup CalculatedWith("f")}
    \cup {Circle(limit, body, other) :
     limit \in {0, 2, 4}, body \in HandedOn("g") \cup CalculatedWith("g"), other \in HandedOn("f")}

-----------------------------------------------------------------------------
(* Variables, calls and what the host refuses. *)
Statements ==
  {<<Entry(body)>> : body \in
     {<<LetBe("v", Host("in.i")), Set(Var("v"), op, Num(3)), Set(Host("out.i"), op, Var("v")), Give(Var("v"))>> :
        op \in {"=", "+", "-", "*", "/"}}
     \cup {<<Set(Host("in.ratio"), op, In(1, "pct")), Give(Host("in.ratio"))>> : op \in {"=", "+", "-"}}
     \cup {<<Set(Host("in.temp"), op, In(1, "pct")), Give(Host("in.temp"))>> : op \in {"*", "/"}}
     \cup {<<LetOf("v", type, State(state)), Give(Op(Var("v"), "else", Num(300)))>> :
        type \in {"i32", "i64", "f32", "bool", "temp"}, state \in {"unavailable", "invalid"}}
     \cup {<<Do(Apply("host.ask", <<Host("in.i"), Op(Num(1), "<", Num(2))>>)),
             Do(Apply("host.beep", <<>>)), Give(Num(1))>>,
           <<Do(Apply("host.ask", <<Num(1)>>))>>,
           <<Do(IfElse(Host("in.b"), <<LetBe("v", Num(1)), Set(Host("out.i"), "=", Var("v"))>>,
                       IfElse(Is(Host("in.i"), "valid", FALSE), <<LetBe("v", Num(2)), Set(Host("out.i"), "=", Var("v"))>>,
                              BlockOf(<<Do(Apply("host.beep", <<>>))>>)))),
             LetBe("v", Dec(1, 2)), Give(Var("v"))>>,
           <<Give([kind |-> "duration", parts |-> <<[value |-> Whole(2), suffix |-> "min"],
                                                    [value |-> Whole(3), suffix |-> "s"]>>])>>}}

(* A change of a quantity by a scale, made twice. *)
RelativeAssignments ==
  {<<Entry(<<LetBe("v", Host("in.temp")),
             For("k", Num(1), Num(2), <<Set(Var("v"), op, In(2, "pct"))>>),
             Give(Var("v"))>>)>> : op \in {"+", "-"}}

-----------------------------------------------------------------------------
(* An arm of an if that does not fall through; in LoopsOut there are more. *)
EarlyReturn ==
  {<<Entry(<<Do(IfElse(Host("in.b"), <<Give(Num(1))>>,
                       BlockOf(<<Set(Host("out.i"), "=", Num(2))>>))), Give(Num(3))>>)>>}

(* The second function of a circle calculates with what the first returns. *)
CircleOfSums ==
  {Circle(4, body, other) : body \in HandedOn("g"), other \in CalculatedWith("f")}

(* What the generator ends in an exception for (RefusedByName fails). *)
Tracebacks == CircleOfSums \cup RoundedRatios \cup OddDivisors \cup ZeroResolutions \cup BoolsAgainst

(* What it compiles to something else (RunsAsWritten fails): bools in order, a
   scale added plainly, an else that is not the last arm, a bool one of whose
   values has no arm. *)
Misread ==
  {Expression(Op(True(TRUE), "<", True(TRUE)))} \cup RelativeAssignments \cup ElseFirst \cup BoolsUncovered

(* Everything else. *)
Compiled ==
  UNION {Operations, UnaryScripts, ThereAndBack, Matches, MatchesOfBool, MatchesForEffect,
         LoopsOut, Ranges, Shadows, Recursions, Statements}
=============================================================================
