------------------------------- MODULE Meaning -------------------------------
(***************************************************************************)
(* What a script means, with no container in sight: the tree, evaluated on *)
(* the answers the host has given so far.  Evaluation runs until it needs  *)
(* an answer nobody gave yet, or to the end.                               *)
(*                                                                         *)
(* Abstractly a script in execution is a dialogue: it asks the host one    *)
(* thing after the other, as its meaning on the answers so far says, and   *)
(* then ends as its meaning says.  That is the specification Dialogue, and *)
(* module Compiler shows that compiling, verifying, loading and            *)
(* interpreting implement it.                                              *)
(***************************************************************************)
EXTENDS Script, Ops

CONSTANT F32Of(_)

VARIABLES
  meant,    (* the analysed script that runs, and the entry point           *)
  heard,    (* the host's answers so far                                    *)
  told,     (* what it was asked                                            *)
  outcome   (* <<>>, or how the execution ended                             *)

(* An evaluation: q is the value in hand, <<payload, validity>>, as the type
   of the node says: a number, the bits of an f32, or a Boolean. *)
Go(m) == m.signal = ""
Give(q, m) == IF Go(m) THEN [m EXCEPT !.q = q] ELSE m
Then(F(_), m) == IF Go(m) THEN [m EXCEPT !.q = F(@)] ELSE m
Fault(kind, m) == [m EXCEPT !.signal = kind]

(* The host is asked, and answers. *)
Ask(request, m) ==
  LET asking == [m EXCEPT !.told = Append(@, request)]
  IN  IF ~Go(m) THEN m
      ELSE IF m.heard = <<>> THEN Fault("waiting", asking)
      ELSE [asking EXCEPT !.heard = Tail(@), !.q = Head(m.heard)]

(* What the host sees of a value: its payload only if it is valid. *)
Shown(q) == [validity |-> q[2], payload |-> IF q[2] = VALID THEN {q[1]} ELSE {}]

-----------------------------------------------------------------------------
(* Operations on values; what is absent spreads, the worse state winning. *)
Modulus(type) == IF type = I32 THEN M32 ELSE M64

Cast(have, want, q) ==
  CASE have = want -> q
    [] have # want /\ want = F32 -> <<F32FromInt(q[1]), q[2]>>
    [] have = F32 /\ want # F32  -> TruncF32(q[1], q[2], Modulus(want))
    [] OTHER -> <<Signed(q[1], Modulus(want)), q[2]>>

Literal(value, type) == IF type = F32 THEN F32Of(value) ELSE value.num

Calculated(op, type, x, y) ==
  LET state == Worse(x[2], y[2])
      named(base) == base \o (IF type = I32 THEN ".i32" ELSE ".i64")
  IN  IF type = F32
      THEN <<F32Arith(CASE op = "+" -> "add.f32" [] op = "-" -> "sub.f32"
                        [] op = "*" -> "mul.f32" [] op = "/" -> "div.f32", x[1], y[1]), state>>
      ELSE CASE op = "+" -> <<Signed(x[1] + y[1], Modulus(type)), state>>
             [] op = "-" -> <<Signed(x[1] - y[1], Modulus(type)), state>>
             [] op = "*" -> <<Signed(x[1] * y[1], Modulus(type)), state>>
             [] op = "/" -> Div(x[1], y[1], state, Modulus(type))
             [] op = "mod" -> Rem(x[1], y[1], state, Modulus(type))

Ordered(op, type, a, b) ==
  LET less(x, y)  == CASE type = F32  -> F32Less(x, y)
                       [] type = BOOL -> ~x /\ y
                       [] OTHER       -> x < y
      equal(x, y) == IF type = F32 THEN F32Equal(x, y) ELSE x = y
  IN  CASE op = "==" -> equal(a, b)
        [] op = "!=" -> ~equal(a, b)
        [] op = "<"  -> less(a, b)
        [] op = "<=" -> less(a, b) \/ equal(a, b)
        [] op = ">"  -> less(b, a)
        [] op = ">=" -> less(b, a) \/ equal(a, b)

(* On a cycle, what is ahead is what is less than half a turn away. *)
Related(op, quantity, x, y) ==
  <<IF IsCyclic(quantity) /\ op \notin {"==", "!="}
    THEN Ordered(op, quantity.type, Signed(x[1] - y[1], Modulus(quantity.type)), 0)
    ELSE Ordered(op, quantity.type, x[1], y[1]),
    Worse(x[2], y[2])>>

Bitwise(op, x, y) ==
  LET state == Worse(x[2], y[2])
  IN  CASE op = "&"  -> <<Bits("and.i32", x[1], y[1]), state>>
        [] op = "|"  -> <<Bits("or.i32", x[1], y[1]), state>>
        [] op = "^"  -> <<Bits("xor.i32", x[1], y[1]), state>>
        [] op = "<<" -> Shl(x[1], y[1], state)
        [] op = ">>" -> Shr(x[1], y[1], state)

Widened(a, b, c) == IF F32 \in {a, b, c} THEN F32 ELSE IF I64 \in {a, b, c} THEN I64 ELSE I32

(* left op right, in the widest of the three types; a change of a scale is
   relative. *)
Operated(op, left, right, result, x, y) ==
  LET wide == Widened(left.type, right.type, result.type)
      one  == <<Literal(Whole(1), wide), VALID>>
      by   == IF op \in {"+", "-"} /\ IsScale(right) /\ ~IsScale(left)
              THEN [op |-> "*", y |-> Calculated(op, wide, one, y)]
              ELSE [op |-> op, y |-> Cast(right.type, wide, y)]
  IN  Cast(wide, result.type, Calculated(by.op, wide, Cast(left.type, wide, x), by.y))

(* The nearest whole number, away from zero on a tie. *)
NearestOf(f) == IF f.num < 0 THEN -((2 * (-f.num) + f.den) \div (2 * f.den))
                ELSE (2 * f.num + f.den) \div (2 * f.den)

NearestF32(type, q) ==
  LET half == F32Of(Fraction(IF Ordered(">=", F32, q[1], F32Of(Whole(0))) THEN 1 ELSE -1, 2))
  IN  TruncF32(F32Arith("add.f32", q[1], half), q[2], Modulus(type))

(* v * scale + addend, scaled in decimals if either side is a decimal. *)
Scaled(scale, addend, have, want, q) ==
  LET exact == Plus(Times(Whole(q[1]), scale), addend)
      part(name, n, x) == <<F32Arith(name, x[1], F32Of(Whole(n))), x[2]>>
      d == scale.den * addend.den
      n == scale.num * addend.den
      k == addend.num * scale.den
      g == Gcd(Gcd(Abs(n), Abs(k)), d)
      a == IF n = g THEN Cast(have, F32, q) ELSE part("mul.f32", n \div g, Cast(have, F32, q))
      b == IF k = 0 THEN a ELSE part("add.f32", k \div g, a)
      c == IF d = g THEN b ELSE part("div.f32", d \div g, b)
  IN  IF F32 \notin {have, want} THEN <<Signed(NearestOf(exact), Modulus(want)), q[2]>>
      ELSE IF want = F32 THEN c ELSE NearestF32(want, c)

-----------------------------------------------------------------------------
RECURSIVE Eval(_, _, _), Perform(_, _, _), Performed(_, _, _), Turns(_, _, _, _, _)

Typed(path, m) == m.types[path]

Two(left, leftPath, right, rightPath, m) ==
  LET a == Eval(left, leftPath, m)
      b == Eval(right, rightPath, a)
  IN  Give(<<a.q, b.q>>, b)

InTurn(args, path, m) ==
  LET after[k \in 0..Len(args)] ==
        IF k = 0 THEN [state |-> m, given |-> <<>>]
        ELSE LET r == Eval(args[k], Child(path, k), after[k - 1].state)
             IN  [state |-> r, given |-> Append(after[k - 1].given, r.q)]
  IN  Give(after[Len(args)].given, after[Len(args)].state)

Read(node, m) ==
  IF ~node.dotted /\ node.text \in DOMAIN m.env THEN Give(m.env[node.text], m)
  ELSE Ask(<<"read", node.text>>, m)

BinaryMeans(node, path, m) ==
  LET left  == Typed(Child(path, 1), m)
      right == Typed(Child(path, 2), m)
      means(q) ==
        LET x == q[1]
            y == q[2]
            state == Worse(x[2], y[2])
        IN  CASE node.op = "else" -> IF x[2] = VALID THEN x ELSE y
              [] node.op = "and"  -> <<x[1] /\ y[1], state>>
              [] node.op = "or"   -> <<x[1] \/ y[1], state>>
              [] node.op \in {"==", "!=", "<", "<=", ">", ">="} -> Related(node.op, left, x, y)
              [] node.op \in {"&", "|", "^", "<<", ">>"} -> Bitwise(node.op, x, y)
              [] OTHER -> Operated(node.op, left, right, Typed(path, m), x, y)
  IN  Then(means, Two(node.left, Child(path, 1), node.right, Child(path, 2), m))

UnaryMeans(node, path, m) ==
  LET type == Typed(path, m).type
      means(q) ==
        CASE node.op = "not" -> <<~q[1], q[2]>>
          [] node.op = "-"   -> <<IF type = F32 THEN F32Neg(q[1]) ELSE Neg(q[1], Modulus(type)), q[2]>>
          [] node.op = "~"   -> <<BitNot(q[1]), q[2]>>
  IN  Then(means, Eval(node.operand, Child(path, 1), m))

(* abs, round, trunc, to_...: the first argument is the only one evaluated. *)
BuiltIn(node, path, m) ==
  LET have == Typed(Child(path, 1), m)
      want == Typed(path, m)
      resolution == IF Len(node.args) = 3 THEN node.args[3].value ELSE Whole(1)
      unit == Units[node.args[2].text]
      out  == IF Dimensionless(have) \/ Len(node.args) = 1 THEN resolution
              ELSE Over(resolution, unit.factor)
      back == IF Dimensionless(have) \/ Len(node.args) = 1 THEN Whole(0)
              ELSE Times(Times(Whole(-1), unit.offset), out)
      positive(q) == Ordered(">=", want.type, q[1], Literal(Whole(0), want.type))
      means(q) ==
        CASE node.text = "abs"     -> IF positive(q) THEN q
                                      ELSE IF want.type = F32 THEN <<F32Neg(q[1]), q[2]>>
                                      ELSE <<Neg(q[1], Modulus(want.type)), q[2]>>
          [] node.text = "round"   -> NearestF32(want.type, q)
          [] node.text = "trunc"   -> Cast(F32, want.type, q)
          [] node.text = "to_unit" -> Scaled(Over(unit.factor, resolution), unit.offset,
                                             have.type, want.type, q)
          [] OTHER -> Scaled(out, back, have.type, want.type, q)
  IN  Then(means, Eval(node.args[1], Child(path, 1), m))

(* One call of a function of the script; a circle of calls is entered at most
   as often at once as its limit says. *)
FunctionMeans(f, given, m) ==
  LET circle == m.circles[f.name]
      inside == {n \in DOMAIN m.live : m.live[n] \in circle.members}
      entered == [m EXCEPT !.live = Append(@, f.name),
                           !.env = [x \in {f.params[n].name : n \in DOMAIN f.params} |->
                              given[CHOOSE n \in DOMAIN given : f.params[n].name = x]]]
      r == Performed(f.body, <<f.name>>, entered)
  IN  IF ~Go(m) THEN m
      ELSE IF circle.cap # 0 /\ Cardinality(inside) >= circle.cap
      THEN Fault("recursion_limit", m)
      ELSE [r EXCEPT !.live = m.live, !.env = m.env,
                     !.signal = IF @ = "return" THEN "" ELSE @]

CallMeans(node, path, m) ==
  LET given == InTurn(node.args, path, m)
      shown == [k \in DOMAIN node.args |-> Shown(given.q[k])]
  IN  IF node.text \in {"abs", "round", "trunc", "to_i32", "to_i64", "to_f32", "to_unit"}
      THEN BuiltIn(node, path, m)
      ELSE IF node.text \in DOMAIN m.functions
      THEN FunctionMeans(m.functions[node.text], given.q, given)
      ELSE IF Go(given) THEN Ask(<<"call", node.text, shown>>, given) ELSE given

-----------------------------------------------------------------------------
(* A condition has to be there to decide anything. *)
Decide(m) == IF Go(m) /\ m.q[2] # VALID THEN Fault("absent_condition", m) ELSE m

IfMeans(node, path, m) ==
  LET test == Decide(Eval(node.condition, Child(path, 1), m))
  IN  IF ~Go(test) THEN test
      ELSE IF test.q[1] THEN Performed(node.then, Child(path, 2), test)
      ELSE CASE node.otherwise.kind = "absent" -> test
             [] node.otherwise.kind = "if"     -> Eval(node.otherwise, Child(path, 3), test)
             [] node.otherwise.kind = "block"  -> Performed(node.otherwise.body, Child(path, 3), test)

(* Whether a pattern holds of the subject. *)
Holds(pattern, path, quantity, subject, m) ==
  LET against(op, value, n, r) ==
        Then(LAMBDA q : <<Ordered(op, quantity.type, subject[1], q[1]), Worse(subject[2], q[2])>>,
             Eval(value, Child(path, n), r))
      low  == against(">=", pattern.low, 1, m)
      high == against("<=", pattern.high, 2, low)
  IN  CASE pattern.kind = "elsePattern"    -> Give(<<TRUE, VALID>>, m)
        [] pattern.kind = "statePattern"   -> Give(<<FALSE, VALID>>, m)
        [] pattern.kind = "valuePattern"   -> Decide(against("==", pattern.value, 1, m))
        [] pattern.kind = "comparePattern" -> Decide(against(pattern.op, pattern.value, 1, m))
        [] pattern.kind = "rangePattern"   ->
             Decide(Give(<<low.q[1] /\ high.q[1], Worse(low.q[2], high.q[2])>>, high))

(* A subject that is absent goes to the arm of its state, or through; one that
   is there to the first arm that holds. *)
RECURSIVE FirstArm(_, _, _, _, _)
FirstArm(node, path, n, subject, m) ==
  LET test == Holds(node.arms[n].pattern, ArmPattern(path, n), Typed(Child(path, 1), m), subject, m)
  IN  IF n > Len(node.arms) THEN Fault("unmatched", m)
      ELSE IF ~Go(test) THEN test
      ELSE IF test.q[1] THEN Eval(node.arms[n].body, ArmBody(path, n), test)
      ELSE FirstArm(node, path, n + 1, subject, test)

MatchMeans(node, path, m) ==
  LET s == Eval(node.subject, Child(path, 1), m)
      state == IF s.q[2] = INVALID THEN "invalid" ELSE "unavailable"
      named == {n \in DOMAIN node.arms : node.arms[n].pattern.kind = "statePattern"
                                           /\ node.arms[n].pattern.state = state}
  IN  IF ~Go(s) THEN s
      ELSE IF s.q[2] = VALID THEN FirstArm(node, path, 1, s.q, s)
      ELSE IF named # {} THEN Eval(node.arms[Min(named)].body, ArmBody(path, Min(named)), s)
      ELSE Give(<<0, s.q[2]>>, s)

Eval(node, path, m) ==
  IF ~Go(m) THEN m
  ELSE CASE node.kind \in {"number", "duration"} ->
              Give(<<Literal(m.values[path], Typed(path, m).type), VALID>>, m)
         [] node.kind = "bool"   -> Give(<<node.value, VALID>>, m)
         [] node.kind = "state"  -> Give(<<0, IF node.state = "invalid" THEN INVALID
                                              ELSE UNAVAILABLE>>, m)
         [] node.kind = "name"   -> Read(node, m)
         [] node.kind = "unary"  -> UnaryMeans(node, path, m)
         [] node.kind = "binary" -> BinaryMeans(node, path, m)
         [] node.kind = "is" ->
              Then(LAMBDA q : <<(q[2] = CASE node.state = "valid" -> VALID
                                          [] node.state = "unavailable" -> UNAVAILABLE
                                          [] node.state = "invalid" -> INVALID) # node.negated, VALID>>,
                   Eval(node.operand, Child(path, 1), m))
         [] node.kind = "call"  -> CallMeans(node, path, m)
         [] node.kind = "if"    -> IfMeans(node, path, m)
         [] node.kind = "match" -> MatchMeans(node, path, m)

-----------------------------------------------------------------------------
(* Statements. *)
Assigned(node, path, m) ==
  LET place == Typed(Child(path, 2), m)
      value == IF node.op = "=" THEN Eval(node.value, Child(path, 1), m)
               ELSE Then(LAMBDA q : Operated(node.op, place, Typed(Child(path, 1), m), place, q[1], q[2]),
                         Two(node.target, Child(path, 2), node.value, Child(path, 1), m))
  IN  IF ~Go(value) THEN value
      ELSE IF ~node.target.dotted /\ node.target.text \in DOMAIN m.env
      THEN [value EXCEPT !.env[node.target.text] = value.q]
      ELSE Ask(<<"write", node.target.text, Shown(value.q)>>, value)

(* One turn for every i32 from one end to the other.  The counter that bounds
   the turns is an i32 as well: a range of more turns than that has none, and
   one that ends at the largest i32 faults after its last.  The variable is
   the loop's own: a variable outside it with the same name is not touched. *)
Turns(node, path, i, high, m) ==
  LET r == Performed(node.body, Child(path, 3), [m EXCEPT !.env = (node.variable :> <<i, VALID>>) @@ @])
      outer == [x \in DOMAIN m.env |-> IF x = node.variable THEN m.env[x] ELSE r.env[x]]
      on == [r EXCEPT !.env = outer, !.signal = IF @ = "continue" THEN "" ELSE @]
  IN  IF on.signal = "break" THEN [on EXCEPT !.signal = ""]
      ELSE IF ~Go(on) \/ i = high
      THEN IF Go(on) /\ 2 * high + 2 = M32 THEN Fault("iteration_limit", on) ELSE on
      ELSE Turns(node, path, i + 1, high, on)

ForMeans(node, path, m) ==
  LET ends == Two(node.low, Child(path, 1), node.high, Child(path, 2), m)
      low  == ends.q[1]
      high == ends.q[2]
  IN  IF ~Go(ends) THEN ends
      ELSE IF Worse(low[2], high[2]) # VALID THEN Fault("absent_condition", ends)
      ELSE IF low[1] > high[1] THEN ends
      ELSE IF 2 * (high[1] - low[1] + 1) >= M32 THEN Fault("iteration_limit", ends)
      ELSE Turns(node, path, low[1], high[1], ends)

Perform(node, path, m) ==
  IF ~Go(m) THEN m
  ELSE CASE node.kind = "let" ->
              LET r == Eval(node.value, Child(path, 1), m)
              IN  IF Go(r) THEN [r EXCEPT !.env = (node.name :> r.q) @@ @] ELSE r
         [] node.kind = "assign" -> Assigned(node, path, m)
         [] node.kind = "expr"   -> Eval(node.value, Child(path, 1), m)
         [] node.kind = "return" ->
              LET r == IF node.value = Absent THEN m ELSE Eval(node.value, Child(path, 1), m)
              IN  IF Go(r) THEN [r EXCEPT !.signal = "return"] ELSE r
         [] node.kind \in {"break", "continue"} -> Fault(node.kind, m)
         [] node.kind = "for" -> ForMeans(node, path, m)

(* A block: its last value, and the variables that were there before. *)
Performed(block, path, m) ==
  LET after[n \in 0..Len(block)] ==
        IF n = 0 THEN m ELSE Perform(block[n], Child(path, n), after[n - 1])
      done == after[Len(block)]
  IN  [done EXCEPT !.env = Restrict(@, DOMAIN m.env)]

-----------------------------------------------------------------------------
(* The meaning of what runs, on answers. *)
Meaning(what, answers) ==
  LET script == what.script
      start == [heard |-> answers, told |-> <<>>, env |-> [x \in {} |-> 0], live |-> <<>>,
                signal |-> "", q |-> <<0, VALID>>, types |-> what.types, values |-> what.values,
                circles |-> what.circles,
                functions |-> [f \in {script[n].name : n \in {k \in DOMAIN script : ~script[k].entry}} |->
                                 script[CHOOSE n \in DOMAIN script : script[n].name = f]]]
      r == Performed(script[what.entry].body, <<script[what.entry].name>>, start)
      returns == what.entries[script[what.entry].name]
  IN  [told |-> r.told,
       outcome |-> CASE r.signal = "waiting"        -> <<>>
                     [] r.signal \in {"", "return"} ->
                          <<"returned", IF returns = NOTHING THEN <<>> ELSE Shown(r.q)>>
                     [] OTHER                       -> <<r.signal>>]

-----------------------------------------------------------------------------
dialogueVars == <<heard, told, outcome>>

Begin == heard = <<>> /\ told = <<>> /\ outcome = <<>>

(* The next request, and the answer; the host may refuse a call. *)
Converse ==
  /\ told' # told
  /\ outcome = <<>>
  /\ LET m == Meaning(meant, heard)
     IN  m.outcome = <<>> /\ told' = m.told
  /\ \/ Front(heard') = heard /\ outcome' = <<>>
     \/ Last(told')[1] = "call" /\ heard' = heard /\ outcome' = <<"host_fault">>

End ==
  /\ outcome' # outcome
  /\ outcome = <<>>
  /\ outcome' = Meaning(meant, heard).outcome
  /\ UNCHANGED <<told, heard>>

Dialogue == Begin /\ [][Converse \/ End]_dialogueVars
=============================================================================
