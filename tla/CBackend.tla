------------------------------ MODULE CBackend ------------------------------
(***************************************************************************)
(* The other lowering of a verified container: the C translation unit that *)
(* cbackend.py generates, as the machine a C compiler makes of it.         *)
(*                                                                         *)
(* Every function record is a C function.  Its locals are pairs l, m of C  *)
(* variables and each position of its operand stack a pair v, s; which     *)
(* position an instruction means is settled by the generator from the      *)
(* depth the verifier found.  A call is a C call, a fault a `goto done`    *)
(* that unwinds one activation at a time, and a recursion cap a static     *)
(* counter that outlives the invocation.                                   *)
(***************************************************************************)
EXTENDS Verify, Ops

VARIABLES
  activations, (* the C functions being executed, innermost last            *)
  label,       (* where the innermost is: its "prologue", its "body", the   *)
               (* label "done"; "idle" when the host has not called         *)
  ok,          (* its variable ok                                           *)
  produced,    (* *result_value and *result_state of the innermost          *)
  raised,      (* the wrapper's variable raised                             *)
  recursion,   (* the static counters                                       *)
  reported,    (* what the wrapper returned, *fault and *result after it    *)
  requested    (* what this invocation asked of the host last, if anything  *)

cVars == <<activations, label, ok, produced, raised, recursion, reported, requested>>

-----------------------------------------------------------------------------
(* _read_slot and _write_slot: a raw slot as the C value of its type. *)
ReadSlot(type, raw) ==
  CASE type = I32  -> AsI32(raw)
    [] type = BOOL -> FromBool(raw # 0)
    [] type = F32  -> AsF32(raw)
    [] type = I64  -> AsI64(raw)

WriteSlot(type, value) ==
  CASE type = I32  -> FromI32(value)
    [] type = BOOL -> FromBool(value # 0)
    [] type = F32  -> AsF32(value)
    [] type = I64  -> FromI64(value)

Crossing(type, raw, state) == [as |-> ReadSlot(type, raw), validity |-> state]

(* The pair of C variables behind a slot or a local. *)
Pair(value, state) == [value |-> value, state |-> state]

DeclaredValid(i, arguments) ==
  LET fn == Fn(container, i)
  IN  [function |-> i,
       pc |-> fn.code_offset,
       local |-> [l \in 0..Len(fn.local_types) - 1 |->
                    IF l < fn.param_count THEN arguments[l] ELSE Pair(0, VALID)],
       slot  |-> [k \in 0..fn.max_stack - 1 |-> Pair(0, VALID)]]

(* _function: the variables it declares.  Parameters come with the call. *)
Declared(i, arguments) ==
  LET fn == Fn(container, i)
  IN  [function |-> i,
       pc |-> fn.code_offset,
       local |-> [l \in 0..Len(fn.local_types) - 1 |->
                    IF l < fn.param_count THEN arguments[l] ELSE Pair(0, UNAVAILABLE)],
       slot  |-> [k \in 0..fn.max_stack - 1 |-> Pair(0, VALID)]]

NothingProduced == Pair(0, UNAVAILABLE)

(* _counters: one per component that has a cap, the cap its first member
   with one declares.  verify settled that the component a record declares
   is the one analyze finds. *)
Capped(k) == \E i \in Functions(container) :
  Fn(container, i).component = k /\ Fn(container, i).recursion_cap # 0

CounterCap(k) ==
  Fn(container, Min({i \in Functions(container) :
       Fn(container, i).component = k /\ Fn(container, i).recursion_cap # 0})).recursion_cap

-----------------------------------------------------------------------------
(* The instruction being executed, and the variables it was lowered to. *)
Innermost == Last(activations)
Lowered   == NameAt(container, Innermost.pc)
Index     == OperandAt(container, Innermost.pc)
Imported    == At(container.imports, Index)
Called    == Fn(container, Index)
Depth     == Len(shapes[Innermost.function][Innermost.pc])
Below(n)  == Innermost.slot[Depth - n]

Executing(names) == label = "body" /\ Lowered \in names

Becomes(frame) == activations' = [activations EXCEPT ![Len(activations)] = frame]

OnTo(frame, pc) ==
  /\ Becomes([frame EXCEPT !.pc = pc])
  /\ UNCHANGED <<label, ok, produced, raised, recursion, reported>>

(* The instruction leaves this frame behind. *)
Then(frame) == OnTo(frame, After(container, Innermost.pc))

Assign(depth, pair) == [Innermost EXCEPT !.slot[depth] = pair]

Raise(kind) ==
  /\ raised' = kind
  /\ label' = "done"
  /\ UNCHANGED <<activations, ok, produced, recursion, reported>>

-----------------------------------------------------------------------------
(* Expressions.  One and two operands, and what is assigned for them. *)
Encoded32(outcome) == Pair(FromI32(outcome[1]), outcome[2])
Encoded64(outcome) == Pair(FromI64(outcome[1]), outcome[2])

Literal ==
  CASE Lowered \in {"const.i32.s8", "const.i32.s16"} -> Pair(FromI32(Index), VALID)
    [] Lowered = "const.i64" -> Pair(FromI64(At(container.constants, Index).value), VALID)
    [] Lowered \in {"const.i32", "const.f32"} ->
         Pair(At(container.constants, Index).value % M32, VALID)
    [] Lowered \in {"const.true", "const.false"} -> Pair(FromBool(Lowered = "const.true"), VALID)
    [] Lowered = "const.unavailable" -> Pair(0, UNAVAILABLE)
    [] Lowered = "const.invalid"     -> Pair(0, INVALID)

Literals == Pool \cup ConstState
              \cup {"const.i32.s8", "const.i32.s16", "const.true", "const.false"}

Unary(a) ==
  CASE Lowered = "neg.i32"    -> Pair(FromI32(Neg(AsI32(a.value), M32)), a.state)
    [] Lowered = "bitnot.i32" -> Pair(FromI32(BitNot(AsI32(a.value))), a.state)
    [] Lowered = "neg.i64"    -> Pair(FromI64(Neg(AsI64(a.value), M64)), a.state)
    [] Lowered = "neg.f32"    -> Pair(F32Neg(AsF32(a.value)), a.state)
    [] Lowered = "not"        -> Pair(FromBool(a.value = 0), a.state)
    [] Lowered = "extend.i32_i64"  -> Pair(FromI64(AsI32(a.value)), a.state)
    [] Lowered = "wrap.i64_i32"    -> Pair(FromI32(a.value), a.state)
    [] Lowered = "convert.i32_f32" -> Pair(AsF32(F32FromInt(AsI32(a.value))), a.state)
    [] Lowered = "convert.i64_f32" -> Pair(AsF32(F32FromInt(AsI64(a.value))), a.state)
    [] Lowered = "trunc.f32_i32"   -> Encoded32(TruncF32(AsF32(a.value), a.state, M32))
    [] Lowered = "trunc.f32_i64"   -> Encoded64(TruncF32(AsF32(a.value), a.state, M64))
    [] Lowered = "is_valid"        -> Pair(FromBool(a.state = VALID), VALID)
    [] Lowered = "is_unavailable"  -> Pair(FromBool(a.state = UNAVAILABLE), VALID)
    [] Lowered = "is_invalid"      -> Pair(FromBool(a.state = INVALID), VALID)

Unaries == {"neg.i32", "bitnot.i32", "neg.i64", "neg.f32", "not", "extend.i32_i64",
            "wrap.i64_i32", "convert.i32_f32", "convert.i64_f32", "trunc.f32_i32",
            "trunc.f32_i64"} \cup Predicate

(* The state is the worse one before a helper may turn it invalid. *)
Binary(a, b) ==
  LET s == Worse(a.state, b.state)
      i32(Helper(_, _)) == Pair(FromI32(Helper(AsI32(a.value), AsI32(b.value))), s)
      i64(Helper(_, _)) == Pair(FromI64(Helper(AsI64(a.value), AsI64(b.value))), s)
  IN  CASE Lowered \in ArithI32   -> i32(LAMBDA x, y : Wrapped(Lowered, x, y, M32))
        [] Lowered \in Bitwise32  -> i32(LAMBDA x, y : Bits(Lowered, x, y))
        [] Lowered \in ArithI64   -> i64(LAMBDA x, y : Wrapped(Lowered, x, y, M64))
        [] Lowered \in DivRemI32  -> Encoded32(DivRem(Lowered, AsI32(a.value), AsI32(b.value), s, M32))
        [] Lowered \in DivRemI64  -> Encoded64(DivRem(Lowered, AsI64(a.value), AsI64(b.value), s, M64))
        [] Lowered = "shl.i32"    -> Encoded32(Shl(AsI32(a.value), AsI32(b.value), s))
        [] Lowered = "shr.i32"    -> Encoded32(Shr(AsI32(a.value), AsI32(b.value), s))
        [] Lowered \in ArithF32   -> Pair(AsF32(F32Arith(Lowered, AsF32(a.value), AsF32(b.value))), s)
        [] Lowered \in CompareI32 -> Pair(FromBool(Compared(Lowered, AsI32(a.value), AsI32(b.value))), s)
        [] Lowered \in CompareI64 -> Pair(FromBool(Compared(Lowered, AsI64(a.value), AsI64(b.value))), s)
        [] Lowered \in CompareF32 -> Pair(FromBool(ComparedF32(Lowered, AsF32(a.value), AsF32(b.value))), s)
        [] Lowered = "and"  -> Pair(FromBool(a.value # 0 /\ b.value # 0), s)
        [] Lowered = "or"   -> Pair(FromBool(a.value # 0 \/ b.value # 0), s)
        [] Lowered = "else" -> IF a.state # VALID THEN b ELSE a

Binaries == ArithI32 \cup Bitwise32 \cup ArithI64 \cup DivRemI32 \cup DivRemI64 \cup Shift32
              \cup ArithF32 \cup CompareI32 \cup CompareI64 \cup CompareF32
              \cup {"and", "or", "else"}

-----------------------------------------------------------------------------
(* Statements, by what they change. *)
Compute ==
  /\ \/ Executing(Literals) /\ Then(Assign(Depth, Literal))
     \/ Executing(Unaries)  /\ Then(Assign(Depth - 1, Unary(Below(1))))
     \/ Executing(Binaries) /\ Then(Assign(Depth - 2, Binary(Below(2), Below(1))))
  /\ UNCHANGED requested

Move ==
  /\ \/ Executing({"load.l"})  /\ Then(Assign(Depth, Innermost.local[Index]))
     \/ Executing({"store.l"}) /\ Then([Innermost EXCEPT !.local[Index] = Below(1)])
     \/ Executing({"dup"})     /\ Then(Assign(Depth, Below(1)))
     \/ Executing({"drop"})    /\ Then(Innermost)
  /\ UNCHANGED requested

(* The host's extern functions; `answer` is what they return. *)
ReadHost(answer) ==
  /\ Executing({"load.h"})
  /\ requested' = <<"read", Index>>
  /\ Then(Assign(Depth, Pair(WriteSlot(Imported.type, answer.value.as), answer.value.validity)))

WriteHost ==
  /\ Executing({"store.h"})
  /\ requested' = <<"write", Index, Crossing(Imported.type, Below(1).value, Below(1).state)>>
  /\ Then(Innermost)

ArgumentsFromTop(n) == [p \in 1..n |->
  LET a == Innermost.slot[Depth - p]
  IN  Crossing(Imported.param_types[p], a.value, a.state)]

Arguments(n) == [p \in 1..n |->
  LET a == Innermost.slot[Depth - n + p - 1]
  IN  Crossing(Imported.param_types[p], a.value, a.state)]

CallHost(answer) ==
  LET n == Len(Imported.param_types)
  IN  /\ Executing({"call.h"})
      /\ requested' = <<"call", Index, Arguments(n)>>
      /\ \/ ~answer.accepted /\ Raise("host_fault")
         \/ /\ answer.accepted /\ Imported.type = VOID
            /\ Then(Innermost)
         \/ /\ answer.accepted /\ Imported.type # VOID
            /\ Then(Assign(Depth - n, Pair(WriteSlot(Imported.type, answer.value.as),
                                           answer.value.validity)))

(* The decrement of the smallest i32 is a signed overflow here too. *)
Guard ==
  /\ Executing({"loop.guard"})
  /\ LET left == AsI32(Innermost.local[Index].value) - 1
     IN  \/ left < 0 /\ Raise("iteration_limit")
         \/ /\ left >= 0 \/ 2 * left < -M32
            /\ Then([Innermost EXCEPT !.local[Index] = Pair(FromI32(left), @.state)])
  /\ UNCHANGED requested

Goto ==
  /\ \/ /\ Executing({"jmp"})
        /\ OnTo(Innermost, Target(container, Innermost.pc))
     \/ /\ Executing({"jmp_if_false", "jmp_if_true"})
        /\ IF Below(1).state # VALID THEN Raise("absent_condition")
           ELSE IF (Lowered = "jmp_if_false") = (Below(1).value = 0)
           THEN OnTo(Innermost, Target(container, Innermost.pc))
           ELSE Then(Innermost)
  /\ UNCHANGED requested

(* The arguments are copied from the caller's slots. *)
CallFunction ==
  /\ Executing({"call"})
  /\ LET low == Depth - Called.param_count
     IN  activations' = Append(activations, Declared(Index,
           [p \in 0..Called.param_count - 1 |-> Innermost.slot[low + p]]))
  /\ label' = "prologue"
  /\ produced' = NothingProduced
  /\ UNCHANGED <<ok, raised, recursion, reported, requested>>

ReturnFrom ==
  /\ Executing(Return)
  /\ produced' = IF Lowered = "ret_v" THEN Below(1) ELSE produced
  /\ ok' = TRUE
  /\ label' = "done"
  /\ UNCHANGED <<activations, raised, recursion, reported, requested>>

-----------------------------------------------------------------------------
(* The counter at the head of a function whose component has a cap. *)
Component0 == Fn(container, Innermost.function).component

Prologue ==
  /\ label = "prologue"
  /\ IF ~Capped(Component0)
     THEN /\ label' = "body"
          /\ UNCHANGED <<activations, ok, produced, raised, recursion, reported>>
     ELSE /\ recursion' = [recursion EXCEPT ![Component0] = @ + 1]
          /\ IF recursion[Component0] + 1 > CounterCap(Component0)
             THEN raised' = "recursion_limit" /\ label' = "done"
             ELSE raised' = raised /\ label' = "body"
          /\ UNCHANGED <<activations, ok, produced, reported>>
  /\ UNCHANGED requested

(* Every path out of a function passes the label, a fault's too. *)
LeftIfOk ==
  IF Capped(Component0) /\ ok THEN [recursion EXCEPT ![Component0] = @ - 1] ELSE recursion

Left ==
  IF Capped(Component0) THEN [recursion EXCEPT ![Component0] = @ - 1] ELSE recursion

BackUnchecked ==
  /\ label = "done" /\ Len(activations) > 1
  /\ recursion' = Left
  /\ LET caller == Last(Front(activations))
         callee == Fn(container, Innermost.function)
         depth  == Len(shapes[caller.function][caller.pc]) - callee.param_count
         taken  == IF callee.return_type = VOID THEN caller
                   ELSE [caller EXCEPT !.slot[depth] = produced]
     IN  IF ok \/ callee.return_type # VOID
         THEN /\ activations' = Append(Front(Front(activations)),
                                  [taken EXCEPT !.pc = After(container, @)])
              /\ label' = "body"
         ELSE /\ activations' = Front(activations)
              /\ label' = "done"
  /\ ok' = FALSE
  /\ UNCHANGED <<produced, raised, reported, requested>>

(* Back in the caller: its slot takes the result, or it goes to its own label. *)
BackInCaller ==
  /\ label = "done" /\ Len(activations) > 1
  /\ recursion' = Left
  /\ LET caller == Last(Front(activations))
         callee == Fn(container, Innermost.function)
         depth  == Len(shapes[caller.function][caller.pc]) - callee.param_count
         taken  == IF callee.return_type = VOID THEN caller
                   ELSE [caller EXCEPT !.slot[depth] = produced]
     IN  IF ok
         THEN /\ activations' = Append(Front(Front(activations)),
                                  [taken EXCEPT !.pc = After(container, @)])
              /\ label' = "body"
         ELSE /\ activations' = Front(activations)
              /\ label' = "done"
  /\ ok' = FALSE
  /\ UNCHANGED <<produced, raised, reported, requested>>

(* Back in the wrapper the host called: it leaves *fault alone unless there
   was one, and *result unless there is one. *)
ReportedAnyway ==
  LET fn == Fn(container, Innermost.function)
  IN  [returned |-> ok,
       fault    |-> IF ok THEN reported.fault ELSE raised,
       result   |-> IF fn.return_type # VOID
                    THEN Crossing(fn.return_type, produced.value, produced.state)
                    ELSE reported.result]

Reported ==
  LET fn == Fn(container, Innermost.function)
  IN  [returned |-> ok,
       fault    |-> IF ok THEN reported.fault ELSE raised,
       result   |-> IF ok /\ fn.return_type # VOID
                    THEN Crossing(fn.return_type, produced.value, produced.state)
                    ELSE reported.result]

BackInWrapper ==
  /\ label = "done" /\ Len(activations) = 1
  /\ recursion' = Left
  /\ reported' = Reported
  /\ activations' = <<>>
  /\ label' = "idle"
  /\ ok' = FALSE
  /\ UNCHANGED <<produced, raised, requested>>

(* The host calls the wrapper of an entry point. *)
CallEntry(entry) ==
  /\ label = "idle"
  /\ Fn(container, entry).invocable
  /\ activations' = <<Declared(entry, <<>>)>>
  /\ label' = "prologue"
  /\ produced' = NothingProduced
  /\ raised' = "no_fault"
  /\ requested' = <<>>
  /\ UNCHANGED <<ok, recursion, reported>>

-----------------------------------------------------------------------------
CInit ==
  /\ activations = <<>>
  /\ label = "idle"
  /\ ok = FALSE
  /\ produced = NothingProduced
  /\ raised = "no_fault"
  /\ recursion = [k \in Functions(container) |-> 0]
  /\ reported = [returned |-> TRUE, fault |-> "no_fault", result |-> <<>>]
  /\ requested = <<>>

(* The statements of one instruction. *)
Body(answer) ==
  \/ Compute \/ Move \/ ReadHost(answer) \/ WriteHost \/ CallHost(answer)
  \/ Guard \/ Goto \/ CallFunction \/ ReturnFrom

(* What C does between two instructions. *)
Convention == Prologue \/ BackInCaller \/ BackInWrapper

-----------------------------------------------------------------------------
(* Properties. *)

(* A static counter is the number of activations of its component that have
   passed their prologue, while calls nest, while a fault unwinds them and
   between invocations, when it is zero: nothing ever resets it. *)
CountersBalanced ==
  \A k \in Functions(container) : Capped(k) =>
    recursion[k] = Cardinality({n \in DOMAIN activations :
      /\ Fn(container, activations[n].function).component = k
      /\ label = "prologue" => n < Len(activations)})
=============================================================================
