--------------------------------- MODULE Vm ---------------------------------
(***************************************************************************)
(* The interpreter (runtime/src/vm.c, mcuscript_invoke) running a program  *)
(* the loader has linked (runtime/src/load.c).                             *)
(*                                                                         *)
(* One action per group of cases of the dispatch loop.  The loop has no    *)
(* bounds check, so an access outside the slot buffer, the code, a table   *)
(* or the array of frames is undefined: the action Stray stands for        *)
(* whatever the build then does.                                           *)
(***************************************************************************)
EXTENDS Container, Ops

CONSTANTS
  Groups,        (* MCUSCRIPT_GROUPS: the groups compiled in                *)
  MaxSlots,      (* MCUSCRIPT_MAX_SLOTS                                     *)
  MaxCallDepth,  (* MCUSCRIPT_MAX_CALL_DEPTH                                *)
  Readings       (* what a host may put into a value it hands over          *)

ASSUME VmAssumption ==
  /\ Groups \in SUBSET Group
  /\ MaxSlots \in Nat /\ MaxCallDepth \in Nat
  /\ Readings \subseteq Int

VARIABLES
  status,    (* "unloaded", "refused" by the loader, "idle", "running", or  *)
             (* "stray" after an undefined access                           *)
  returned,  (* what mcuscript_invoke returned last; TRUE before the first  *)
  fault,     (* the caller's *fault                                         *)
  result,    (* the caller's *result, empty until one was written           *)
  current, pc, base, sp,  (* registers of the running invocation            *)
  frames,    (* the callers' [return_pc, base, function], outermost first   *)
  counters,  (* entries into each call-graph component                      *)
  values, states,  (* the slot buffer the caller hands over                 *)
  asked      (* what this invocation asked of the host last, if anything    *)

report    == <<returned, fault, result>>
frameVars == <<current, base, frames, counters>>
slots     == <<values, states>>
vmVars    == <<status, report, frameVars, pc, sp, slots, asked>>

Slot == 0..MaxSlots - 1

(* A buffer nobody has cleared holds anything: these bytes stand for it, a
   value that is canonical only for an i64 and a validity no operation
   produces. *)
Leftover(buffer) ==
  [n \in Slot |-> IF buffer = "values" THEN M64 - 1 ELSE 255]

-----------------------------------------------------------------------------
(* A value crossing to and from the host: the member of the union its type
   selects, and its validity. *)
SlotToValue(type, raw, state) ==
  [as |-> CASE type = I32  -> AsI32(raw)
            [] type = BOOL -> FromBool(raw # 0)
            [] type = F32  -> AsF32(raw)
            [] OTHER       -> AsI64(raw),
   validity |-> state]

ValueToSlot(type, value) ==
  CASE type = I32  -> FromI32(value.as)
    [] type = BOOL -> FromBool(value.as # 0)
    [] type = F32  -> AsF32(value.as)
    [] OTHER       -> FromI64(value.as)

HostValue == [as: Readings, validity: Validity]

(* load_functions: a component's cap is the one its last member declares. *)
ComponentCap(k) ==
  LET members == {i \in Functions(container) : Fn(container, i).component = k}
  IN  IF members = {} THEN 0 ELSE Fn(container, Max(members)).recursion_cap

-----------------------------------------------------------------------------
(* The instruction at pc. *)
Name == NameAt(container, pc)
Arg  == OperandAt(container, pc)
Imp  == At(container.imports, Arg)
Callee == Fn(container, Arg)

OverCapAfter ==
  LET cap == ComponentCap(Callee.component)
  IN  cap # 0 /\ counters[Callee.component] > cap

(* The call would be one entry too many into the callee's component. *)
OverCap ==
  LET cap == ComponentCap(Callee.component)
  IN  cap # 0 /\ counters[Callee.component] + 1 > cap

InCode == pc \in 0..Len(container.code) - 1

(* The switch has a case for it: its group, and for the conversions between
   i64 and f32 both groups, are compiled in. *)
Dispatched ==
  /\ Name # "undefined"
  /\ GroupOf(At(container.code, pc)) \in Groups
  /\ AlsoNeeds(Name) \subseteq Groups

(* The slots the handler reads and writes. *)
Touched ==
  CASE Name = "load.l"  -> {base + Arg, sp}
    [] Name = "store.l" -> {base + Arg, sp - 1}
    [] Name = "load.h"  -> {sp}
    [] Name = "store.h" -> {sp - 1}
    [] Name = "call.h"  ->
         LET low == sp - Len(Imp.param_types)
         IN  low..sp - 1 \cup (IF Imp.type = VOID THEN {} ELSE {low})
    [] Name = "dup"  -> {sp - 1, sp}
    [] Name = "else" -> {sp - 2, sp - 1}
    [] Name \in Predicate  -> {sp - 1}
    [] Name \in ConstState -> {sp}
    [] Name = "loop.guard" -> {base + Arg}
    [] Name = "call" ->
         IF OverCap THEN {}
         ELSE sp..sp + Len(Callee.local_types) - Callee.param_count - 1
    [] Name = "ret_v" -> {sp - 1} \cup (IF frames = <<>> THEN {} ELSE {base})
    [] Name \in {"drop", "ret"} -> {}
    [] Name \notin Polymorphic ->
         LET low == sp - Len(Pops(Name))
         IN  low..sp - 1 \cup low..low + Len(Pushes(Name)) - 1

(* The bytes, table entries and frames it reads or writes.  An i64 is eight
   bytes of the pool whatever the entry there is. *)
InTables ==
  /\ pc + Size(Name) <= Len(container.code)
  /\ Name \in Pool => Arg < Len(container.constants)
  /\ Name = "const.i64" => At(container.constants, Arg).type = I64
  /\ Name \in {"load.h", "store.h", "call.h"} => Arg < Len(container.imports)
  /\ Name = "call" => /\ Arg < Len(container.functions)
                      /\ OverCap \/ Len(frames) < MaxCallDepth

InBounds == InTables /\ Touched \subseteq Slot

On(names) ==
  status = "running" /\ InCode /\ Name \in names /\ Dispatched /\ InBounds

-----------------------------------------------------------------------------
LoadableAnywhere ==
  \A i \in Functions(container) : Fn(container, i).component \in Functions(container)

(* mcuscript_load, past the decoding: the groups the build lacks and a
   component that is no function index are refused.  Nothing compares the
   container with MaxSlots or MaxCallDepth. *)
Loadable ==
  /\ container.groups \subseteq Groups
  /\ \A i \in Functions(container) : Fn(container, i).component \in Functions(container)

Load ==
  /\ status = "unloaded"
  /\ status' = IF Loadable THEN "idle" ELSE "refused"
  /\ counters' = [k \in Functions(container) |-> 0]
  /\ UNCHANGED <<report, current, base, frames, pc, sp, slots, asked>>

(* An invocation ends: its registers, frames and counters go with it, and
   what it leaves in the slot buffer is leftover to the next one. *)
Leave ==
  /\ values' = Leftover("values")
  /\ states' = Leftover("states")
  /\ status' = "idle"
  /\ current' = 0 /\ base' = 0 /\ pc' = 0 /\ sp' = 0
  /\ frames' = <<>>
  /\ counters' = [k \in Functions(container) |-> 0]

ClearedPastFirst(buffer, from, to, with) ==
  [n \in Slot |-> IF n \in from + 1..to - 1 THEN with ELSE buffer[n]]

(* The locals from slot `from` up to `to` read as unavailable. *)
Cleared(buffer, from, to, with) ==
  [n \in Slot |-> IF n \in from..to - 1 THEN with ELSE buffer[n]]

(* mcuscript_invoke up to its loop, with an index mcuscript_find_entry
   returned. *)
Invoke(entry) ==
  LET fn == Fn(container, entry)
      count == Len(fn.local_types)
  IN  /\ status = "idle"
      /\ fn.invocable
      /\ IF count > MaxSlots
         THEN status' = "stray" /\ UNCHANGED <<report, frameVars, pc, sp, slots, asked>>
         ELSE /\ status' = "running"
              /\ fault' = "no_fault"
              /\ current' = entry /\ base' = 0
              /\ pc' = fn.code_offset /\ sp' = count
              /\ values' = Cleared(values, 0, count, 0)
              /\ states' = Cleared(states, 0, count, UNAVAILABLE)
              /\ counters' = [k \in Functions(container) |->
                    IF k = fn.component /\ ComponentCap(k) # 0 THEN 1 ELSE 0]
              /\ asked' = <<>>
              /\ UNCHANGED <<returned, result, frames>>

(* The host invokes a name the container does not have: entry -1. *)
InvokeUnknown ==
  /\ status = "idle"
  /\ returned' = FALSE
  /\ fault' = "no_fault"
  /\ UNCHANGED <<status, result, frameVars, pc, sp, slots, asked>>

FaultUnsaid(kind) ==
  /\ returned' = FALSE
  /\ Leave
  /\ UNCHANGED <<fault, result>>

FaultWith(kind) ==
  /\ returned' = FALSE
  /\ fault' = kind
  /\ Leave
  /\ UNCHANGED result

(* Go on after the instruction. *)
Advance == pc' = pc + Size(Name) /\ UNCHANGED <<status, report, frameVars>>

(* Pop n, push one. *)
Produce(n, value, state) ==
  /\ values' = [values EXCEPT ![sp - n] = value]
  /\ states' = [states EXCEPT ![sp - n] = state]
  /\ sp' = sp - n + 1
  /\ Advance

(* An operation on the top n operands that may itself come out invalid. *)
Operate(n, outcome, Encode(_)) ==
  Produce(n, Encode(outcome[1]), outcome[2]) /\ UNCHANGED asked

Operand2 == values[sp - 2]
Operand1 == values[sp - 1]
State1   == states[sp - 1]
State12  == Worse(states[sp - 2], states[sp - 1])

-----------------------------------------------------------------------------
ConstImmediate ==
  /\ On({"const.i32.s8", "const.i32.s16"})
  /\ Produce(0, FromI32(Arg), VALID)
  /\ UNCHANGED asked

ConstPool ==
  /\ On(Pool)
  /\ LET bits == At(container.constants, Arg).value
     IN  Produce(0, IF Name = "const.i64" THEN FromI64(bits) ELSE bits % M32, VALID)
  /\ UNCHANGED asked

ConstBool ==
  /\ On({"const.true", "const.false"})
  /\ Produce(0, FromBool(Name = "const.true"), VALID)
  /\ UNCHANGED asked

ConstAbsent ==
  /\ On(ConstState)
  /\ Produce(0, 0, IF Name = "const.invalid" THEN INVALID ELSE UNAVAILABLE)
  /\ UNCHANGED asked

LoadL ==
  /\ On({"load.l"})
  /\ Produce(0, values[base + Arg], states[base + Arg])
  /\ UNCHANGED asked

StoreL ==
  /\ On({"store.l"})
  /\ values' = [values EXCEPT ![base + Arg] = Operand1]
  /\ states' = [states EXCEPT ![base + Arg] = State1]
  /\ sp' = sp - 1
  /\ Advance
  /\ UNCHANGED asked

LoadH ==
  /\ On({"load.h"})
  /\ \E value \in HostValue :
       Produce(0, ValueToSlot(Imp.type, value), value.validity)
  /\ asked' = <<"read", Arg>>

StoreH ==
  /\ On({"store.h"})
  /\ asked' = <<"write", Arg, SlotToValue(Imp.type, Operand1, State1)>>
  /\ sp' = sp - 1
  /\ Advance
  /\ UNCHANGED slots

(* The host refuses, or answers with a value; what a function of type void
   answers is not looked at. *)
CallH ==
  /\ On({"call.h"})
  /\ LET count == Len(Imp.param_types)
         argument(p) == SlotToValue(Imp.param_types[p], values[sp - count + p - 1],
                                    states[sp - count + p - 1])
     IN  /\ asked' = <<"call", Arg, [p \in 1..count |-> argument(p)]>>
         /\ \/ FaultWith("host_fault")
            \/ /\ Imp.type = VOID
               /\ sp' = sp - count
               /\ Advance
               /\ UNCHANGED slots
            \/ /\ Imp.type # VOID
               /\ \E value \in HostValue :
                    Produce(count, ValueToSlot(Imp.type, value), value.validity)

Drop ==
  /\ On({"drop"})
  /\ sp' = sp - 1
  /\ Advance
  /\ UNCHANGED <<slots, asked>>

Dup == On({"dup"}) /\ Produce(0, Operand1, State1) /\ UNCHANGED asked

-----------------------------------------------------------------------------
BinaryI32 ==
  /\ On(ArithI32)
  /\ Operate(2, <<Wrapped(Name, AsI32(Operand2), AsI32(Operand1), M32), State12>>, FromI32)

DivideI32 ==
  /\ On(DivRemI32)
  /\ Operate(2, DivRem(Name, AsI32(Operand2), AsI32(Operand1), State12, M32), FromI32)

NegI32 ==
  On({"neg.i32"}) /\ Operate(1, <<Neg(AsI32(Operand1), M32), State1>>, FromI32)

OrderI32 ==
  /\ On(CompareI32)
  /\ Operate(2, <<Compared(Name, AsI32(Operand2), AsI32(Operand1)), State12>>, FromBool)

Not == On({"not"}) /\ Operate(1, <<Operand1 = 0, State1>>, FromBool)

(* Both operands are always read, so an absent one always shows. *)
AndOr ==
  /\ On({"and", "or"})
  /\ LET a == Operand2 # 0
         b == Operand1 # 0
     IN  Operate(2, <<IF Name = "and" THEN a /\ b ELSE a \/ b, State12>>, FromBool)

BitwiseI32 ==
  /\ On(Bitwise32)
  /\ Operate(2, <<Bits(Name, AsI32(Operand2), AsI32(Operand1)), State12>>, FromI32)

BitNotI32 ==
  On({"bitnot.i32"}) /\ Operate(1, <<BitNot(AsI32(Operand1)), State1>>, FromI32)

ShiftI32 ==
  /\ On(Shift32)
  /\ LET Shifted == IF Name = "shl.i32" THEN Shl(AsI32(Operand2), AsI32(Operand1), State12)
                    ELSE Shr(AsI32(Operand2), AsI32(Operand1), State12)
     IN  Operate(2, Shifted, FromI32)

(* The value decides whether to fall back, and the fallback brings its own
   state. *)
Else ==
  /\ On({"else"})
  /\ IF states[sp - 2] # VALID THEN Produce(2, Operand1, State1)
     ELSE Produce(2, Operand2, VALID)
  /\ UNCHANGED asked

IsState ==
  /\ On(Predicate)
  /\ LET wanted == CASE Name = "is_valid" -> VALID
                     [] Name = "is_unavailable" -> UNAVAILABLE
                     [] Name = "is_invalid" -> INVALID
     IN  Operate(1, <<State1 = wanted, VALID>>, FromBool)

-----------------------------------------------------------------------------
BinaryI64 ==
  /\ On(ArithI64)
  /\ Operate(2, <<Wrapped(Name, AsI64(Operand2), AsI64(Operand1), M64), State12>>, FromI64)

DivideI64 ==
  /\ On(DivRemI64)
  /\ Operate(2, DivRem(Name, AsI64(Operand2), AsI64(Operand1), State12, M64), FromI64)

NegI64 ==
  On({"neg.i64"}) /\ Operate(1, <<Neg(AsI64(Operand1), M64), State1>>, FromI64)

OrderI64 ==
  /\ On(CompareI64)
  /\ Operate(2, <<Compared(Name, AsI64(Operand2), AsI64(Operand1)), State12>>, FromBool)

ExtendI32I64 ==
  On({"extend.i32_i64"}) /\ Operate(1, <<AsI32(Operand1), State1>>, FromI64)

WrapI64I32 ==
  On({"wrap.i64_i32"}) /\ Operate(1, <<AsI64(Operand1), State1>>, FromI32)

-----------------------------------------------------------------------------
BinaryF32 ==
  /\ On(ArithF32)
  /\ Operate(2, <<F32Arith(Name, AsF32(Operand2), AsF32(Operand1)), State12>>, AsF32)

NegF32 == On({"neg.f32"}) /\ Operate(1, <<F32Neg(AsF32(Operand1)), State1>>, AsF32)

OrderF32 ==
  /\ On(CompareF32)
  /\ Operate(2, <<ComparedF32(Name, AsF32(Operand2), AsF32(Operand1)), State12>>, FromBool)

ConvertToF32 ==
  /\ On({"convert.i32_f32", "convert.i64_f32"})
  /\ LET n == IF Name = "convert.i32_f32" THEN AsI32(Operand1) ELSE AsI64(Operand1)
     IN  Operate(1, <<F32FromInt(n), State1>>, AsF32)

TruncToI32 ==
  On({"trunc.f32_i32"}) /\ Operate(1, TruncF32(AsF32(Operand1), State1, M32), FromI32)

TruncToI64 ==
  On({"trunc.f32_i64"}) /\ Operate(1, TruncF32(AsF32(Operand1), State1, M64), FromI64)

-----------------------------------------------------------------------------
(* The counter is decremented before it is compared.  One below the most
   negative i32 is a signed overflow, which leaves the comparison to the
   compiler. *)
LoopGuard ==
  /\ On({"loop.guard"})
  /\ LET left == AsI32(values[base + Arg]) - 1
     IN  \/ left < 0 /\ FaultWith("iteration_limit")
         \/ /\ left >= 0 \/ 2 * left < -M32
            /\ values' = [values EXCEPT ![base + Arg] = FromI32(left)]
            /\ Advance
            /\ UNCHANGED <<states, sp>>
  /\ UNCHANGED asked

Jmp ==
  /\ On({"jmp"})
  /\ pc' = Target(container, pc)
  /\ UNCHANGED <<status, report, frameVars, sp, slots, asked>>

JmpIf ==
  /\ On({"jmp_if_false", "jmp_if_true"})
  /\ IF State1 # VALID THEN FaultWith("absent_condition")
     ELSE /\ pc' = IF (Name = "jmp_if_false") = (Operand1 = 0)
                   THEN Target(container, pc) ELSE After(container, pc)
          /\ sp' = sp - 1
          /\ UNCHANGED <<status, report, frameVars, slots>>
  /\ UNCHANGED asked

(* The arguments are the callee's first locals where they lie. *)
Call ==
  /\ On({"call"})
  /\ IF OverCap THEN FaultWith("recursion_limit")
     ELSE LET k == Callee.component
              low == sp - Callee.param_count
              top == low + Len(Callee.local_types)
          IN  /\ counters' = [counters EXCEPT ![k] = IF ComponentCap(k) # 0 THEN @ + 1 ELSE @]
              /\ frames' = Append(frames, [return_pc |-> pc + 2, base |-> base,
                                           function |-> current])
              /\ base' = low
              /\ values' = Cleared(values, sp, top, 0)
              /\ states' = Cleared(states, sp, top, UNAVAILABLE)
              /\ sp' = top
              /\ current' = Arg
              /\ pc' = Callee.code_offset
              /\ UNCHANGED <<status, report>>
  /\ UNCHANGED asked

(* The outermost frame returns to the host. *)
ReturnToHost ==
  /\ On(Return)
  /\ frames = <<>>
  /\ result' = IF Name = "ret" THEN result
               ELSE SlotToValue(Fn(container, current).return_type, Operand1, State1)
  /\ returned' = TRUE
  /\ Leave
  /\ UNCHANGED <<fault, asked>>

ResumedComponent == Fn(container, Last(frames).function).component

(* The component an inner return leaves is the callee's. *)
LeftComponent == Fn(container, current).component

(* Dropping to the callee's base removes the arguments. *)
ReturnToCaller ==
  /\ On(Return)
  /\ frames # <<>>
  /\ LET k == LeftComponent
         frame == Last(frames)
     IN  /\ counters' = [counters EXCEPT ![k] = IF ComponentCap(k) # 0 THEN @ - 1 ELSE @]
         /\ base' = frame.base
         /\ pc' = frame.return_pc
         /\ current' = frame.function
         /\ frames' = Front(frames)
         /\ IF Name = "ret_v"
            THEN /\ values' = [values EXCEPT ![base] = Operand1]
                 /\ states' = [states EXCEPT ![base] = State1]
                 /\ sp' = base + 1
            ELSE sp' = base /\ UNCHANGED slots
         /\ UNCHANGED <<status, report, asked>>

(* The switch has no case for the byte. *)
Default ==
  /\ status = "running"
  /\ InCode /\ ~Dispatched
  /\ returned' = FALSE
  /\ Leave
  /\ UNCHANGED <<fault, result, asked>>

(* An access outside the code, the slots, a table or the frames. *)
Stray ==
  /\ status = "running"
  /\ ~InCode \/ (Dispatched /\ ~InBounds)
  /\ status' = "stray"
  /\ UNCHANGED <<report, frameVars, pc, sp, slots, asked>>

-----------------------------------------------------------------------------
VmInit ==
  /\ status = "unloaded"
  /\ returned = TRUE /\ fault = "no_fault" /\ result = <<>>
  /\ current = 0 /\ pc = 0 /\ base = 0 /\ sp = 0
  /\ frames = <<>>
  /\ counters = <<>>
  /\ values = Leftover("values")
  /\ states = Leftover("states")
  /\ asked = <<>>

Constants  == ConstImmediate \/ ConstPool \/ ConstBool \/ ConstAbsent
Movement   == LoadL \/ StoreL \/ Drop \/ Dup \/ LoadH \/ StoreH \/ CallH
Core32     == BinaryI32 \/ DivideI32 \/ NegI32 \/ OrderI32 \/ BitwiseI32
                \/ BitNotI32 \/ ShiftI32
Core64     == BinaryI64 \/ DivideI64 \/ NegI64 \/ OrderI64
                \/ ExtendI32I64 \/ WrapI64I32
Floating   == BinaryF32 \/ NegF32 \/ OrderF32 \/ ConvertToF32 \/ TruncToI32
                \/ TruncToI64
Logic      == Not \/ AndOr \/ Else \/ IsState
Control    == LoopGuard \/ Jmp \/ JmpIf \/ Call \/ ReturnToHost \/ ReturnToCaller

(* One turn of the dispatch loop. *)
Step == Constants \/ Movement \/ Core32 \/ Core64 \/ Floating \/ Logic \/ Control
          \/ Default \/ Stray

VmNext ==
  \/ Load
  \/ \E entry \in Functions(container) : Invoke(entry)
  \/ InvokeUnknown
  \/ Step
=============================================================================
