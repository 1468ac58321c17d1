---------------------------- MODULE VerifyProofs ----------------------------
(***************************************************************************)
(* What the verifier establishes, for every container and every set of     *)
(* groups: its type invariant, that its walk is sound, and that no cycle   *)
(* of branches escapes its guard.  On the way, what verify.py computes on  *)
(* graphs: how the code of a function is read straight through, what can   *)
(* be entered while a function is live, the components of the call graph,  *)
(* and the sum over them that the numbers of a record are compared with.   *)
(***************************************************************************)
EXTENDS Verify, Lemmas

-----------------------------------------------------------------------------
(* The container. *)

(* The fields of a function record. *)
LEMMA FunctionFields ==
  ASSUME NEW c, Decoded(c), NEW i \in Functions(c)
  PROVE  /\ Fn(c, i) \in Function
         /\ Fn(c, i).param_count <= Len(Fn(c, i).local_types)
<1>1. c.functions \in Seq(Function)
  BY DEF Decoded, DecodedContainer
<1>2. i + 1 \in DOMAIN c.functions
  BY <1>1, LenProperties DEF Functions
<1>3. c.functions[i + 1].param_count <= Len(c.functions[i + 1].local_types)
  BY <1>2 DEF Decoded
<1>. QED
  BY <1>1, <1>2, <1>3, ElementOfSeq, LenProperties DEF Fn, At

(* Where the code of a function begins and ends. *)
LEMMA RegionBounds ==
  ASSUME NEW c, Decoded(c)
  PROVE  \A j \in Functions(c) : Start(c, j) \in Nat /\ End(c, j) \in Nat
<1>. DEFINE n == Len(c.functions)
<1>1. c.code \in Seq(Byte) /\ Len(c.code) \in Nat /\ n \in Nat
  BY LenProperties DEF Decoded, DecodedContainer
<1>2. \A j \in Functions(c) : Start(c, j) \in Nat
  BY FunctionFields DEF Start, Function
<1>3. \A j \in Functions(c) : j # n - 1 => j + 1 \in Functions(c) /\ End(c, j) = Start(c, j + 1)
  BY <1>1 DEF Functions, End, Start
<1>4. \A j \in Functions(c) : j = n - 1 => End(c, j) = Len(c.code)
  BY DEF End
<1>. QED
  BY <1>1, <1>2, <1>3, <1>4

(* Tiling puts every function's code inside CODE. *)
LEMMA RegionInCode ==
  ASSUME NEW c, Decoded(c), RegionsTile(c), NEW i \in Functions(c)
  PROVE  /\ Start(c, i) \in Nat /\ End(c, i) \in Nat
         /\ Start(c, i) < End(c, i)
         /\ End(c, i) <= Len(c.code)
<1>. DEFINE n == Len(c.functions)
<1>1. c.code \in Seq(Byte) /\ Len(c.code) \in Nat /\ n \in Nat
  BY LenProperties DEF Decoded, DecodedContainer
<1>2. \A j \in Functions(c) : Start(c, j) \in Nat /\ End(c, j) \in Nat
  BY RegionBounds
<1>3. \A j \in Functions(c) : Start(c, j) < End(c, j)
  BY DEF RegionsTile
<1>4. \A j \in Functions(c) : End(c, j) <= Len(c.code)
  <2>. DEFINE T == {d \in Nat : \E j \in Functions(c) : d = n - 1 - j /\ ~(End(c, j) <= Len(c.code))}
  <2>. SUFFICES ASSUME NEW j0 \in Functions(c), ~(End(c, j0) <= Len(c.code))
                PROVE  FALSE
    OBVIOUS
  <2>1. n - 1 - j0 \in T
    <3>1. n - 1 - j0 \in Nat
      BY <1>1 DEF Functions
    <3>. QED
      BY <3>1
  <2>2. PICK d \in T : \A e \in T : d <= e
    BY <2>1, LeastNatural
  <2>3. PICK j \in Functions(c) : d = n - 1 - j /\ ~(End(c, j) <= Len(c.code))
    BY <2>2
  <2>4. j # n - 1
    BY <2>3, <1>1 DEF End
  <2>5. j + 1 \in Functions(c) /\ End(c, j) = Start(c, j + 1)
    BY <2>4, <1>1 DEF Functions, End, Start
  <2>6. End(c, j + 1) <= Len(c.code)
    <3>1. d - 1 = n - 1 - (j + 1) /\ d - 1 \in Nat
      BY <1>1, <2>3, <2>5 DEF Functions
    <3>2. d - 1 \notin T
      BY <2>2, <3>1
    <3>. QED
      BY <3>1, <3>2, <2>5
  <2>. QED
    BY <1>1, <1>2, <1>3, <2>3, <2>5, <2>6
<1>. QED
  BY <1>2, <1>3, <1>4

-----------------------------------------------------------------------------
(* One instruction. *)

(* An index or a type code is one byte after the opcode. *)
LEMMA OneByteOperand ==
  ASSUME NEW name \in Indexed \cup ConstState
  PROVE  Size(name) = 2 /\ name # "const.i32.s8"
BY DEF Size, Indexed, ConstState, Pool, Branch

LEMMA OperandIsByte ==
  ASSUME NEW c, Decoded(c), RegionsTile(c), NEW i \in Functions(c),
         NEW pc \in Region(c, i), After(c, pc) <= End(c, i),
         NameAt(c, pc) \in Indexed \cup ConstState
  PROVE  OperandAt(c, pc) \in Byte
<1>1. Size(NameAt(c, pc)) = 2 /\ NameAt(c, pc) # "const.i32.s8"
  BY OneByteOperand
<1>2. c.code \in Seq(Byte) /\ Len(c.code) \in Nat
  BY LenProperties DEF Decoded, DecodedContainer
<1>3. pc \in Nat /\ pc + 2 <= Len(c.code)
  BY <1>1, RegionInCode DEF Region, After
<1>4. At(c.code, pc + 1) \in Byte
  <2>1. pc + 2 \in 1..Len(c.code)
    BY <1>2, <1>3
  <2>2. c.code[pc + 2] \in Byte
    BY <1>2, <2>1, ElementOfSeq
  <2>3. (pc + 1) + 1 = pc + 2
    BY <1>3
  <2>. QED
    BY <2>2, <2>3 DEF At
<1>5. OperandAt(c, pc) = At(c.code, pc + 1)
  BY <1>1 DEF OperandAt, Operand
<1>. QED
  BY <1>4, <1>5

LEMMA FixedSignatures ==
  ASSUME NEW name
  PROVE  Pops(name) \in Seq(ValueType) /\ Pushes(name) \in Seq(ValueType)
<1>1. {<<>>, <<I32>>, <<I64>>, <<F32>>, <<BOOL>>, <<I32, I32>>, <<I64, I64>>,
       <<F32, F32>>, <<BOOL, BOOL>>} \subseteq Seq(ValueType)
  BY DEF ValueType, I32, I64, F32, BOOL
<1>2. Pops(name) \in {<<>>, <<I32>>, <<I64>>, <<F32>>, <<BOOL>>, <<I32, I32>>,
                      <<I64, I64>>, <<F32, F32>>, <<BOOL, BOOL>>}
  BY DEF Pops
<1>3. Pushes(name) \in {<<>>, <<I32>>, <<I64>>, <<F32>>, <<BOOL>>}
  BY DEF Pushes
<1>. QED
  BY <1>1, <1>2, <1>3

(* Where the lookups of an instruction succeed, the tables have what it asks
   for. *)
LEMMA LookupsSucceed ==
  ASSUME NEW c, Decoded(c), NEW i \in Functions(c), NEW pc,
         NEW name, name = NameAt(c, pc), NEW k, k = OperandAt(c, pc),
         name \in Indexed \cup ConstState => k \in Byte,
         LookupRefusal(c, i, pc) = "none"
  PROVE  /\ name \in {"load.l", "store.l"} => At(Fn(c, i).local_types, k) \in ValueType
         /\ name \in {"load.h", "store.h"} => At(c.imports, k).type \in ValueType
         /\ name = "call.h" => /\ At(c.imports, k).type \in ValType
                               /\ At(c.imports, k).param_types \in Seq(ValueType)
         /\ name = "call" => k \in Functions(c)
         /\ name \in ConstState => k \in ValueType
<1>1. name \in {"load.l", "store.l", "load.h", "store.h", "call.h", "call"} => k \in Nat
  <2>1. name \in {"load.l", "store.l", "load.h", "store.h", "call.h", "call"} => k \in Byte
    BY DEF Indexed
  <2>2. Byte \subseteq Nat
    BY DEF Byte
  <2>. QED
    BY <2>1, <2>2
<1>2. Fn(c, i).local_types \in Seq(ValueType)
  BY FunctionFields DEF Function
<1>3. c.imports \in Seq(Import)
  BY DEF Decoded, DecodedContainer
<1>4. \A x \in DOMAIN c.imports : c.imports[x].kind = "entity" => c.imports[x].type # VOID
  BY DEF Decoded
<1>5. name \in {"load.l", "store.l"} => At(Fn(c, i).local_types, k) \in ValueType
  <2>. SUFFICES ASSUME name \in {"load.l", "store.l"}
                PROVE  At(Fn(c, i).local_types, k) \in ValueType
    OBVIOUS
  <2>1. k < Len(Fn(c, i).local_types)
    BY DEF LookupRefusal, InLocals, ConstState
  <2>2. k \in Nat /\ Len(Fn(c, i).local_types) \in Nat
    BY <1>1, <1>2, LenProperties
  <2>3. k + 1 \in 1..Len(Fn(c, i).local_types)
    BY <2>1, <2>2
  <2>. QED
    BY <1>2, <2>3, ElementOfSeq DEF At
<1>6. name \in {"load.h", "store.h", "call.h"} =>
        /\ k + 1 \in DOMAIN c.imports
        /\ At(c.imports, k) \in Import
        /\ name # "call.h" => At(c.imports, k).kind = "entity"
  <2>. SUFFICES ASSUME name \in {"load.h", "store.h", "call.h"}
                PROVE  /\ k + 1 \in DOMAIN c.imports
                       /\ At(c.imports, k) \in Import
                       /\ name # "call.h" => At(c.imports, k).kind = "entity"
    OBVIOUS
  <2>1. k < Len(c.imports) /\ (name # "call.h" => At(c.imports, k).kind = "entity")
    BY DEF LookupRefusal, InImports, ConstState
  <2>2. k \in Nat /\ Len(c.imports) \in Nat
    BY <1>1, <1>3, LenProperties
  <2>3. k + 1 \in 1..Len(c.imports)
    BY <2>1, <2>2
  <2>. QED
    BY <1>3, <2>1, <2>3, ElementOfSeq, LenProperties DEF At
<1>7. name \in {"load.h", "store.h"} => At(c.imports, k).type \in ValueType
  BY <1>4, <1>6 DEF At, Import, ValType, ValueType, VOID, I32, BOOL
<1>8. name = "call.h" => /\ At(c.imports, k).type \in ValType
                         /\ At(c.imports, k).param_types \in Seq(ValueType)
  BY <1>6 DEF Import
<1>9. name = "call" => k \in Functions(c)
  <2>1. Len(c.functions) \in Nat
    BY LenProperties DEF Decoded, DecodedContainer
  <2>2. name = "call" => k < Len(c.functions)
    BY DEF LookupRefusal, InFunctions, ConstState
  <2>. QED
    BY <1>1, <2>1, <2>2 DEF Functions
<1>10. name \in ConstState => k \in ValueType
  BY DEF LookupRefusal, ConstState
<1>. QED
  BY <1>5, <1>7, <1>8, <1>9, <1>10

LEMMA SizeType == \A name : Size(name) \in {1, 2, 3}
BY DEF Size

(* What an instruction the walk let pass takes is a sequence no longer than
   the stack, so what is left below it is well defined. *)
LEMMA TakesType ==
  ASSUME NEW c, Decoded(c), NEW i \in Functions(c), NEW pc,
         NEW stack \in Seq(ValueType), NEW name, name = NameAt(c, pc),
         NEW k, k = OperandAt(c, pc),
         name \in Indexed \cup ConstState => k \in Byte,
         LookupRefusal(c, i, pc) = "none"
  PROVE  Len(Takes(c, i, pc, stack)) \in Nat
<1>. USE DEF Predicate
<1>1. CASE name = "call.h"
  <2>1. Takes(c, i, pc, stack) = At(c.imports, k).param_types
    BY <1>1 DEF Takes
  <2>2. At(c.imports, k).param_types \in Seq(ValueType)
    BY <1>1, LookupsSucceed
  <2>. QED
    BY <2>1, <2>2, LenProperties
<1>2. CASE name = "call"
  <2>1. Takes(c, i, pc, stack) = SubSeq(Fn(c, k).local_types, 1, Fn(c, k).param_count)
    BY <1>2 DEF Takes, ParamTypes
  <2>2. k \in Functions(c)
    BY <1>2, LookupsSucceed
  <2>3. /\ Fn(c, k).local_types \in Seq(ValueType)
        /\ Fn(c, k).param_count \in Nat
        /\ Fn(c, k).param_count <= Len(Fn(c, k).local_types)
    <3>1. Fn(c, k) \in Function /\ Fn(c, k).param_count <= Len(Fn(c, k).local_types)
      BY <2>2, FunctionFields
    <3>2. Fn(c, k).local_types \in Seq(ValueType) /\ Fn(c, k).param_count \in Byte
      BY <3>1 DEF Function
    <3>3. Byte \subseteq Nat
      BY DEF Byte
    <3>. QED
      BY <3>1, <3>2, <3>3
  <2>. QED
    BY <2>1, <2>3, Prefix
<1>3. CASE name \in {"store.l", "store.h", "ret_v"}
  <2>1. \E e : Takes(c, i, pc, stack) = <<e>>
    BY <1>3 DEF Takes
  <2>. QED
    BY <2>1
<1>4. CASE name \in {"drop", "dup"} \cup Predicate
  <2>1. Takes(c, i, pc, stack) = IF stack = <<>> THEN <<VOID>> ELSE Top(stack, 1)
    BY <1>4 DEF Takes
  <2>2. stack # <<>> => Len(Top(stack, 1)) = 1
    <3>1. stack # <<>> => Top(stack, 1) = SubSeq(stack, Len(stack), Len(stack))
      BY EmptySeq, LenProperties DEF Top
    <3>2. stack # <<>> => Len(stack) \in Nat \ {0}
      BY EmptySeq
    <3>. QED
      BY <3>1, <3>2, SubSeqProperties, ElementOfSeq
  <2>. QED
    BY <2>1, <2>2
<1>5. CASE name = "else"
  <2>1. \E e, f : Takes(c, i, pc, stack) = <<e, f>>
    BY <1>5 DEF Takes
  <2>. QED
    BY <2>1
<1>6. CASE name \notin {"call.h", "call", "store.l", "store.h", "ret_v", "drop", "dup", "else"}
                       \cup Predicate
  <2>1. Takes(c, i, pc, stack) = Pops(name)
    BY <1>6 DEF Takes
  <2>. QED
    BY <2>1, FixedSignatures, LenProperties
<1>. QED
  BY <1>1, <1>2, <1>3, <1>4, <1>5, <1>6

(* What it leaves there are value types. *)
LEMMA GivesType ==
  ASSUME NEW c, Decoded(c), NEW i \in Functions(c), NEW pc,
         NEW stack \in Seq(ValueType), NEW name, name = NameAt(c, pc),
         NEW k, k = OperandAt(c, pc),
         name \in Indexed \cup ConstState => k \in Byte,
         LookupRefusal(c, i, pc) = "none",
         name \in {"dup", "else"} => stack # <<>>
  PROVE  Gives(c, i, pc, stack) \in Seq(ValueType)
<1>. USE DEF Predicate, ConstState
<1>1. CASE name \in {"call.h", "call"}
  <2>1. PICK type \in ValType :
          Gives(c, i, pc, stack) = IF type = VOID THEN <<>> ELSE <<type>>
    <3>1. CASE name = "call.h"
      BY <3>1, LookupsSucceed DEF Gives
    <3>2. CASE name = "call"
      <4>1. k \in Functions(c)
        BY <3>2, LookupsSucceed
      <4>2. Fn(c, k).return_type \in ValType
        BY <4>1, FunctionFields DEF Function
      <4>. QED
        BY <3>2, <4>2 DEF Gives
    <3>. QED
      BY <1>1, <3>1, <3>2
  <2>2. type # VOID => type \in ValueType
    BY DEF ValType, ValueType, VOID, I32, BOOL
  <2>. QED
    BY <2>1, <2>2
<1>2. CASE name \in {"load.l", "load.h"} \cup Predicate \cup ConstState
  <2>1. \E e \in ValueType : Gives(c, i, pc, stack) = <<e>>
    <3>1. name = "load.l" => Gives(c, i, pc, stack) = <<At(Fn(c, i).local_types, k)>>
      BY DEF Gives
    <3>2. name = "load.h" => Gives(c, i, pc, stack) = <<At(c.imports, k).type>>
      BY DEF Gives
    <3>3. name \in Predicate => Gives(c, i, pc, stack) = <<BOOL>>
      BY DEF Gives
    <3>4. name \in ConstState => Gives(c, i, pc, stack) = <<k>>
      BY DEF Gives
    <3>5. BOOL \in ValueType
      BY DEF BOOL, ValueType, I32
    <3>. QED
      BY <1>2, <3>1, <3>2, <3>3, <3>4, <3>5, LookupsSucceed
  <2>. QED
    BY <2>1
<1>3. CASE name \in {"dup", "else"}
  <2>1. Last(stack) \in ValueType
    BY <1>3, FrontLast
  <2>2. <<Last(stack), Last(stack)>> \in Seq(ValueType) /\ <<Last(stack)>> \in Seq(ValueType)
    BY <2>1
  <2>3. Gives(c, i, pc, stack) \in {<<Last(stack), Last(stack)>>, <<Last(stack)>>}
    BY <1>3 DEF Gives
  <2>. QED
    BY <2>2, <2>3
<1>4. CASE name \notin {"call.h", "call", "load.l", "load.h", "dup", "else"}
                       \cup Predicate \cup ConstState
  <2>1. Gives(c, i, pc, stack) = Pushes(name)
    BY <1>4 DEF Gives
  <2>. QED
    BY <2>1, FixedSignatures
<1>. QED
  BY <1>1, <1>2, <1>3, <1>4

(* What a turn of the walk that refuses nothing has checked. *)
LEMMA StepPasses ==
  ASSUME NEW c, NEW i, NEW pc, NEW stack, StepRefusal(c, i, pc, stack) = "none"
  PROVE  /\ ~(After(c, pc) > End(c, i))
         /\ LookupRefusal(c, i, pc) = "none"
         /\ ~(Len(stack) < Len(Takes(c, i, pc, stack)))
         /\ Successors(c, pc) \subseteq Region(c, i)
<1>1. /\ ~(After(c, pc) > End(c, i))
      /\ ApplyRefusal(c, i, pc, stack) = "none"
      /\ Successors(c, pc) \subseteq Region(c, i)
  BY DEF StepRefusal, Lands
<1>2. /\ LookupRefusal(c, i, pc) = "none"
      /\ ~(Len(stack) < Len(Takes(c, i, pc, stack)))
  BY <1>1 DEF ApplyRefusal
<1>. QED
  BY <1>1, <1>2

(* An instruction the walk lets pass turns a stack of value types into
   another one, and its operand is a byte where it names something. *)
LEMMA EffectType ==
  ASSUME NEW c, Decoded(c), RegionsTile(c), NEW i \in Functions(c),
         NEW pc \in Region(c, i), NEW stack \in Seq(ValueType),
         StepRefusal(c, i, pc, stack) = "none"
  PROVE  /\ Effect(c, i, pc, stack) \in Seq(ValueType)
         /\ Len(Takes(c, i, pc, stack)) \in 0..Len(stack)
         /\ Gives(c, i, pc, stack) \in Seq(ValueType)
         /\ Len(Effect(c, i, pc, stack)) =
              Len(stack) - Len(Takes(c, i, pc, stack)) + Len(Gives(c, i, pc, stack))
         /\ NameAt(c, pc) \in Indexed \cup ConstState => OperandAt(c, pc) \in Byte
<1>. DEFINE takes == Takes(c, i, pc, stack)
            name  == NameAt(c, pc)
            k     == OperandAt(c, pc)
<1>1. pc \in Nat /\ End(c, i) \in Nat
  BY RegionInCode DEF Region
<1>2. After(c, pc) \in Nat
  <2>1. Size(NameAt(c, pc)) \in Nat
    BY SizeType
  <2>. QED
    BY <1>1, <2>1 DEF After
<1>3. After(c, pc) <= End(c, i)
  BY <1>1, <1>2, StepPasses
<1>4. name \in Indexed \cup ConstState => k \in Byte
  BY <1>3, OperandIsByte
<1>5. LookupRefusal(c, i, pc) = "none" /\ ~(Len(stack) < Len(takes))
  BY StepPasses
<1>6. Len(takes) \in Nat /\ Len(stack) \in Nat
  BY <1>4, <1>5, TakesType, LenProperties
<1>7. name \in {"dup", "else"} => stack # <<>>
  <2>. SUFFICES ASSUME name \in {"dup", "else"}, stack = <<>>
                PROVE  FALSE
    OBVIOUS
  <2>1. takes \in {<<VOID>>, <<VOID, VOID>>}
    BY DEF Takes, Predicate
  <2>2. Len(takes) \in {1, 2} /\ Len(stack) = 0
    BY <2>1
  <2>. QED
    BY <1>5, <2>2
<1>8. Gives(c, i, pc, stack) \in Seq(ValueType)
  BY <1>4, <1>5, <1>7, GivesType
<1>9. /\ Rest(stack, Len(takes)) \in Seq(ValueType)
      /\ Len(Rest(stack, Len(takes))) = Len(stack) - Len(takes)
  <2>1. Len(stack) - Len(takes) \in Nat /\ Len(stack) - Len(takes) <= Len(stack)
    BY <1>5, <1>6
  <2>2. /\ SubSeq(stack, 1, Len(stack) - Len(takes)) \in Seq(ValueType)
        /\ Len(SubSeq(stack, 1, Len(stack) - Len(takes))) = Len(stack) - Len(takes)
    BY <2>1, Prefix
  <2>. QED
    BY <2>2 DEF Rest
<1>10. /\ Effect(c, i, pc, stack) \in Seq(ValueType)
       /\ Len(Effect(c, i, pc, stack)) = Len(stack) - Len(takes) + Len(Gives(c, i, pc, stack))
  BY <1>8, <1>9, ConcatProperties DEF Effect
<1>. QED
  BY <1>4, <1>5, <1>6, <1>8, <1>10

(* Each successor of an instruction joins the worklist with the stack the
   instruction leaves, and nothing else does. *)
LEMMA FollowSuccessors ==
  ASSUME NEW c, NEW pc, NEW R, Successors(c, pc) \subseteq R,
         NEW stack \in Seq(ValueType)
  PROVE  /\ Follow(c, pc, stack) \in Seq(R \X Seq(ValueType))
         /\ \A s \in Successors(c, pc) :
              \E n \in 1..Len(Follow(c, pc, stack)) :
                Follow(c, pc, stack)[n] = <<s, stack>>
<1>. DEFINE name   == NameAt(c, pc)
            target == <<Target(c, pc), stack>>
            after  == <<After(c, pc), stack>>
            follow == Follow(c, pc, stack)
<1>1. CASE name \in Branch /\ name \notin Return \cup {"jmp"}
  <2>1. Successors(c, pc) = {Target(c, pc), After(c, pc)}
    BY <1>1 DEF Successors
  <2>2. follow = <<target>> \o <<after>>
    BY <1>1 DEF Follow
  <2>3. target \in R \X Seq(ValueType) /\ after \in R \X Seq(ValueType)
    BY <2>1
  <2>. HIDE DEF target, after, follow
  <2>4. follow \in Seq(R \X Seq(ValueType)) /\ Len(follow) = 2
        /\ follow[1] = target /\ follow[2] = after
    BY <2>2, <2>3, TwoElements
  <2>5. 1 \in 1..Len(follow) /\ 2 \in 1..Len(follow)
    BY <2>4
  <2>. QED
    BY <2>1, <2>4, <2>5 DEF follow, target, after
<1>2. CASE name \in Branch /\ name \in Return \cup {"jmp"}
  <2>1. Successors(c, pc) = {Target(c, pc)}
    BY <1>2 DEF Successors
  <2>2. follow = <<target>> \o <<>>
    BY <1>2 DEF Follow
  <2>3. follow = <<target>>
    BY <2>2
  <2>4. target \in R \X Seq(ValueType)
    BY <2>1
  <2>5. 1 \in 1..Len(follow) /\ follow[1] = target
    BY <2>3
  <2>. QED
    BY <2>1, <2>3, <2>4, <2>5
<1>3. CASE name \notin Branch /\ name \notin Return \cup {"jmp"}
  <2>1. Successors(c, pc) = {After(c, pc)}
    BY <1>3 DEF Successors
  <2>2. follow = <<>> \o <<after>>
    BY <1>3 DEF Follow
  <2>3. follow = <<after>>
    BY <2>2
  <2>4. after \in R \X Seq(ValueType)
    BY <2>1
  <2>5. 1 \in 1..Len(follow) /\ follow[1] = after
    BY <2>3
  <2>. QED
    BY <2>1, <2>3, <2>4, <2>5
<1>4. CASE name \notin Branch /\ name \in Return \cup {"jmp"}
  <2>1. Successors(c, pc) = {}
    BY <1>4 DEF Successors
  <2>2. follow = <<>> \o <<>>
    BY <1>4 DEF Follow
  <2>3. follow = <<>>
    BY <2>2
  <2>. QED
    BY <2>1, <2>3
<1>. QED
  BY <1>1, <1>2, <1>3, <1>4

-----------------------------------------------------------------------------
(* The invariant. *)

(* No refusal is called what verify says when it does not refuse. *)
LEMMA RefusalNames ==
  ASSUME NEW c, NEW i, NEW pc, NEW stack, NEW shape, NEW high,
         NEW word \in {"pending", "accepted"}
  PROVE  /\ StepRefusal(c, i, pc, stack) # word
         /\ CoverageRefusal(c, i, shape) # word
         /\ word \notin LoopRefusals(c, shape)
         /\ word \notin GraphRefusals(c)
         /\ DeclaredRefusal(c, high) # word
<1>1. LookupRefusal(c, i, pc) # word
  BY DEF LookupRefusal, ConstState
<1>2. ApplyRefusal(c, i, pc, stack) # word
  BY <1>1 DEF ApplyRefusal
<1>3. StepRefusal(c, i, pc, stack) # word
  BY <1>2 DEF StepRefusal
<1>4. CoverageRefusal(c, i, shape) # word
  BY DEF CoverageRefusal
<1>5. word \notin LoopRefusals(c, shape)
  BY DEF LoopRefusals
<1>6. word \notin GraphRefusals(c)
  BY DEF GraphRefusals, CapRefusals
<1>7. DeclaredRefusal(c, high) # word
  BY DEF DeclaredRefusal
<1>. QED
  BY <1>3, <1>4, <1>5, <1>6, <1>7

(* The strengthening that is inductive: types, what the walk owes, and the
   walks already finished. *)
VerifyInv == VerifyTypeOK /\ WalkOwes /\ WalkIsSound

LEMMA InitInv == VerifyInit => VerifyInv
<1>. SUFFICES ASSUME VerifyInit PROVE VerifyInv
  OBVIOUS
<1>1. Decoded(container)
  BY ContainersAssumption DEF VerifyInit
<1>2. Len(container.functions) \in Nat
  BY <1>1, LenProperties DEF Decoded, DecodedContainer
<1>3. VerifyTypeOK
  BY <1>1, <1>2 DEF VerifyInit, VerifyTypeOK
<1>4. WalkOwes
  BY DEF VerifyInit, WalkOwes
<1>5. WalkIsSound
  BY <1>2 DEF VerifyInit, WalkIsSound, Functions
<1>. QED
  BY <1>3, <1>4, <1>5 DEF VerifyInv

(* A refusal leaves what was established as it was. *)
LEMMA RefuseInv ==
  ASSUME VerifyInv, NEW r, r # "pending", Refuse(r)
  PROVE  VerifyInv'
<1>. USE DEF VerifyInv
<1>1. VerifyTypeOK'
  BY DEF VerifyTypeOK, Refuse
<1>2. WalkOwes'
  BY DEF WalkOwes, Refuse
<1>3. WalkIsSound'
  BY DEF WalkIsSound, Refuse
<1>. QED
  BY <1>1, <1>2, <1>3

(* Finished walks stay finished while the tables of their results do. *)
LEMMA SoundUnchanged ==
  ASSUME WalkIsSound, UNCHANGED <<container, index, shapes>>,
         \A i \in Functions(container) : i < index => stacks'[i] = stacks[i]
  PROVE  WalkIsSound'
BY DEF WalkIsSound

LEMMA JoinInv ==
  ASSUME VerifyInv, Join
  PROVE  VerifyInv'
<1>. USE DEF VerifyInv
<1>. DEFINE pc    == Last(work)[1]
            stack == Last(work)[2]
            E     == Region(container, index) \X Seq(ValueType)
<1>1. stage = "walk" /\ work # <<>> /\ work \in Seq(E)
  BY DEF Join, VerifyTypeOK
<1>2. /\ Front(work) \in Seq(E)
      /\ Last(work) \in E /\ Last(work) = work[Len(work)]
      /\ Len(work) \in Nat \ {0} /\ Len(Front(work)) = Len(work) - 1
      /\ \A n \in 1..Len(work) - 1 : Front(work)[n] = work[n]
  BY <1>1, FrontLast
<1>3. CASE at[pc] # stack
  BY <1>3, RefuseInv DEF Join
<1>4. CASE at[pc] = stack
  <2>1. /\ pc \in DOMAIN at /\ work' = Front(work)
        /\ UNCHANGED <<container, stage, verdict, index, at, shapes, stacks>>
    BY <1>4 DEF Join
  <2>2. VerifyTypeOK'
    BY <2>1, <1>2 DEF VerifyTypeOK
  <2>3. \A q, t : Owed(q, t) => Owed(q, t)'
    <3>. SUFFICES ASSUME NEW q, NEW t, Owed(q, t) PROVE Owed(q, t)'
      OBVIOUS
    <3>1. CASE q \in DOMAIN at /\ at[q] = t
      BY <3>1, <2>1 DEF Owed
    <3>2. CASE \E n \in 1..Len(work) : work[n] = <<q, t>>
      <4>1. PICK n \in 1..Len(work) : work[n] = <<q, t>>
        BY <3>2
      <4>2. CASE n = Len(work)
        <5>1. pc = q /\ stack = t
          BY <4>1, <4>2, <1>2
        <5>. QED
          BY <5>1, <2>1, <1>4 DEF Owed
      <4>3. CASE n # Len(work)
        <5>1. n \in 1..Len(work) - 1
          BY <4>1, <4>3, <1>2
        <5>2. Front(work)[n] = <<q, t>> /\ Len(Front(work)) = Len(work) - 1
          BY <5>1, <4>1, <1>2
        <5>3. n \in 1..Len(work') /\ work'[n] = <<q, t>>
          BY <5>1, <5>2, <2>1
        <5>. QED
          BY <5>3 DEF Owed
      <4>. QED
        BY <4>2, <4>3
    <3>. QED
      BY <3>1, <3>2 DEF Owed
  <2>4. WalkOwes'
    BY <1>1, <2>1, <2>3 DEF WalkOwes
  <2>5. WalkIsSound'
    BY <2>1, SoundUnchanged
  <2>. QED
    BY <2>2, <2>4, <2>5
<1>. QED
  BY <1>3, <1>4

LEMMA VisitInv ==
  ASSUME VerifyInv, Visit
  PROVE  VerifyInv'
<1>. USE DEF VerifyInv
<1>. DEFINE pc     == Last(work)[1]
            stack  == Last(work)[2]
            R      == Region(container, index)
            E      == R \X Seq(ValueType)
            result == Effect(container, index, pc, stack)
            follow == Follow(container, pc, result)
<1>1. /\ stage = "walk" /\ work # <<>> /\ work \in Seq(E)
      /\ Decoded(container) /\ RegionsTile(container)
      /\ index \in Functions(container)
      /\ stacks \in [Functions(container) -> Nat]
  BY DEF Visit, VerifyTypeOK, WalkOwes
<1>2. /\ Front(work) \in Seq(E)
      /\ Last(work) \in E /\ Last(work) = work[Len(work)]
      /\ Len(work) \in Nat \ {0} /\ Len(Front(work)) = Len(work) - 1
      /\ \A n \in 1..Len(work) - 1 : Front(work)[n] = work[n]
  BY <1>1, FrontLast
<1>3. pc \in R /\ stack \in Seq(ValueType) /\ Last(work) = <<pc, stack>>
  BY <1>2
<1>4. CASE StepRefusal(container, index, pc, stack) # "none"
  <2>1. Refuse(StepRefusal(container, index, pc, stack))
    BY <1>4 DEF Visit
  <2>. QED
    BY <2>1, RefusalNames, RefuseInv
<1>5. CASE StepRefusal(container, index, pc, stack) = "none"
  <2>1. /\ pc \notin DOMAIN at
        /\ at' = [p \in DOMAIN at \cup {pc} |-> IF p = pc THEN stack ELSE at[p]]
        /\ work' = Front(work) \o follow
        /\ stacks' = [stacks EXCEPT
                        ![index] = Max({stacks[index], Len(stack), Len(result)})]
        /\ UNCHANGED <<container, stage, verdict, index, shapes>>
    BY <1>5 DEF Visit
  <2>2. result \in Seq(ValueType)
    BY <1>1, <1>3, <1>5, EffectType
  <2>3. Successors(container, pc) \subseteq R
    BY <1>5, StepPasses
  <2>4. /\ follow \in Seq(E)
        /\ \A s \in Successors(container, pc) :
             \E n \in 1..Len(follow) : follow[n] = <<s, result>>
    <3>. HIDE DEF result
    <3>. QED
      BY <2>2, <2>3, FollowSuccessors
  <2>5. /\ stacks' \in [Functions(container) -> Nat]
        /\ stacks'[index] >= stacks[index]
        /\ stacks'[index] >= Len(stack)
        /\ stacks'[index] >= Len(result)
        /\ \A i \in Functions(container) : i # index => stacks'[i] = stacks[i]
    <3>1. stacks[index] \in Nat /\ Len(stack) \in Nat /\ Len(result) \in Nat
      BY <1>1, <1>3, <2>2, LenProperties
    <3>. DEFINE m == Max({stacks[index], Len(stack), Len(result)})
    <3>2. m \in Nat /\ m >= stacks[index] /\ m >= Len(stack) /\ m >= Len(result)
      BY <3>1, MaxOfThree
    <3>. HIDE DEF m
    <3>3. stacks' = [stacks EXCEPT ![index] = m]
      BY <2>1 DEF m
    <3>. QED
      BY <1>1, <3>2, <3>3
  <2>6. /\ work' \in Seq(E)
        /\ Len(work') = Len(work) - 1 + Len(follow)
        /\ \A n \in 1..Len(work) - 1 : work'[n] = work[n]
        /\ \A n \in 1..Len(follow) : /\ Len(work) - 1 + n \in 1..Len(work')
                                    /\ work'[Len(work) - 1 + n] = follow[n]
    <3>. HIDE DEF follow, E
    <3>1. Len(follow) \in Nat
      BY <2>4, LenProperties
    <3>. DEFINE f == Front(work)
                m == Len(work) - 1
    <3>2. f \in Seq(E) /\ Len(f) = m /\ m \in Nat /\ \A n \in 1..m : f[n] = work[n]
      BY <1>2
    <3>3. work' = f \o follow
      BY <2>1
    <3>. HIDE DEF f, m
    <3>4. /\ work' \in Seq(E) /\ Len(work') = m + Len(follow)
          /\ \A n \in 1..m + Len(follow) :
                work'[n] = IF n <= m THEN f[n] ELSE follow[n - m]
      BY <3>1, <3>2, <3>3, <2>4, ConcatProperties
    <3>5. \A n \in 1..m : work'[n] = work[n]
      BY <3>1, <3>2, <3>4
    <3>6. \A n \in 1..Len(follow) : m + n \in 1..Len(work') /\ work'[m + n] = follow[n]
      BY <3>1, <3>2, <3>4
    <3>. QED
      BY <3>4, <3>5, <3>6 DEF m
  <2>7. VerifyTypeOK'
    <3>1. DOMAIN at' \subseteq R /\ \A p \in DOMAIN at' : at'[p] \in Seq(ValueType)
      BY <1>1, <1>3, <2>1 DEF VerifyTypeOK
    <3>. QED
      BY <2>1, <2>5, <2>6, <3>1 DEF VerifyTypeOK
  <2>8. \A q, t : Owed(q, t) => Owed(q, t)'
    <3>. SUFFICES ASSUME NEW q, NEW t, Owed(q, t) PROVE Owed(q, t)'
      OBVIOUS
    <3>1. CASE q \in DOMAIN at /\ at[q] = t
      <4>1. q \in DOMAIN at' /\ at'[q] = t
        BY <3>1, <2>1
      <4>. QED
        BY <4>1 DEF Owed
    <3>2. CASE \E n \in 1..Len(work) : work[n] = <<q, t>>
      <4>1. PICK n \in 1..Len(work) : work[n] = <<q, t>>
        BY <3>2
      <4>2. CASE n = Len(work)
        <5>1. pc = q /\ stack = t
          BY <4>1, <4>2, <1>2
        <5>2. q \in DOMAIN at' /\ at'[q] = t
          BY <5>1, <2>1
        <5>. QED
          BY <5>2 DEF Owed
      <4>3. CASE n # Len(work)
        <5>1. n \in 1..Len(work) - 1
          BY <4>1, <4>3, <1>2
        <5>2. work'[n] = <<q, t>>
          BY <5>1, <4>1, <2>6
        <5>3. n \in 1..Len(work')
          <6>1. Len(follow) \in Nat
            BY <2>4, LenProperties
          <6>. QED
            BY <5>1, <6>1, <1>2, <2>6
        <5>. QED
          BY <5>2, <5>3 DEF Owed
      <4>. QED
        BY <4>2, <4>3
    <3>. QED
      BY <3>1, <3>2 DEF Owed
  <2>9. ASSUME NEW t, t = result, NEW s \in Successors(container, pc)
        PROVE  Owed(s, t)'
    <3>. HIDE DEF result, follow
    <3>1. PICK n \in 1..Len(follow) : follow[n] = <<s, t>>
      BY <2>4, <2>9
    <3>2. /\ Len(work) - 1 + n \in 1..Len(work')
          /\ work'[Len(work) - 1 + n] = <<s, t>>
      BY <3>1, <2>6
    <3>. QED
      BY <3>2 DEF Owed
  <2>10. WalkOwes'
    <3>1. ASSUME NEW p \in DOMAIN at, NEW t, t = Effect(container, index, p, at[p])
          PROVE  /\ StepRefusal(container, index, p, at[p]) = "none"
                 /\ Len(at[p]) <= stacks[index] /\ Len(t) <= stacks[index]
                 /\ \A s \in Successors(container, p) : Owed(s, t)
      BY <1>1, <3>1 DEF WalkOwes
    <3>2. ASSUME NEW p \in DOMAIN at', NEW e, e = at'[p],
                 NEW t, t = Effect(container, index, p, e)
          PROVE  /\ StepRefusal(container, index, p, e) = "none"
                 /\ Len(e) <= stacks'[index] /\ Len(t) <= stacks'[index]
                 /\ \A s \in Successors(container, p) : Owed(s, t)'
      <4>1. CASE p = pc
        <5>1. e = stack /\ t = result
          BY <4>1, <3>2, <2>1
        <5>. HIDE DEF pc, stack, result
        <5>. QED
          BY <4>1, <5>1, <1>5, <2>5, <2>9
      <4>2. CASE p # pc
        <5>1. p \in DOMAIN at /\ e = at[p]
          BY <4>2, <3>2, <2>1
        <5>2. /\ StepRefusal(container, index, p, e) = "none"
              /\ Len(e) <= stacks[index] /\ Len(t) <= stacks[index]
              /\ \A s \in Successors(container, p) : Owed(s, t)
          BY <5>1, <3>2, <3>1
        <5>3. Len(e) \in Nat /\ stacks[index] \in Nat /\ stacks'[index] \in Nat
          <6>1. e \in Seq(ValueType)
            BY <1>1, <5>1 DEF VerifyTypeOK
          <6>. QED
            BY <6>1, <1>1, <2>5, LenProperties
        <5>4. Len(t) \in Nat
          <6>1. p \in R /\ e \in Seq(ValueType)
            BY <1>1, <5>1 DEF VerifyTypeOK
          <6>2. t \in Seq(ValueType)
            BY <1>1, <5>2, <6>1, <3>2, EffectType
          <6>. QED
            BY <6>2, LenProperties
        <5>. QED
          BY <5>2, <5>3, <5>4, <2>5, <2>8
      <4>. QED
        BY <4>1, <4>2
    <3>3. ASSUME NEW q, q = Start(container, index)
          PROVE  Owed(q, <<>>)'
      BY <1>1, <2>8, <3>3 DEF WalkOwes
    <3>4. Owed(Start(container, index), <<>>)'
      BY <2>1, <3>3 DEF Owed
    <3>5. ASSUME NEW p \in DOMAIN at'
          PROVE  (/\ StepRefusal(container, index, p, at[p]) = "none"
                  /\ Len(at[p]) <= stacks[index]
                  /\ Len(Effect(container, index, p, at[p])) <= stacks[index]
                  /\ \A s \in Successors(container, p) :
                       Owed(s, Effect(container, index, p, at[p])))'
      <4>1. PICK e : e = at'[p]
        OBVIOUS
      <4>2. PICK t : t = Effect(container, index, p, e)
        OBVIOUS
      <4>3. /\ StepRefusal(container, index, p, e) = "none"
            /\ Len(e) <= stacks'[index] /\ Len(t) <= stacks'[index]
            /\ \A s \in Successors(container, p) : Owed(s, t)'
        BY <3>2, <4>1, <4>2
      <4>4. container' = container /\ index' = index
        BY <2>1
      <4>. HIDE DEF pc, stack, R, E, result, follow
      <4>. QED
        BY <4>1, <4>2, <4>3, <4>4 DEF Owed
    <3>6. (stage \in {"begin", "walk"} => RegionsTile(container))'
      BY <1>1, <2>1
    <3>. QED
      BY <3>4, <3>5, <3>6 DEF WalkOwes
  <2>11. WalkIsSound'
    <3>1. \A i \in Functions(container) : i < index => stacks'[i] = stacks[i]
      BY <1>1, <2>5 DEF Functions
    <3>. QED
      BY <2>1, <3>1, SoundUnchanged
  <2>. QED
    BY <2>7, <2>10, <2>11
<1>. QED
  BY <1>4, <1>5

LEMMA EndWalkInv ==
  ASSUME VerifyInv, EndWalk
  PROVE  VerifyInv'
<1>. USE DEF VerifyInv
<1>. DEFINE coverage == CoverageRefusal(container, index, at)
            loops    == LoopRefusals(container, at)
<1>1. CASE coverage # "none" /\ Refuse(coverage)
  BY <1>1, RefusalNames, RefuseInv
<1>2. CASE \E r \in loops : Refuse(r)
  <2>1. PICK r \in loops : Refuse(r)
    BY <1>2
  <2>2. r # "pending"
    BY <2>1, RefusalNames
  <2>. QED
    BY <2>1, <2>2, RefuseInv
<1>3. CASE /\ coverage = "none" /\ loops = {}
           /\ shapes' = [shapes EXCEPT ![index] = at]
           /\ index' = index + 1
           /\ stage' = "begin"
           /\ UNCHANGED <<container, verdict, work, at, stacks>>
  <2>1. /\ stage = "walk" /\ work = <<>> /\ index \in Functions(container)
        /\ Decoded(container) /\ DOMAIN shapes = Functions(container)
        /\ DOMAIN at \subseteq Region(container, index)
    BY DEF EndWalk, VerifyTypeOK
  <2>2. Len(container.functions) \in Nat
    BY <2>1, LenProperties DEF Decoded, DecodedContainer
  <2>3. VerifyTypeOK'
    <3>1. index + 1 \in 0..Len(container.functions)
      BY <2>1, <2>2 DEF Functions
    <3>. QED
      BY <1>3, <2>1, <3>1 DEF VerifyTypeOK
  <2>4. WalkOwes'
    BY <1>3, <2>1 DEF WalkOwes
  <2>5. \A q, t : Owed(q, t) => q \in DOMAIN at /\ at[q] = t
    <3>1. 1..Len(work) = {}
      BY <2>1
    <3>. QED
      BY <3>1 DEF Owed
  <2>6. /\ Certificate(container, index, at)
        /\ \A p \in DOMAIN at :
             /\ Len(at[p]) <= stacks[index]
             /\ Len(Effect(container, index, p, at[p])) <= stacks[index]
    BY <2>1, <2>5 DEF WalkOwes, Certificate, Closed
  <2>7. WalkIsSound'
    <3>. SUFFICES ASSUME NEW i \in Functions(container), i < index + 1
                  PROVE  /\ Certificate(container, i, shapes'[i])
                         /\ \A p \in DOMAIN shapes'[i] :
                              /\ Len(shapes'[i][p]) <= stacks[i]
                              /\ Len(Effect(container, i, p, shapes'[i][p])) <= stacks[i]
      BY <1>3 DEF WalkIsSound
    <3>1. CASE i = index
      BY <3>1, <1>3, <2>1, <2>6
    <3>2. CASE i # index
      <4>1. i < index
        BY <3>2, <2>1 DEF Functions
      <4>2. shapes'[i] = shapes[i]
        BY <3>2, <1>3, <2>1
      <4>. QED
        BY <4>1, <4>2 DEF WalkIsSound
    <3>. QED
      BY <3>1, <3>2
  <2>. QED
    BY <2>3, <2>4, <2>7
<1>. QED
  BY <1>1, <1>2, <1>3 DEF EndWalk

(* The stages before and after the walks, and the start of one. *)
LEMMA OtherStagesInv ==
  ASSUME VerifyInv, CheckGroups \/ CodeRegions \/ BeginWalk \/ CallGraph \/ CompareDeclared
  PROVE  VerifyInv'
<1>. USE DEF VerifyInv
<1>1. CASE \E r : r # "pending" /\ Refuse(r)
  BY <1>1, RefuseInv
<1>2. CASE /\ stage \in {"groups", "regions", "begin", "declared"}
           /\ stage' \in {"regions", "begin", "declared"} /\ verdict' = verdict
           /\ stage' = "begin" => RegionsTile(container)
           /\ UNCHANGED <<container, index, work, at, shapes, stacks>>
  <2>1. VerifyTypeOK'
    BY <1>2 DEF VerifyTypeOK
  <2>2. WalkOwes'
    BY <1>2 DEF WalkOwes
  <2>3. WalkIsSound'
    BY <1>2, SoundUnchanged
  <2>. QED
    BY <2>1, <2>2, <2>3
<1>3. CASE BeginWalk
  <2>1. /\ stage' = "walk" /\ index \in Functions(container)
        /\ work' = <<<<Start(container, index), <<>>>>>>
        /\ at' = [p \in {} |-> <<>>]
        /\ UNCHANGED <<container, verdict, index, shapes, stacks>>
        /\ RegionsTile(container) /\ Decoded(container)
    BY <1>3 DEF BeginWalk, WalkOwes, VerifyTypeOK
  <2>. DEFINE first == <<Start(container, index), <<>>>>
              E     == Region(container, index) \X Seq(ValueType)
  <2>2. Start(container, index) \in Region(container, index)
    BY <2>1, RegionInCode DEF Region
  <2>3. first \in E
    <3>1. \A A, B : \A a \in A, b \in B : <<a, b>> \in A \X B
      OBVIOUS
    <3>2. <<>> \in Seq(ValueType)
      BY EmptySeq
    <3>. QED
      BY <2>2, <3>1, <3>2, Zenon
  <2>4. work' \in Seq(E) /\ Len(work') = 1 /\ work'[1] = first
    <3>1. work' = <<first>>
      BY <2>1
    <3>. HIDE DEF first, E
    <3>. QED
      BY <3>1, <2>3, Singleton
  <2>5. VerifyTypeOK'
    BY <1>3, <2>1, <2>4 DEF VerifyTypeOK, BeginWalk
  <2>6. WalkOwes'
    <3>1. 1 \in 1..Len(work') /\ work'[1] = <<Start(container, index), <<>>>>
      BY <2>4
    <3>2. Owed(Start(container, index), <<>>)'
      BY <3>1, <2>1 DEF Owed
    <3>. QED
      BY <2>1, <3>2 DEF WalkOwes
  <2>7. WalkIsSound'
    BY <2>1, SoundUnchanged
  <2>. QED
    BY <2>5, <2>6, <2>7
<1>4. CASE /\ CompareDeclared /\ verdict' = "accepted" /\ stage' = "done"
           /\ UNCHANGED <<container, index, work, at, shapes, stacks>>
  <2>1. VerifyTypeOK'
    BY <1>4 DEF VerifyTypeOK
  <2>2. WalkOwes'
    BY <1>4 DEF WalkOwes
  <2>3. WalkIsSound'
    BY <1>4, SoundUnchanged
  <2>. QED
    BY <2>1, <2>2, <2>3
<1>5. CASE CheckGroups
  BY <1>1, <1>2, <1>5 DEF CheckGroups
<1>6. CASE CodeRegions
  BY <1>1, <1>2, <1>6 DEF CodeRegions
<1>7. CASE CallGraph
  <2>1. "pending" \notin GraphRefusals(container)
    BY RefusalNames
  <2>. QED
    BY <1>1, <1>2, <1>7, <2>1 DEF CallGraph
<1>8. CASE CompareDeclared
  <2>1. DeclaredRefusal(container, stacks) # "pending"
    BY RefusalNames
  <2>. QED
    BY <1>1, <1>4, <1>8, <2>1 DEF CompareDeclared
<1>. QED
  BY <1>3, <1>5, <1>6, <1>7, <1>8

LEMMA NextInv ==
  ASSUME VerifyInv, [VerifyNext]_verifyVars
  PROVE  VerifyInv'
<1>1. CASE VerifyNext
  BY <1>1, JoinInv, VisitInv, EndWalkInv, OtherStagesInv DEF VerifyNext
<1>2. CASE UNCHANGED verifyVars
  BY <1>2 DEF verifyVars, VerifyInv, VerifyTypeOK, WalkOwes, Owed, WalkIsSound
<1>. QED
  BY <1>1, <1>2

-----------------------------------------------------------------------------
(* The type invariant of verify(): every type stack _walk carries holds value
   types and every pc it visits or queues lies in the function's own code. *)
THEOREM VerifyIsTyped == VerifySpec => []VerifyTypeOK
<1>1. VerifyInv => VerifyTypeOK
  BY DEF VerifyInv
<1>. QED
  BY InitInv, NextInv, <1>1, PTL DEF VerifySpec

(* Whatever order the worklist of _walk takes, nothing it owes is lost. *)
THEOREM WalkLosesNothing == VerifySpec => []WalkOwes
<1>1. VerifyInv => WalkOwes
  BY DEF VerifyInv
<1>. QED
  BY InitInv, NextInv, <1>1, PTL DEF VerifySpec

(* _walk is sound for every container: a function it finishes has a typing
   closed under every instruction of it, within high_water. *)
THEOREM WalkSoundness == VerifySpec => []WalkIsSound
<1>1. VerifyInv => WalkIsSound
  BY DEF VerifyInv
<1>. QED
  BY InitInv, NextInv, <1>1, PTL DEF VerifySpec

-----------------------------------------------------------------------------
(* Sets that grow, turn by turn, inside a finite one. *)
Grower(D, start, grow) ==
  /\ IsFiniteSet(D)
  /\ start \in SUBSET D /\ start # {}
  /\ grow \in [SUBSET D -> SUBSET D]
  /\ \A S \in SUBSET D : S \subseteq grow[S]

Growth(D, start, grow, f) ==
  /\ f \in [Nat -> SUBSET D]
  /\ f[0] = start
  /\ \A n \in Nat : f[n + 1] = grow[f[n]]

(* What such a definition by recursion on the turns is. *)
Turns(start, grow) == CHOOSE w : w = [n \in Nat |-> IF n = 0 THEN start ELSE grow[w[n - 1]]]

LEMMA GrowthDefined ==
  ASSUME NEW D, NEW start, NEW grow, Grower(D, start, grow)
  PROVE  Growth(D, start, grow, Turns(start, grow))
<1>. DEFINE step(w) == [n \in Nat |-> IF n = 0 THEN start ELSE grow[w[n - 1]]]
            within == CHOOSE w : w = step(w)
<1>1. grow \in [SUBSET D -> SUBSET D] /\ start \in SUBSET D
  BY DEF Grower
<1>2. Iterated(SUBSET D, start, grow)
  BY <1>1, Iterates
<1>3. PICK f \in [Nat -> SUBSET D] : f[0] = start /\ \A n \in Nat : f[n + 1] = grow[f[n]]
  BY <1>2 DEF Iterated
<1>4. f = step(f)
  <2>1. ASSUME NEW n \in Nat PROVE f[n] = IF n = 0 THEN start ELSE grow[f[n - 1]]
    <3>1. CASE n # 0
      <4>1. n - 1 \in Nat /\ (n - 1) + 1 = n
        BY <3>1
      <4>2. f[(n - 1) + 1] = grow[f[n - 1]]
        BY <1>3, <4>1
      <4>. QED
        BY <3>1, <4>1, <4>2
    <3>. QED
      BY <1>3, <3>1
  <2>. QED
    BY <1>3, <2>1
<1>5. within = step(within)
  BY <1>4
<1>6. \A n \in Nat : within[n + 1] = grow[within[n]]
  <2>. HIDE DEF within
  <2>1. ASSUME NEW n \in Nat PROVE within[n + 1] = grow[within[n]]
    <3>1. PICK m \in Nat : m = n + 1 /\ m # 0 /\ m - 1 = n
      OBVIOUS
    <3>2. within[m] = grow[within[m - 1]]
      BY <1>5, <3>1, ZenonT(30)
    <3>. QED
      BY <3>1, <3>2
  <2>. QED
    BY <2>1
<1>7. within = f
  <2>. HIDE DEF within
  <2>. DEFINE Differ == {n \in Nat : within[n] # f[n]}
  <2>1. Differ = {}
    <3>1. SUFFICES ASSUME Differ # {} PROVE FALSE
      OBVIOUS
    <3>2. PICK n \in Differ : \A m \in Differ : n <= m
      BY <3>1, LeastNatural
    <3>3. n \in Nat /\ within[0] = start
      BY <1>5, <3>2
    <3>4. n # 0
      BY <1>3, <3>2, <3>3
    <3>5. n - 1 \in Nat /\ n - 1 \notin Differ /\ (n - 1) + 1 = n
      BY <3>2, <3>3, <3>4
    <3>. QED
      BY <1>3, <1>6, <3>2, <3>5
  <2>2. DOMAIN within = Nat /\ within = [n \in Nat |-> within[n]]
    BY <1>5
  <2>. QED
    BY <1>3, <2>1, <2>2
<1>8. Turns(start, grow) = within
  BY DEF Turns
<1>. QED
  BY <1>3, <1>7, <1>8 DEF Growth

LEMMA GrowthGrows ==
  ASSUME NEW D, NEW start, NEW grow, Grower(D, start, grow), NEW f, Growth(D, start, grow, f),
         NEW n \in Nat, NEW m \in Nat, n <= m
  PROVE  f[n] \subseteq f[m]
<1>. DEFINE Bad == {k \in Nat : n <= k /\ ~(f[n] \subseteq f[k])}
<1>1. SUFFICES ASSUME Bad # {} PROVE FALSE
  OBVIOUS
<1>2. PICK k \in Bad : \A y \in Bad : k <= y
  BY <1>1, LeastNatural
<1>3. k # n /\ k \in Nat /\ n <= k
  BY <1>2
<1>4. k - 1 \in Nat /\ (k - 1) + 1 = k /\ n <= k - 1 /\ k - 1 \notin Bad
  BY <1>2, <1>3
<1>5. /\ f[n] \subseteq f[k - 1] /\ f[(k - 1) + 1] = grow[f[k - 1]]
      /\ f[k - 1] \in SUBSET D
  BY <1>4 DEF Growth
<1>6. f[k - 1] \subseteq grow[f[k - 1]]
  BY <1>5 DEF Grower
<1>. QED
  BY <1>2, <1>4, <1>5, <1>6

(* Once a turn adds nothing, no later one does. *)
LEMMA GrowthSettles ==
  ASSUME NEW D, NEW start, NEW grow, NEW f, Growth(D, start, grow, f),
         NEW n \in Nat, f[n + 1] = f[n], NEW m \in Nat, n <= m
  PROVE  f[m] = f[n]
<1>. DEFINE Bad == {k \in Nat : n <= k /\ f[k] # f[n]}
<1>1. SUFFICES ASSUME Bad # {} PROVE FALSE
  OBVIOUS
<1>2. PICK k \in Bad : \A y \in Bad : k <= y
  BY <1>1, LeastNatural
<1>3. k # n /\ k \in Nat /\ n <= k
  BY <1>2
<1>4. k - 1 \in Nat /\ (k - 1) + 1 = k /\ n <= k - 1 /\ k - 1 \notin Bad
  BY <1>2, <1>3
<1>5. f[k - 1] = f[n]
  BY <1>4
<1>6. f[(k - 1) + 1] = f[n + 1]
  BY <1>4, <1>5 DEF Growth
<1>. QED
  BY <1>2, <1>4, <1>6

(* As many turns as there are elements are enough. *)
LEMMA GrowthEnds ==
  ASSUME NEW D, NEW start, NEW grow, Grower(D, start, grow), NEW f, Growth(D, start, grow, f)
  PROVE  /\ start \subseteq f[Cardinality(D)] /\ f[Cardinality(D)] \subseteq D
         /\ grow[f[Cardinality(D)]] = f[Cardinality(D)]
<1>. DEFINE C == Cardinality(D)
            Small == {n \in Nat : n <= C + 1 /\ ~(n < Cardinality(f[n]))}
<1>0. IsFiniteSet(D) /\ C \in Nat
  BY FS_CardinalityType DEF Grower
<1>1. \A n \in Nat : /\ f[n] \in SUBSET D /\ IsFiniteSet(f[n])
                     /\ Cardinality(f[n]) \in Nat /\ Cardinality(f[n]) <= C
  <2>1. \A n \in Nat : f[n] \in SUBSET D
    BY DEF Growth
  <2>. QED
    BY <1>0, <2>1, FS_Subset, FS_CardinalityType
<1>2. f[C + 1] = f[C]
  <2>2. SUFFICES ASSUME f[C + 1] # f[C] PROVE FALSE
    OBVIOUS
  <2>3. \A n \in Nat : n <= C => f[n + 1] # f[n]
    <3>1. ASSUME NEW n \in Nat, n <= C, f[n + 1] = f[n] PROVE FALSE
      <4>1. f[C] = f[n] /\ f[C + 1] = f[n]
        BY <1>0, <3>1, GrowthSettles
      <4>. QED
        BY <2>2, <4>1
    <3>. QED
      BY <3>1
  <2>4. C + 1 \in Small
    BY <1>0, <1>1
  <2>5. PICK n \in Small : \A y \in Small : n <= y
    BY <2>4, LeastNatural
  <2>6. n # 0
    <3>1. f[0] # {} /\ IsFiniteSet(f[0])
      BY <1>1 DEF Growth, Grower
    <3>2. Cardinality(f[0]) # 0
      BY <3>1, FS_EmptySet
    <3>3. Cardinality(f[0]) \in Nat
      BY <1>1
    <3>. QED
      BY <2>5, <3>2, <3>3
  <2>7. n - 1 \in Nat /\ (n - 1) + 1 = n /\ n - 1 <= C /\ n - 1 \notin Small
    BY <1>0, <2>5, <2>6
  <2>8. n - 1 < Cardinality(f[n - 1])
    BY <2>7, <1>0
  <2>9. f[n - 1] \subseteq f[n] /\ f[n - 1] # f[n]
    <3>1. n \in Nat /\ n - 1 <= n
      BY <2>5
    <3>. QED
      BY <2>3, <2>7, <3>1, GrowthGrows
  <2>10. Cardinality(f[n - 1]) < Cardinality(f[n])
    <3>1. n \in Nat
      BY <2>5
    <3>2. IsFiniteSet(f[n]) /\ f[n - 1] \in SUBSET f[n]
      BY <1>1, <2>9, <3>1
    <3>3. /\ Cardinality(f[n - 1]) <= Cardinality(f[n])
          /\ Cardinality(f[n]) # Cardinality(f[n - 1])
      BY <2>9, <3>2, FS_Subset
    <3>. QED
      BY <1>1, <2>7, <3>1, <3>3
  <2>. QED
    BY <1>1, <2>5, <2>7, <2>8, <2>10
<1>3. f[C + 1] = grow[f[C]]
  BY <1>0 DEF Growth
<1>4. f[0] \subseteq f[C]
  BY <1>0, GrowthGrows
<1>. QED
  BY <1>0, <1>1, <1>2, <1>3, <1>4 DEF Growth

-----------------------------------------------------------------------------
(* Graphs. *)
Graph(graph) ==
  /\ IsFiniteSet(DOMAIN graph)
  /\ graph \in [DOMAIN graph -> SUBSET DOMAIN graph]

ClosedUnder(graph, S) == \A k \in S : graph[k] \subseteq S

(* R is the least set with i in it that no edge leaves. *)
Closure(graph, i, R) ==
  /\ R \subseteq DOMAIN graph
  /\ i \in R
  /\ ClosedUnder(graph, R)
  /\ \A S \in SUBSET DOMAIN graph : i \in S /\ ClosedUnder(graph, S) => R \subseteq S

(* A turn of `Reached`. *)
Spread(graph) == [S \in SUBSET DOMAIN graph |-> S \cup UNION {graph[k] : k \in S}]

LEMMA ReachedSpreads ==
  ASSUME NEW graph, Graph(graph), NEW i \in DOMAIN graph
  PROVE  /\ Grower(DOMAIN graph, {i}, Spread(graph))
         /\ Reached(graph, i) = Turns({i}, Spread(graph))[Cardinality(DOMAIN graph)]
<1>1. Grower(DOMAIN graph, {i}, Spread(graph))
  BY DEF Graph, Grower, Spread
<1>2. Reached(graph, i) = Turns({i}, Spread(graph))[Cardinality(DOMAIN graph)]
  BY DEF Reached, Turns, Spread
<1>. QED
  BY <1>1, <1>2

LEMMA ReachedIsClosure ==
  ASSUME NEW graph, Graph(graph), NEW i \in DOMAIN graph
  PROVE  Closure(graph, i, Reached(graph, i))
<1>. DEFINE D == DOMAIN graph
            C == Cardinality(D)
            R == Reached(graph, i)
            grow == Spread(graph)
            f == Turns({i}, grow)
<1>1. Growth(D, {i}, grow, f) /\ Grower(D, {i}, grow) /\ R = f[C]
  BY ReachedSpreads, GrowthDefined
<1>. HIDE DEF f
<1>2. C \in Nat
  BY FS_CardinalityType DEF Graph
<1>3. {i} \subseteq f[C] /\ f[C] \subseteq D /\ grow[f[C]] = f[C]
  BY <1>1, GrowthEnds
<1>4. R \subseteq D /\ i \in R /\ f[0] = {i}
  BY <1>1, <1>3 DEF Growth
<1>5. ClosedUnder(graph, R)
  BY <1>1, <1>3 DEF ClosedUnder, Spread
<1>6. ASSUME NEW S \in SUBSET D, i \in S, ClosedUnder(graph, S) PROVE R \subseteq S
  <2>. DEFINE Bad == {n \in Nat : ~(f[n] \subseteq S)}
  <2>1. SUFFICES ASSUME Bad # {} PROVE FALSE
    BY <1>1, <1>2
  <2>2. PICK n \in Bad : \A y \in Bad : n <= y
    BY <2>1, LeastNatural
  <2>3. n # 0
    BY <1>4, <1>6, <2>2
  <2>4. n - 1 \in Nat /\ (n - 1) + 1 = n /\ n - 1 \notin Bad
    BY <2>2, <2>3
  <2>5. f[(n - 1) + 1] = f[n - 1] \cup UNION {graph[k] : k \in f[n - 1]}
    BY <1>1, <2>4 DEF Growth, Spread
  <2>6. f[n - 1] \subseteq S
    BY <2>4
  <2>7. f[n] \subseteq S
    BY <1>6, <2>4, <2>5, <2>6 DEF ClosedUnder
  <2>. QED
    BY <2>2, <2>7
<1>. QED
  BY <1>4, <1>5, <1>6 DEF Closure

(* What is reached from what is reached. *)
LEMMA ReachedOn ==
  ASSUME NEW graph, Graph(graph), NEW i \in DOMAIN graph, NEW j \in Reached(graph, i)
  PROVE  /\ j \in DOMAIN graph
         /\ Reached(graph, j) \subseteq Reached(graph, i)
<1>1. Closure(graph, i, Reached(graph, i))
  BY ReachedIsClosure
<1>2. j \in DOMAIN graph
  BY <1>1 DEF Closure
<1>3. Closure(graph, j, Reached(graph, j))
  BY <1>2, ReachedIsClosure
<1>. QED
  BY <1>1, <1>2, <1>3 DEF Closure

(* The component of i is that of each of its members, and an edge that leaves
   it does not come back. *)
LEMMA ComponentFacts ==
  ASSUME NEW graph, Graph(graph), NEW i \in DOMAIN graph
  PROVE  /\ i \in Component(graph, i)
         /\ Component(graph, i) \subseteq DOMAIN graph
         /\ \A j \in Component(graph, i) :
              /\ Component(graph, j) = Component(graph, i)
              /\ Reached(graph, j) = Reached(graph, i)
         /\ \A k \in Component(graph, i) : graph[k] \subseteq Reached(graph, i)
         /\ \A j \in Reached(graph, i) \ Component(graph, i) :
              i \notin Reached(graph, j)
<1>1. Closure(graph, i, Reached(graph, i))
  BY ReachedIsClosure
<1>2. /\ i \in Component(graph, i) /\ Component(graph, i) \subseteq DOMAIN graph
      /\ \A k \in Component(graph, i) : graph[k] \subseteq Reached(graph, i)
  BY <1>1 DEF Component, Closure, ClosedUnder
<1>3. ASSUME NEW j \in Component(graph, i)
      PROVE  /\ Component(graph, j) = Component(graph, i)
             /\ Reached(graph, j) = Reached(graph, i)
  <2>1. j \in Reached(graph, i) /\ i \in Reached(graph, j) /\ j \in DOMAIN graph
    BY <1>2, <1>3 DEF Component
  <2>2. Reached(graph, j) = Reached(graph, i)
    BY <2>1, ReachedOn
  <2>3. ASSUME NEW k \in Reached(graph, i)
        PROVE  i \in Reached(graph, k) <=> j \in Reached(graph, k)
    <3>1. k \in DOMAIN graph
      BY <2>3, ReachedOn
    <3>. QED
      BY <2>1, <3>1, ReachedOn
  <2>. QED
    BY <2>2, <2>3 DEF Component
<1>. QED
  BY <1>2, <1>3 DEF Component

-----------------------------------------------------------------------------
(* What a component calls into. *)
Beyond(graph, i) ==
  (UNION {graph[k] : k \in Component(graph, i)}) \ Component(graph, i)

(* What WorstCase says of every function. *)
Sums(graph, cost, W) ==
  /\ W \in [DOMAIN graph -> Nat]
  /\ \A i \in DOMAIN graph :
       W[i] = cost[i] + Max({0} \cup {W[j] : j \in Beyond(graph, i)})

LEMMA BeyondIsLower ==
  ASSUME NEW graph, Graph(graph), NEW i \in DOMAIN graph
  PROVE  /\ Beyond(graph, i) \subseteq DOMAIN graph /\ IsFiniteSet(Beyond(graph, i))
         /\ \A j \in Beyond(graph, i) :
              Cardinality(Reached(graph, j)) < Cardinality(Reached(graph, i))
<1>1. Closure(graph, i, Reached(graph, i))
  BY ReachedIsClosure
<1>2. Beyond(graph, i) \subseteq Reached(graph, i) \ Component(graph, i)
  <2>1. \A k \in Component(graph, i) : graph[k] \subseteq Reached(graph, i)
    BY ComponentFacts
  <2>2. ASSUME NEW j \in Beyond(graph, i)
        PROVE  j \in Reached(graph, i) /\ j \notin Component(graph, i)
    <3>1. PICK k \in Component(graph, i) : j \in graph[k]
      BY <2>2 DEF Beyond
    <3>. QED
      BY <2>1, <2>2, <3>1 DEF Beyond
  <2>. QED
    BY <2>2
<1>3. Beyond(graph, i) \in SUBSET DOMAIN graph
  BY <1>1, <1>2 DEF Closure
<1>4. IsFiniteSet(DOMAIN graph)
  BY DEF Graph
<1>5. IsFiniteSet(Beyond(graph, i)) /\ IsFiniteSet(Reached(graph, i))
  BY <1>1, <1>3, <1>4, FS_Subset DEF Closure
<1>6. ASSUME NEW j \in Beyond(graph, i)
      PROVE  Cardinality(Reached(graph, j)) < Cardinality(Reached(graph, i))
  <2>1. Reached(graph, j) \in SUBSET Reached(graph, i) /\ i \notin Reached(graph, j)
    BY <1>2, ReachedOn, ComponentFacts
  <2>2. Reached(graph, j) # Reached(graph, i)
    BY <1>1, <2>1 DEF Closure
  <2>3. /\ IsFiniteSet(Reached(graph, j))
        /\ Cardinality(Reached(graph, j)) <= Cardinality(Reached(graph, i))
        /\ Cardinality(Reached(graph, i)) # Cardinality(Reached(graph, j))
    BY <1>5, <2>1, <2>2, FS_Subset
  <2>. QED
    BY <1>5, <2>3, FS_CardinalityType
<1>. QED
  BY <1>3, <1>5, <1>6

LEMMA ImageIsFinite ==
  ASSUME NEW B, IsFiniteSet(B), NEW f
  PROVE  IsFiniteSet({f[j] : j \in B})
<1>. DEFINE image == {f[j] : j \in B}
            g == [j \in B |-> f[j]]
<1>1. g \in Surjection(B, image)
  BY DEF Surjection
<1>. QED
  <2>. HIDE DEF image, g
  <2>1. IsFiniteSet(image)
    BY <1>1, FS_Surjection
  <2>. QED
    BY <2>1 DEF image

(* The greatest of zero and finitely many numbers. *)
LEMMA MaxWithZero ==
  ASSUME NEW B, IsFiniteSet(B), NEW f, \A j \in B : f[j] \in Nat
  PROVE  /\ Max({0} \cup {f[j] : j \in B}) \in Nat
         /\ \A i \in B : f[i] <= Max({0} \cup {f[j] : j \in B})
<1>. DEFINE image == {f[j] : j \in B}
            S == {0} \cup image
<1>2. IsFiniteSet(image)
  BY ImageIsFinite
<1>3. IsFiniteSet(S)
  <2>1. IsFiniteSet({0})
    BY FS_Singleton
  <2>. HIDE DEF image
  <2>. QED
    BY <1>2, <2>1, FS_Union
<1>4. S \in SUBSET Nat /\ S # {}
  OBVIOUS
<1>5. Max(S) \in S /\ \A y \in S : y <= Max(S)
  <2>. HIDE DEF S
  <2>. QED
    BY <1>3, <1>4, MaxOfFinite
<1>. QED
  BY <1>4, <1>5

LEMMA WorstCaseSums ==
  ASSUME NEW graph, Graph(graph), NEW cost \in [DOMAIN graph -> Nat]
  PROVE  Sums(graph, cost, WorstCase(graph, cost))
<1>. DEFINE D == DOMAIN graph
            V == [D -> Nat]
            rank == [i \in D |-> Cardinality(Reached(graph, i))]
            sum(f, i) == cost[i] + Max({0} \cup {f[j] : j \in Beyond(graph, i)})
            rule == [f \in V |-> [i \in D |-> sum(f, i)]]
            W == CHOOSE w : w = [i \in D |-> sum(w, i)]
<1>1. rank \in [D -> Nat]
  <2>1. ASSUME NEW i \in D PROVE Cardinality(Reached(graph, i)) \in Nat
    <3>1. Reached(graph, i) \in SUBSET D
      BY ReachedIsClosure DEF Closure
    <3>. QED
      BY <3>1, FS_Subset, FS_CardinalityType DEF Graph
  <2>. QED
    BY <2>1
<1>2. ASSUME NEW f \in V, NEW i \in D PROVE sum(f, i) \in Nat
  <2>1. IsFiniteSet(Beyond(graph, i)) /\ \A j \in Beyond(graph, i) : f[j] \in Nat
    BY BeyondIsLower
  <2>2. Max({0} \cup {f[j] : j \in Beyond(graph, i)}) \in Nat
    BY <2>1, MaxWithZero
  <2>. QED
    BY <2>2
<1>3. rule \in [V -> V]
  BY <1>2
<1>4. ASSUME NEW i \in D, NEW g \in V, NEW h \in V,
             \A y \in D : rank[y] < rank[i] => g[y] = h[y]
      PROVE  rule[g][i] = rule[h][i]
  <2>1. \A j \in Beyond(graph, i) : j \in D /\ rank[j] < rank[i]
    BY BeyondIsLower
  <2>2. {g[j] : j \in Beyond(graph, i)} = {h[j] : j \in Beyond(graph, i)}
    BY <1>4, <2>1
  <2>3. sum(g, i) = sum(h, i)
    BY <2>2
  <2>4. rule[g][i] = sum(g, i) /\ rule[h][i] = sum(h, i)
    <3>. HIDE DEF sum
    <3>. QED
      OBVIOUS
  <2>. QED
    BY <2>3, <2>4
<1>5. Recursive(D, Nat, rank, rule)
  <2>. HIDE DEF rank, rule
  <2>. QED
    BY <1>1, <1>3, <1>4 DEF Recursive
<1>6. PICK f \in V : f = rule[f]
  <2>1. Solvable(D, Nat, rule)
    <3>. HIDE DEF rank, rule
    <3>. QED
      BY <1>5, Recursion
  <2>. QED
    BY <2>1 DEF Solvable
<1>7. f = [i \in D |-> sum(f, i)]
  BY <1>6
<1>8. W = [i \in D |-> sum(W, i)]
  BY <1>7
<1>9. W = f
  <2>. HIDE DEF W
  <2>. DEFINE P == {i \in D : W[i] = f[i]}
  <2>1. ASSUME NEW i \in D, \A y \in D : rank[y] < rank[i] => y \in P PROVE i \in P
    <3>1. \A j \in Beyond(graph, i) : j \in D /\ rank[j] < rank[i]
      BY BeyondIsLower
    <3>2. {W[j] : j \in Beyond(graph, i)} = {f[j] : j \in Beyond(graph, i)}
      BY <2>1, <3>1
    <3>3. sum(W, i) = sum(f, i)
      BY <3>2
    <3>4. W[i] = sum(W, i) /\ f[i] = sum(f, i)
      <4>. HIDE DEF sum
      <4>. QED
        BY <1>7, <1>8
    <3>. QED
      BY <3>3, <3>4
  <2>2. D \subseteq P
    <3>. HIDE DEF P, rank
    <3>. QED
      BY <1>1, <2>1, RankInduction
  <2>3. W = [i \in D |-> W[i]]
    <3>1. DOMAIN W = D
      BY <1>8
    <3>. QED
      BY <1>8, <3>1
  <2>. QED
    BY <2>2, <2>3
<1>10. WorstCase(graph, cost) = W
  BY DEF WorstCase, Beyond
<1>. QED
  <2>1. Sums(graph, cost, f)
    BY <1>7 DEF Sums
  <2>. QED
    BY <1>9, <1>10, <2>1

(* What the sums say of two functions on an edge. *)
LEMMA WorstCaseBounds ==
  ASSUME NEW graph, Graph(graph), NEW cost \in [DOMAIN graph -> Nat],
         NEW W, W = WorstCase(graph, cost)
  PROVE  /\ \A i \in DOMAIN graph : W[i] \in Nat /\ cost[i] <= W[i]
         /\ \A i \in DOMAIN graph : \A j \in Beyond(graph, i) :
              W[j] + cost[i] <= W[i]
         /\ \A i \in DOMAIN graph : \A j \in Component(graph, i) :
              cost[j] = cost[i] => W[j] = W[i]
<1>. DEFINE most(i) == Max({0} \cup {W[j] : j \in Beyond(graph, i)})
<1>1. /\ W \in [DOMAIN graph -> Nat]
      /\ \A i \in DOMAIN graph : W[i] = cost[i] + most(i)
  BY WorstCaseSums DEF Sums
<1>2. ASSUME NEW i \in DOMAIN graph
      PROVE  most(i) \in Nat /\ \A j \in Beyond(graph, i) : W[j] <= most(i)
  <2>1. /\ IsFiniteSet(Beyond(graph, i))
        /\ \A j \in Beyond(graph, i) : W[j] \in Nat
    BY <1>1, BeyondIsLower
  <2>. QED
    BY <2>1, MaxWithZero
<1>3. \A i \in DOMAIN graph : \A j \in Component(graph, i) :
        j \in DOMAIN graph /\ Beyond(graph, j) = Beyond(graph, i)
  BY ComponentFacts DEF Beyond
<1>4. ASSUME NEW i \in DOMAIN graph, NEW j \in Beyond(graph, i)
      PROVE  W[j] + cost[i] <= W[i]
  <2>1. j \in DOMAIN graph
    BY BeyondIsLower
  <2>2. W[j] \in Nat /\ cost[i] \in Nat /\ most(i) \in Nat /\ W[j] <= most(i)
        /\ W[i] = cost[i] + most(i)
    BY <1>1, <1>2, <2>1
  <2>. HIDE DEF most
  <2>. QED
    BY <2>2
<1>5. ASSUME NEW i \in DOMAIN graph, NEW j \in Component(graph, i), cost[j] = cost[i]
      PROVE  W[j] = W[i]
  <2>1. most(j) = most(i)
    BY <1>3
  <2>. QED
    BY <1>1, <1>3, <1>5, <2>1
<1>6. ASSUME NEW i \in DOMAIN graph PROVE W[i] \in Nat /\ cost[i] <= W[i]
  <2>. HIDE DEF most
  <2>. QED
    BY <1>1, <1>2
<1>. QED
  BY <1>4, <1>5, <1>6

-----------------------------------------------------------------------------
(* A chain of calls. *)
Chain(graph, g, m) ==
  /\ g \in [1..m -> DOMAIN graph]
  /\ \A n \in 1..m - 1 : g[n + 1] \in graph[g[n]]

LEMMA ChainReaches ==
  ASSUME NEW graph, Graph(graph), NEW m \in Nat, NEW g, Chain(graph, g, m),
         NEW a \in 1..m, NEW n \in a..m
  PROVE  g[n] \in Reached(graph, g[a])
<1>. DEFINE Bad == {k \in Nat : k >= a /\ k <= m /\ g[k] \notin Reached(graph, g[a])}
<1>1. SUFFICES ASSUME Bad # {} PROVE FALSE
  OBVIOUS
<1>2. PICK k \in Bad : \A y \in Bad : k <= y
  BY <1>1, LeastNatural
<1>3. Closure(graph, g[a], Reached(graph, g[a]))
  BY ReachedIsClosure DEF Chain
<1>4. k # a
  BY <1>2, <1>3 DEF Closure
<1>5. k - 1 \in 1..m - 1 /\ k - 1 \in Nat /\ k - 1 >= a /\ (k - 1) + 1 = k /\ k - 1 \notin Bad
  BY <1>2, <1>4
<1>6. g[k - 1] \in Reached(graph, g[a]) /\ g[(k - 1) + 1] \in graph[g[k - 1]]
  BY <1>5 DEF Chain
<1>. QED
  BY <1>2, <1>3, <1>5, <1>6 DEF Closure, ClosedUnder

(* The calls of a chain inside the component of k, among the first n. *)
Inside(graph, g, n, k) == {a \in 1..n : g[a] \in Component(graph, k)}

LEMMA InsideIsFinite ==
  ASSUME NEW graph, NEW g, NEW n \in Nat, NEW m \in Nat, n <= m, NEW k
  PROVE  /\ IsFiniteSet(Inside(graph, g, n, k))
         /\ Cardinality(Inside(graph, g, n, k)) \in Nat
         /\ Cardinality(Inside(graph, g, n, k)) <= Cardinality(Inside(graph, g, m, k))
<1>1. IsFiniteSet(1..n) /\ IsFiniteSet(1..m)
  BY FS_Interval
<1>2. /\ Inside(graph, g, n, k) \in SUBSET (1..n)
      /\ Inside(graph, g, m, k) \in SUBSET (1..m)
      /\ Inside(graph, g, n, k) \in SUBSET Inside(graph, g, m, k)
  BY DEF Inside
<1>3. IsFiniteSet(Inside(graph, g, n, k)) /\ IsFiniteSet(Inside(graph, g, m, k))
  BY <1>1, <1>2, FS_Subset
<1>. QED
  BY <1>2, <1>3, FS_Subset, FS_CardinalityType

(* A call that stays in its component is one more of it; one that leaves it
   comes into a component the chain has not been in. *)
LEMMA InsideGrows ==
  ASSUME NEW graph, Graph(graph), NEW m \in Nat, NEW g, Chain(graph, g, m),
         NEW n \in 1..m, n # 1
  PROVE  LET count(x) == Cardinality(Inside(graph, g, x, g[x]))
         IN  IF g[n] \in Component(graph, g[n - 1]) THEN count(n) = count(n - 1) + 1
             ELSE count(n) = 1 /\ g[n] \in Beyond(graph, g[n - 1])
<1>. DEFINE h == g[n - 1]
<1>1. /\ n - 1 \in 1..m - 1 /\ n - 1 \in Nat /\ (n - 1) + 1 = n /\ n - 1 \in 1..m
      /\ n \in Nat /\ n - 1 <= n
  OBVIOUS
<1>2. g[n] \in graph[h] /\ h \in DOMAIN graph /\ g[n] \in DOMAIN graph
  BY <1>1 DEF Chain
<1>3. CASE g[n] \in Component(graph, h)
  <2>1. Component(graph, g[n]) = Component(graph, h)
    BY <1>2, <1>3, ComponentFacts
  <2>2. Inside(graph, g, n, g[n]) = Inside(graph, g, n - 1, h) \cup {n}
    BY <1>1, <1>3, <2>1 DEF Inside
  <2>3. n \notin Inside(graph, g, n - 1, h)
    BY <1>1 DEF Inside
  <2>4. /\ IsFiniteSet(Inside(graph, g, n - 1, h))
    BY <1>1, InsideIsFinite
  <2>5. Cardinality(Inside(graph, g, n, g[n])) = Cardinality(Inside(graph, g, n - 1, h)) + 1
    BY <2>2, <2>3, <2>4, FS_AddElement
  <2>. QED
    BY <1>3, <2>5
<1>4. CASE g[n] \notin Component(graph, h)
  <2>1. g[n] \in Reached(graph, h)
    BY <1>2, ComponentFacts
  <2>2. ASSUME NEW a \in 1..n - 1, g[a] \in Component(graph, g[n]) PROVE FALSE
    <3>1. a \in 1..m /\ n - 1 \in a..m
      OBVIOUS
    <3>2. h \in Reached(graph, g[a])
      BY <3>1, ChainReaches
    <3>3. h \in Reached(graph, g[n])
      BY <1>2, <2>2, <3>2, ComponentFacts
    <3>. QED
      BY <1>4, <2>1, <3>3 DEF Component
  <2>3. Inside(graph, g, n, g[n]) = {n}
    <3>1. g[n] \in Component(graph, g[n])
      BY <1>2, ComponentFacts
    <3>2. \A a \in 1..n : a = n \/ a \in 1..n - 1
      OBVIOUS
    <3>3. \A a \in Inside(graph, g, n, g[n]) : a = n
      BY <2>2, <3>2 DEF Inside
    <3>4. n \in Inside(graph, g, n, g[n])
      BY <3>1 DEF Inside
    <3>. QED
      BY <3>3, <3>4
  <2>4. Cardinality(Inside(graph, g, n, g[n])) = 1
    BY <2>3, FS_Singleton
  <2>5. g[n] \in Beyond(graph, h)
    BY <1>2, <1>4, ComponentFacts DEF Beyond
  <2>. QED
    BY <1>4, <2>4, <2>5
<1>. QED
  BY <1>3, <1>4

LEMMA Scales ==
  ASSUME NEW a \in Nat, NEW b \in Nat, NEW w \in Nat, a <= b
  PROVE  a * w \in Nat /\ b * w \in Nat /\ a * w <= b * w /\ (a + 1) * w = a * w + w
OBVIOUS

(* Each call of a chain begins where the one before it has taken what it is
   as wide as: `b` is where.  No component is entered more often than its cap,
   a function is charged its cap times its width, and the chain ends within
   what WorstCase says of its first function. *)
Taken(graph, g, m, wide, b) ==
  /\ b \in [1..m + 1 -> Int]
  /\ b[1] = 0
  /\ \A n \in 1..m : b[n + 1] <= b[n] + wide[g[n]]

Charged(graph, wide, cap, cost) ==
  /\ wide \in [DOMAIN graph -> Nat] /\ cap \in [DOMAIN graph -> Nat]
  /\ cost \in [DOMAIN graph -> Nat]
  /\ \A i \in DOMAIN graph :
       /\ cost[i] = cap[i] * wide[i]
       /\ \A j \in Component(graph, i) : wide[j] = wide[i] /\ cap[j] = cap[i]

WithinCaps(graph, g, m, cap) ==
  \A n \in 1..m : Cardinality(Inside(graph, g, m, g[n])) <= cap[g[n]]

LEMMA ChainBound ==
  ASSUME NEW graph, Graph(graph), NEW m \in Nat \ {0}, NEW g, Chain(graph, g, m),
         NEW wide, NEW cap, NEW cost, Charged(graph, wide, cap, cost),
         WithinCaps(graph, g, m, cap), NEW b, Taken(graph, g, m, wide, b)
  PROVE  b[m + 1] <= WorstCase(graph, cost)[g[1]]
<1>. DEFINE W == WorstCase(graph, cost)
            count(n) == Cardinality(Inside(graph, g, n, g[n]))
            left(n) == (count(n) - 1) * wide[g[n]]
            Held == {n \in 1..m : b[n] + W[g[n]] <= W[g[1]] + left(n)}
            rank == [n \in 1..m |-> n]
<1>1. ASSUME NEW n \in 1..m
      PROVE  /\ g[n] \in DOMAIN graph
             /\ b[n] \in Int /\ b[n + 1] \in Int /\ b[n + 1] <= b[n] + wide[g[n]]
             /\ wide[g[n]] \in Nat /\ cap[g[n]] \in Nat /\ W[g[n]] \in Nat
             /\ cost[g[n]] = cap[g[n]] * wide[g[n]]
             /\ count(n) \in Nat /\ count(n) <= cap[g[n]]
  <2>1. g[n] \in DOMAIN graph
    BY DEF Chain
  <2>2. W[g[n]] \in Nat
    BY <2>1, WorstCaseBounds DEF Charged
  <2>3. count(n) \in Nat /\ count(n) <= cap[g[n]]
    <3>1. n \in Nat /\ m \in Nat /\ n <= m
      OBVIOUS
    <3>2. /\ count(n) \in Nat
          /\ count(n) <= Cardinality(Inside(graph, g, m, g[n]))
      BY <3>1, InsideIsFinite
    <3>3. Cardinality(Inside(graph, g, m, g[n])) \in Nat
      BY <3>1, InsideIsFinite
    <3>4. cap[g[n]] \in Nat
      BY <2>1 DEF Charged
    <3>. HIDE DEF count
    <3>. QED
      BY <3>2, <3>3, <3>4 DEF WithinCaps
  <2>4. b[n] \in Int /\ b[n + 1] \in Int /\ b[n + 1] <= b[n] + wide[g[n]]
    BY DEF Taken
  <2>. QED
    BY <2>1, <2>2, <2>3, <2>4 DEF Charged
<1>2. ASSUME NEW n \in 1..m, \A y \in 1..m : rank[y] < rank[n] => y \in Held
      PROVE  n \in Held
  <2>1. CASE n = 1
    <3>1. Inside(graph, g, 1, g[1]) = {1}
      <4>1. g[1] \in Component(graph, g[1])
        BY <1>1, <2>1, ComponentFacts
      <4>2. 1..1 = {1}
        OBVIOUS
      <4>. QED
        BY <4>1, <4>2 DEF Inside
    <3>2. count(1) = 1
      BY <3>1, FS_Singleton
    <3>3. left(1) = 0
      BY <1>1, <2>1, <3>2
    <3>4. b[1] = 0 /\ W[g[1]] \in Nat
      BY <1>1, <2>1 DEF Taken
    <3>. QED
      BY <2>1, <3>3, <3>4
  <2>2. CASE n # 1
    <3>1. /\ n - 1 \in 1..m /\ (n - 1) + 1 = n /\ rank[n - 1] < rank[n]
      BY <2>2
    <3>2. n - 1 \in Held
      BY <1>2, <3>1
    <3>. DEFINE i == g[n - 1]
                j == g[n]
    <3>3. PICK bn, bm, w1, wi, wj, di, dj, ci, cj, k, first :
            /\ bn = b[n] /\ bm = b[n - 1] /\ w1 = W[g[1]] /\ wi = W[i] /\ wj = W[j]
            /\ di = wide[i] /\ dj = wide[j] /\ ci = count(n - 1) /\ cj = count(n)
            /\ k = cap[i] /\ first = cost[i]
      OBVIOUS
    <3>4. /\ bn \in Int /\ bm \in Int /\ bn <= bm + di
          /\ wi \in Nat /\ wj \in Nat /\ di \in Nat /\ dj \in Nat /\ k \in Nat
          /\ first = k * di
          /\ ci \in Nat /\ ci <= k
      <4>. HIDE DEF count, W
      <4>. QED
        BY <1>1, <3>1, <3>3
    <3>5. w1 \in Nat /\ 1 \in 1..m
      BY <1>1, <3>3
    <3>6. bm + wi <= w1 + (ci - 1) * di
      <4>. HIDE DEF count, W
      <4>. QED
        BY <3>2, <3>3
    <3>7. IF j \in Component(graph, i) THEN cj = ci + 1
          ELSE cj = 1 /\ j \in Beyond(graph, i)
      BY <2>2, <3>3, InsideGrows
    <3>8. i \in DOMAIN graph /\ j \in DOMAIN graph
      BY <1>1, <3>1
    <3>9. bn + wj <= w1 + (cj - 1) * dj
      <4>1. CASE j \in Component(graph, i)
        <5>1. dj = di /\ cj - 1 = ci
          BY <3>3, <3>4, <3>7, <3>8, <4>1 DEF Charged
        <5>2. cost[j] = cost[i]
          BY <3>8, <4>1, ComponentFacts DEF Charged
        <5>3. wj = wi
          BY <3>3, <3>8, <4>1, <5>2, WorstCaseBounds DEF Charged
        <5>4. (ci - 1) * di = ci * di - di /\ ci * di \in Nat
          BY ONLY <3>4
        <5>5. bn + wj <= w1 + ci * dj
          BY ONLY <3>4, <3>5, <3>6, <5>1, <5>3, <5>4
        <5>. QED
          BY <5>1, <5>5
      <4>2. CASE j \notin Component(graph, i)
        <5>1. j \in Beyond(graph, i) /\ cj - 1 = 0
          BY <3>7, <4>2
        <5>2. wj + first <= wi
          BY <3>3, <3>8, <5>1, WorstCaseBounds DEF Charged
        <5>3. (ci - 1) * di = ci * di - di /\ ci * di <= k * di
              /\ ci * di \in Nat /\ k * di \in Nat
          <6>1. ci * di <= k * di /\ ci * di \in Nat /\ k * di \in Nat
            BY ONLY <3>4, Scales
          <6>2. (ci - 1) * di = ci * di - di
            BY ONLY <3>4
          <6>. QED
            BY ONLY <6>1, <6>2
        <5>4. bn + wj <= w1
          BY ONLY <3>4, <3>5, <3>6, <5>2, <5>3
        <5>5. (cj - 1) * dj = 0
          BY <3>4, <5>1
        <5>. QED
          BY ONLY <3>4, <3>5, <5>4, <5>5
      <4>. QED
        BY <4>1, <4>2
    <3>. HIDE DEF count, W
    <3>. QED
      BY <3>3, <3>9
  <2>. QED
    BY <2>1, <2>2
<1>3. m \in Held
  <2>. HIDE DEF Held
  <2>1. 1..m \subseteq Held
    <3>1. PICK calls, r : calls = 1..m /\ r = rank
      OBVIOUS
    <3>2. r \in [calls -> Nat]
      BY <3>1
    <3>. HIDE DEF rank
    <3>3. \A n \in calls : (\A y \in calls : r[y] < r[n] => y \in Held) => n \in Held
      BY <1>2, <3>1
    <3>4. calls \subseteq Held
      BY ONLY <3>2, <3>3, RankInduction
    <3>. QED
      BY <3>1, <3>4
  <2>. QED
    BY <2>1
<1>4. PICK bm, top, w1, wm, d, c, k :
        /\ bm = b[m] /\ top = b[m + 1] /\ w1 = W[g[1]] /\ wm = W[g[m]]
        /\ d = wide[g[m]] /\ c = count(m) /\ k = cap[g[m]]
  OBVIOUS
<1>5. /\ bm \in Int /\ top \in Int /\ top <= bm + d /\ d \in Nat /\ k \in Nat /\ wm \in Nat
      /\ c \in Nat /\ c <= k /\ w1 \in Nat
  <2>. HIDE DEF count, W
  <2>. QED
    BY <1>1, <1>4
<1>6. bm + wm <= w1 + (c - 1) * d
  <2>. HIDE DEF count, W
  <2>. QED
    BY <1>3, <1>4
<1>7. k * d <= wm
  <2>1. cost[g[m]] <= W[g[m]]
    BY <1>1, WorstCaseBounds DEF Charged
  <2>. HIDE DEF W
  <2>. QED
    BY <1>1, <1>4, <2>1
<1>8. c * d <= k * d /\ c * d \in Nat /\ k * d \in Nat /\ (c - 1) * d = c * d - d
  <2>1. c * d <= k * d /\ c * d \in Nat /\ k * d \in Nat
    BY ONLY <1>5, Scales
  <2>2. (c - 1) * d = c * d - d
    BY ONLY <1>5
  <2>. QED
    BY ONLY <2>1, <2>2
<1>9. top <= w1
  BY ONLY <1>5, <1>6, <1>7, <1>8
<1>. QED
  BY <1>4, <1>9

-----------------------------------------------------------------------------
(* Reading the code of a function straight through. *)
Swept(c, i, f) ==
  /\ f \in [Nat -> SUBSET Nat]
  /\ \A p \in Nat : f[p] = IF p >= End(c, i) THEN {} ELSE {p} \cup f[After(c, p)]

LEMMA SweepSwept ==
  ASSUME NEW c, NEW i, Start(c, i) \in Nat, End(c, i) \in Nat
  PROVE  \E f : Swept(c, i, f) /\ Sweep(c, i) = f[Start(c, i)]
<1>. DEFINE V == [Nat -> SUBSET Nat]
            rank == [p \in Nat |-> IF p >= End(c, i) THEN 0 ELSE End(c, i) - p]
            step(f, p) == IF p >= End(c, i) THEN {} ELSE {p} \cup f[After(c, p)]
            rule == [f \in V |-> [p \in Nat |-> step(f, p)]]
            from == CHOOSE w : w = [p \in Nat |-> step(w, p)]
<1>1. ASSUME NEW p \in Nat PROVE After(c, p) \in Nat /\ After(c, p) > p
  BY SizeType DEF After
<1>2. rank \in [Nat -> Nat]
  OBVIOUS
<1>3. rule \in [V -> V]
  <2>1. \A f \in V : \A p \in Nat : step(f, p) \in SUBSET Nat
    BY <1>1
  <2>. HIDE DEF step
  <2>. QED
    BY <2>1
<1>4. ASSUME NEW p \in Nat, ~(p >= End(c, i)) PROVE rank[After(c, p)] < rank[p]
  <2>1. rank[p] = End(c, i) - p
    BY <1>4
  <2>2. rank[After(c, p)] = IF After(c, p) >= End(c, i) THEN 0 ELSE End(c, i) - After(c, p)
    BY <1>1
  <2>. HIDE DEF rank
  <2>. QED
    BY <1>1, <1>4, <2>1, <2>2
<1>5. ASSUME NEW p \in Nat, NEW g \in V, NEW h \in V,
             \A y \in Nat : rank[y] < rank[p] => g[y] = h[y]
      PROVE  rule[g][p] = rule[h][p]
  <2>1. ~(p >= End(c, i)) => g[After(c, p)] = h[After(c, p)]
    <3>. HIDE DEF rank
    <3>. QED
      BY <1>1, <1>4, <1>5
  <2>. QED
    BY <2>1
<1>6. Recursive(Nat, SUBSET Nat, rank, rule)
  <2>. HIDE DEF rank, rule
  <2>. QED
    BY <1>2, <1>3, <1>5 DEF Recursive
<1>7. PICK f \in V : f = rule[f]
  <2>1. Solvable(Nat, SUBSET Nat, rule)
    <3>. HIDE DEF rank, rule
    <3>. QED
      BY <1>6, Recursion
  <2>. QED
    BY <2>1 DEF Solvable
<1>8. f = [p \in Nat |-> step(f, p)]
  BY <1>7
<1>9. from = [p \in Nat |-> step(from, p)]
  BY <1>8
<1>10. from = f
  <2>. HIDE DEF from
  <2>. DEFINE P == {p \in Nat : from[p] = f[p]}
  <2>1. ASSUME NEW p \in Nat, \A y \in Nat : rank[y] < rank[p] => y \in P PROVE p \in P
    <3>1. ~(p >= End(c, i)) => from[After(c, p)] = f[After(c, p)]
      <4>. HIDE DEF rank
      <4>. QED
        BY <1>1, <1>4, <2>1
    <3>2. from[p] = step(from, p) /\ f[p] = step(f, p)
      <4>. HIDE DEF step
      <4>. QED
        BY <1>8, <1>9
    <3>. QED
      BY <3>1, <3>2
  <2>2. Nat \subseteq P
    <3>. HIDE DEF P, rank
    <3>. QED
      BY <1>2, <2>1, RankInduction
  <2>3. from = [p \in Nat |-> from[p]]
    <3>1. DOMAIN from = Nat
      BY <1>9
    <3>. QED
      BY <1>9, <3>1
  <2>. QED
    BY <2>2, <2>3
<1>11. Sweep(c, i) = from[Start(c, i)]
  BY DEF Sweep
<1>12. Swept(c, i, f)
  BY <1>8 DEF Swept
<1>. QED
  BY <1>10, <1>11, <1>12

(* The instructions at D cover the code of function i, every byte of it once. *)
TilesOnce(c, i, D) ==
  /\ D \subseteq Region(c, i) /\ Start(c, i) \in D
  /\ \A p \in D : After(c, p) <= End(c, i)
  /\ \A b \in Region(c, i) :
       \E p \in D : \A q \in D : b \in q..After(c, q) - 1 <=> q = p

LEMMA SweepFinds ==
  ASSUME NEW c, NEW i, Start(c, i) \in Nat, End(c, i) \in Nat,
         NEW D, TilesOnce(c, i, D)
  PROVE  Sweep(c, i) = D
<1>. DEFINE E == End(c, i)
            S == Start(c, i)
<1>1. PICK f : Swept(c, i, f) /\ Sweep(c, i) = f[S]
  BY SweepSwept
<1>2. \A p \in Nat : After(c, p) \in Nat /\ After(c, p) > p
  BY SizeType DEF After
<1>3. \A p \in D : p \in Nat /\ p >= S /\ p < E /\ After(c, p) \in Nat /\ After(c, p) <= E
  BY <1>2 DEF TilesOnce, Region
<1>4. ASSUME NEW p \in D PROVE After(c, p) \in D \/ After(c, p) = E
  <2>1. SUFFICES ASSUME After(c, p) < E PROVE After(c, p) \in D
    BY <1>3
  <2>2. After(c, p) \in Region(c, i) /\ After(c, p) - 1 \in Region(c, i)
    BY <1>2, <1>3, <2>1 DEF Region
  <2>3. PICK q \in D : After(c, p) \in q..After(c, q) - 1
    BY <2>2 DEF TilesOnce
  <2>4. CASE q = After(c, p)
    BY <2>4
  <2>5. CASE q # After(c, p)
    <3>1. /\ After(c, p) - 1 \in q..After(c, q) - 1
          /\ After(c, p) - 1 \in p..After(c, p) - 1
      BY <1>2, <1>3, <2>3, <2>5
    <3>2. q = p
      BY <2>2, <3>1 DEF TilesOnce
    <3>. QED
      BY <1>3, <2>3, <3>2
  <2>. QED
    BY <2>4, <2>5
<1>5. ASSUME NEW p \in D, NEW q \in D, q > p PROVE q >= After(c, p)
  <2>1. SUFFICES ASSUME q < After(c, p) PROVE FALSE
    BY <1>3
  <2>2. q \in Region(c, i) /\ q \in p..After(c, p) - 1 /\ q \in q..After(c, q) - 1
    BY <1>2, <1>3, <1>5, <2>1 DEF TilesOnce
  <2>3. q = p
    BY <2>2 DEF TilesOnce
  <2>. QED
    BY <1>3, <1>5, <2>3
<1>. DEFINE rank == [p \in D \cup {E} |-> E - p]
            P == {p \in D \cup {E} : f[p] = {q \in D : q >= p}}
<1>6. ASSUME NEW p \in D \cup {E}, \A y \in D \cup {E} : rank[y] < rank[p] => y \in P
      PROVE  p \in P
  <2>1. CASE p = E
    <3>1. f[p] = {}
      BY <1>1, <2>1 DEF Swept
    <3>2. {q \in D : q >= p} = {}
      BY <1>3, <2>1
    <3>. QED
      BY <3>1, <3>2
  <2>2. CASE p \in D
    <3>1. /\ p \in Nat /\ p < E /\ After(c, p) \in D \cup {E}
          /\ After(c, p) \in Nat /\ After(c, p) > p
      BY <1>2, <1>3, <1>4, <2>2
    <3>2. rank[After(c, p)] < rank[p]
      BY <3>1
    <3>3. f[After(c, p)] = {q \in D : q >= After(c, p)}
      BY <1>6, <3>1, <3>2
    <3>4. f[p] = {p} \cup f[After(c, p)]
      BY <1>1, <3>1 DEF Swept
    <3>5. \A q \in D : q >= p <=> q = p \/ q >= After(c, p)
      BY <1>3, <1>5, <2>2, <3>1
    <3>. QED
      BY <2>2, <3>3, <3>4, <3>5
  <2>. QED
    BY <2>1, <2>2
<1>7. D \cup {E} \subseteq P
  <2>1. rank \in [D \cup {E} -> Nat]
    BY <1>3
  <2>2. PICK N : N = D \cup {E}
    OBVIOUS
  <2>3. /\ rank \in [N -> Nat]
        /\ \A p \in N : (\A y \in N : rank[y] < rank[p] => y \in P) => p \in P
    <3>. HIDE DEF rank, P
    <3>. QED
      BY <1>6, <2>1, <2>2
  <2>4. N \subseteq P
    <3>. HIDE DEF rank, P
    <3>. QED
      BY <2>3, RankInduction
  <2>. QED
    BY <2>2, <2>4
<1>8. S \in D
  BY DEF TilesOnce
<1>9. f[S] = {q \in D : q >= S}
  BY <1>7, <1>8
<1>. QED
  BY <1>1, <1>3, <1>9

(* The walk's last check finds a function tiled by what it reached. *)
LEMMA CoverageTiles ==
  ASSUME NEW c, NEW i, Start(c, i) \in Nat, End(c, i) \in Nat, NEW shape,
         DOMAIN shape \subseteq Region(c, i), Start(c, i) \in DOMAIN shape,
         \A p \in DOMAIN shape : After(c, p) <= End(c, i),
         CoverageRefusal(c, i, shape) = "none"
  PROVE  TilesOnce(c, i, DOMAIN shape)
<1>. DEFINE D == DOMAIN shape
            covering(b) == {p \in D : b \in p..After(c, p) - 1}
            wrong == {b \in Region(c, i) : Cardinality(covering(b)) # 1}
<1>1. wrong = {}
  BY DEF CoverageRefusal
<1>2. IsFiniteSet(D)
  <2>1. IsFiniteSet(Region(c, i))
    BY FS_Interval DEF Region
  <2>. QED
    BY <2>1, FS_Subset
<1>3. ASSUME NEW b \in Region(c, i)
      PROVE  \E p \in D : \A q \in D : b \in q..After(c, q) - 1 <=> q = p
  <2>1. Cardinality(covering(b)) = 1
    BY <1>1
  <2>2. IsFiniteSet(covering(b))
    <3>1. covering(b) \in SUBSET D
      OBVIOUS
    <3>. QED
      BY <1>2, <3>1, FS_Subset
  <2>3. PICK p : covering(b) = {p}
    <3>. HIDE DEF covering
    <3>. QED
      BY <2>1, <2>2, FS_Singleton
  <2>. QED
    BY <2>3
<1>. QED
  BY <1>3 DEF TilesOnce

-----------------------------------------------------------------------------
(* Loops. *)

(* The natural loop of a branch back to a header: both, and with each node but
   the header everything that goes to it. *)
LEMMA LoopTaken ==
  ASSUME NEW c, NEW shape, IsFiniteSet(DOMAIN shape),
         NEW branch \in DOMAIN shape, NEW header \in DOMAIN shape
  PROVE  LET loop == NaturalLoop(c, shape, branch, header)
         IN  /\ {header, branch} \subseteq loop
             /\ \A p \in DOMAIN shape :
                  Successors(c, p) \cap (loop \ {header}) # {} => p \in loop
<1>. DEFINE D == DOMAIN shape
            start == {header, branch}
            grow == [S \in SUBSET D |->
                       S \cup {p \in D : Successors(c, p) \cap (S \ {header}) # {}}]
            f == Turns(start, grow)
            loop == f[Cardinality(D)]
<1>1. Grower(D, start, grow)
  BY DEF Grower
<1>2. NaturalLoop(c, shape, branch, header) = loop
  BY DEF NaturalLoop, Turns
<1>3. Growth(D, start, grow, f)
  <2>. HIDE DEF start, grow
  <2>. QED
    BY <1>1, GrowthDefined
<1>4. start \subseteq loop /\ loop \subseteq D /\ grow[loop] = loop
  <2>. HIDE DEF start, grow, f
  <2>. QED
    BY <1>1, <1>3, GrowthEnds
<1>5. \A p \in D : Successors(c, p) \cap (loop \ {header}) # {} => p \in grow[loop]
  BY <1>4
<1>. QED
  BY <1>2, <1>4, <1>5

(* Where control can go round, its least instruction is a guard, and every
   other lies in the natural loop of some branch back to it: what lay in none
   could not be left for it. *)
LEMMA CycleHasItsGuard ==
  ASSUME NEW c, NEW shape, IsFiniteSet(DOMAIN shape), DOMAIN shape \subseteq Nat,
         LoopRefusals(c, shape) = {}, NEW S \in SUBSET DOMAIN shape, StronglyConnected(c, S)
  PROVE  \E g \in S :
           /\ NameAt(c, g) = "loop.guard"
           /\ \A p \in S : NameAt(c, p) = "store.l" =>
                OperandAt(c, p) # OperandAt(c, g)
<1>1. PICK h \in S : \A p \in S : h <= p
  BY LeastNatural DEF StronglyConnected
<1>. DEFINE Ends == {p \in S : h \in Successors(c, p)}
            loop(b) == NaturalLoop(c, shape, b, h)
            inside == UNION {loop(b) : b \in Ends}
<1>2. Ends # {}
  <2>1. CASE S = {h}
    BY <2>1 DEF StronglyConnected
  <2>2. CASE S # {h}
    <3>1. S \ {h} \in (SUBSET S) \ {{}} /\ S \ {h} # S
      BY <2>2
    <3>2. PICK p \in S \ {h} : \E s \in Successors(c, p) : s \in S /\ s \notin S \ {h}
      BY <3>1 DEF StronglyConnected
    <3>. QED
      BY <3>2
  <2>. QED
    BY <2>1, <2>2
<1>3. \A b \in Ends : <<b, h>> \in BackEdges(c, shape)
  <2>. SUFFICES ASSUME NEW b \in Ends PROVE <<b, h>> \in BackEdges(c, shape)
    OBVIOUS
  <2>1. b \in DOMAIN shape /\ h \in Successors(c, b) /\ h <= b
    BY <1>1
  <2>2. <<b, h>> \in FlowEdges(c, shape)
    BY <2>1 DEF FlowEdges
  <2>. QED
    BY <2>1, <2>2 DEF BackEdges
<1>4. NameAt(c, h) = "loop.guard"
  <2>1. PICK b \in Ends : <<b, h>> \in BackEdges(c, shape)
    BY <1>2, <1>3
  <2>2. {b2 \in BackEdges(c, shape) : NameAt(c, b2[2]) # "loop.guard"} = {}
    BY Zenon DEF LoopRefusals
  <2>. QED
    BY <2>1, <2>2
<1>5. ASSUME NEW b \in Ends, NEW p \in loop(b), NameAt(c, p) = "store.l"
      PROVE  OperandAt(c, p) # OperandAt(c, h)
  <2>. DEFINE written(e) == \E q \in NaturalLoop(c, shape, e[1], e[2]) :
                              /\ NameAt(c, q) = "store.l"
                              /\ OperandAt(c, q) = OperandAt(c, e[2])
              unguarded(e) == NameAt(c, e[2]) # "loop.guard"
  <2>1. {e \in BackEdges(c, shape) : ~unguarded(e) /\ written(e)} = {}
    BY Zenon DEF LoopRefusals
  <2>2. PICK e : e = <<b, h>>
    OBVIOUS
  <2>3. e[1] = b /\ e[2] = h /\ e \in BackEdges(c, shape)
    BY <1>3, <2>2
  <2>4. ~written(e)
    BY <1>4, <2>1, <2>3
  <2>. QED
    BY <1>5, <2>3, <2>4
<1>6. ASSUME NEW b \in Ends
      PROVE  /\ {h, b} \subseteq loop(b)
             /\ \A p \in DOMAIN shape : Successors(c, p) \cap (loop(b) \ {h}) # {} => p \in loop(b)
  BY LoopTaken
<1>. HIDE DEF loop
<1>7. S \subseteq inside
  <2>1. SUFFICES ASSUME S \ inside # {} PROVE FALSE
    OBVIOUS
  <2>2. h \in inside
    BY <1>2, <1>6
  <2>3. S \ inside \in (SUBSET S) \ {{}} /\ S \ inside # S
    BY <2>1, <2>2
  <2>4. PICK p \in S \ inside : \E s \in Successors(c, p) : s \in S /\ s \notin S \ inside
    BY <2>3 DEF StronglyConnected
  <2>5. PICK s \in Successors(c, p) : s \in S /\ s \in inside
    BY <2>4
  <2>6. CASE s = h
    <3>1. p \in Ends
      BY <2>4, <2>5, <2>6
    <3>. QED
      BY <1>6, <2>4, <3>1
  <2>7. CASE s # h
    <3>1. PICK b \in Ends : s \in loop(b)
      BY <2>5
    <3>2. p \in DOMAIN shape /\ Successors(c, p) \cap (loop(b) \ {h}) # {}
      BY <2>4, <2>5, <2>7, <3>1
    <3>3. p \in loop(b)
      BY <1>6, <3>2
    <3>. QED
      BY <2>4, <3>3
  <2>. QED
    BY <2>6, <2>7
<1>8. ASSUME NEW p \in S, NameAt(c, p) = "store.l" PROVE OperandAt(c, p) # OperandAt(c, h)
  <2>1. PICK b \in Ends : p \in loop(b)
    BY <1>7
  <2>. QED
    BY <1>5, <1>8, <2>1
<1>. QED
  BY <1>4, <1>8

(* The walks that are finished have passed the check of their loops, and all
   are when the call graph has been. *)
LoopsChecked ==
  /\ stage = "declared" => index = Len(container.functions)
  /\ \A i \in Functions(container) : i < index => LoopRefusals(container, shapes[i]) = {}

LEMMA LoopsCheckedNext ==
  ASSUME VerifyInv, LoopsChecked, [VerifyNext]_verifyVars
  PROVE  LoopsChecked'
<1>1. /\ index \in 0..Len(container.functions) /\ DOMAIN shapes = Functions(container)
      /\ Len(container.functions) \in Nat
  BY LenProperties DEF VerifyInv, VerifyTypeOK, Decoded, DecodedContainer
<1>2. \A r : Refuse(r) => stage' = "done" /\ UNCHANGED <<container, index, shapes>>
  BY DEF Refuse
<1>3. CASE stage' # "declared" /\ UNCHANGED <<container, index, shapes>>
  BY <1>3 DEF LoopsChecked
<1>4. CASE CallGraph
  <2>1. index = Len(container.functions)
    BY <1>1, <1>4 DEF CallGraph, Functions
  <2>. QED
    BY <1>2, <1>4, <2>1 DEF CallGraph, LoopsChecked
<1>5. CASE EndWalk
  <2>1. CASE stage' = "done" /\ UNCHANGED <<container, index, shapes>>
    BY <2>1 DEF LoopsChecked
  <2>2. CASE /\ LoopRefusals(container, at) = {} /\ index' = index + 1 /\ stage' = "begin"
             /\ shapes' = [shapes EXCEPT ![index] = at] /\ container' = container
    <3>1. ASSUME NEW i \in Functions(container), i < index + 1
          PROVE  LoopRefusals(container, shapes'[i]) = {}
      <4>1. CASE i = index
        BY <1>1, <2>2, <4>1
      <4>2. CASE i # index
        <5>1. i < index
          BY <1>1, <3>1, <4>2 DEF Functions
        <5>2. shapes'[i] = shapes[i]
          BY <1>1, <2>2, <4>2
        <5>. QED
          BY <5>1, <5>2 DEF LoopsChecked
      <4>. QED
        BY <4>1, <4>2
    <3>. QED
      BY <2>2, <3>1 DEF LoopsChecked
  <2>. QED
    BY <1>2, <1>5, <2>1, <2>2 DEF EndWalk
<1>6. CASE UNCHANGED verifyVars
  BY <1>6 DEF verifyVars, LoopsChecked
<1>7. CASE CheckGroups \/ CodeRegions \/ BeginWalk \/ Join \/ Visit \/ CompareDeclared
  <2>1. stage' # "declared" /\ UNCHANGED <<container, index, shapes>>
    BY <1>2, <1>7 DEF CheckGroups, CodeRegions, BeginWalk, Join, Visit, CompareDeclared
  <2>. QED
    BY <1>3, <2>1
<1>. QED
  BY <1>4, <1>5, <1>6, <1>7 DEF VerifyNext

(* However the branches of a function the verifier has let pass cross one
   another, control cannot go round among any of its instructions without
   passing a loop.guard whose counter none of them stores to, though
   _check_termination looks at one back edge at a time. *)
THEOREM NoCycleEscapesItsGuard == VerifySpec => []CyclesAreGuarded
<1>1. VerifyInit => LoopsChecked
  <2>1. ASSUME VerifyInit PROVE index = 0 /\ stage = "groups" /\ \A i \in Functions(container) : ~(i < 0)
    BY <2>1 DEF VerifyInit, Functions
  <2>. QED
    BY <2>1 DEF LoopsChecked
<1>2. VerifyInv /\ LoopsChecked => CyclesAreGuarded
  <2>1. SUFFICES ASSUME VerifyInv, LoopsChecked, stage = "declared",
                        NEW i \in Functions(container), NEW S \in SUBSET DOMAIN shapes[i],
                        StronglyConnected(container, S)
                 PROVE  \E g \in S :
                          /\ NameAt(container, g) = "loop.guard"
                          /\ \A p \in S : NameAt(container, p) = "store.l" =>
                               OperandAt(container, p) # OperandAt(container, g)
    BY DEF CyclesAreGuarded
  <2>2. Len(container.functions) \in Nat
    BY LenProperties DEF VerifyInv, VerifyTypeOK, Decoded, DecodedContainer
  <2>3. i < index
    BY <2>1, <2>2 DEF LoopsChecked, Functions
  <2>4. LoopRefusals(container, shapes[i]) = {} /\ DOMAIN shapes[i] \subseteq Region(container, i)
    BY <2>1, <2>3 DEF LoopsChecked, VerifyInv, WalkIsSound, Certificate, Closed
  <2>5. Start(container, i) \in Nat /\ End(container, i) \in Nat
    BY <2>1, RegionBounds DEF VerifyInv, VerifyTypeOK
  <2>6. IsFiniteSet(DOMAIN shapes[i]) /\ DOMAIN shapes[i] \subseteq Nat
    <3>1. PICK a \in Nat, b \in Nat : Region(container, i) = a..b - 1
      BY <2>5 DEF Region
    <3>2. IsFiniteSet(a..b - 1) /\ a..b - 1 \subseteq Nat
      BY FS_Interval
    <3>. QED
      BY <2>4, <3>1, <3>2, FS_Subset
  <2>. QED
    BY <2>1, <2>4, <2>6, CycleHasItsGuard
<1>3. VerifyInv /\ LoopsChecked /\ [VerifyNext]_verifyVars => LoopsChecked'
  BY LoopsCheckedNext
<1>. QED
  BY InitInv, NextInv, <1>1, <1>2, <1>3, PTL DEF VerifySpec
=============================================================================
