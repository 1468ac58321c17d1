---------------------------- MODULE DeviceProofs ----------------------------
(***************************************************************************)
(* What verifier and interpreter establish together, for every container,  *)
(* every build and every host: control stays inside the verifier's typing, *)
(* the recursion counters count the frames, and an invocation that fails   *)
(* says why.                                                               *)
(***************************************************************************)
EXTENDS Device, VerifyProofs

-----------------------------------------------------------------------------
(* What an accepted container brings to the device. *)

(* Code is tiled and every function walked before anything is accepted, and a
   finished walk leaves sequences of value types. *)
AcceptedInv ==
  /\ stage = "declared" \/ verdict = "accepted" =>
       index = Len(container.functions) /\ RegionsTile(container)
  /\ \A i \in Functions(container) : i < index =>
       \A p \in DOMAIN shapes[i] : shapes[i][p] \in Seq(ValueType)

LEMMA AcceptedInit == VerifyInit => AcceptedInv
<1>. SUFFICES ASSUME VerifyInit PROVE AcceptedInv
  OBVIOUS
<1>1. Decoded(container)
  BY ContainersAssumption DEF VerifyInit
<1>2. Len(container.functions) \in Nat
  BY <1>1, LenProperties DEF Decoded, DecodedContainer
<1>. QED
  BY <1>2 DEF VerifyInit, AcceptedInv, Functions

LEMMA AcceptedRefuse ==
  ASSUME AcceptedInv, NEW r, r # "accepted", Refuse(r)
  PROVE  AcceptedInv'
BY DEF AcceptedInv, Refuse

LEMMA AcceptedNext ==
  ASSUME VerifyInv, AcceptedInv, [VerifyNext]_verifyVars
  PROVE  AcceptedInv'
<1>. USE DEF VerifyInv
<1>0. /\ Len(container.functions) \in Nat
      /\ stage # "done" => verdict # "accepted"
  BY LenProperties DEF VerifyTypeOK, Decoded, DecodedContainer
<1>1. CASE \E r : r # "accepted" /\ Refuse(r)
  BY <1>1, AcceptedRefuse
<1>2. CASE /\ stage' # "declared" /\ verdict' # "accepted"
           /\ UNCHANGED <<container, index, shapes>>
  BY <1>2 DEF AcceptedInv
<1>3. CASE CheckGroups
  BY <1>0, <1>1, <1>2, <1>3 DEF CheckGroups
<1>4. CASE CodeRegions
  BY <1>0, <1>1, <1>2, <1>4 DEF CodeRegions
<1>5. CASE BeginWalk
  BY <1>0, <1>2, <1>5 DEF BeginWalk
<1>6. CASE Join
  BY <1>0, <1>1, <1>2, <1>6 DEF Join
<1>7. CASE Visit
  <2>. DEFINE refusal == StepRefusal(container, index, Last(work)[1], Last(work)[2])
  <2>1. refusal # "accepted"
    BY RefusalNames
  <2>2. \/ Refuse(refusal)
        \/ UNCHANGED <<container, stage, verdict, index, shapes>>
    BY <1>7 DEF Visit
  <2>. QED
    BY <1>0, <1>1, <1>2, <1>7, <2>1, <2>2 DEF Visit
<1>8. CASE EndWalk
  <2>. DEFINE coverage == CoverageRefusal(container, index, at)
              loops    == LoopRefusals(container, at)
  <2>1. coverage # "accepted" /\ "accepted" \notin loops
    BY RefusalNames
  <2>2. CASE \E r : r # "accepted" /\ Refuse(r)
    BY <2>2, <1>1
  <2>3. CASE /\ shapes' = [shapes EXCEPT ![index] = at]
             /\ index' = index + 1
             /\ stage' = "begin"
             /\ UNCHANGED <<container, verdict>>
    <3>1. /\ index \in Functions(container) /\ DOMAIN shapes = Functions(container)
          /\ \A p \in DOMAIN at : at[p] \in Seq(ValueType)
          /\ stage = "walk"
      BY <1>8 DEF EndWalk, VerifyTypeOK
    <3>2. ASSUME NEW i \in Functions(container), i < index + 1,
                 NEW p \in DOMAIN shapes'[i]
          PROVE  shapes'[i][p] \in Seq(ValueType)
      <4>1. CASE i = index
        BY <4>1, <2>3, <3>1, <3>2
      <4>2. CASE i # index
        <5>1. i < index /\ shapes'[i] = shapes[i]
          BY <4>2, <2>3, <3>1, <3>2, <1>0 DEF Functions
        <5>. QED
          BY <5>1, <3>2 DEF AcceptedInv
      <4>. QED
        BY <4>1, <4>2
    <3>. QED
      BY <1>0, <2>3, <3>1, <3>2 DEF AcceptedInv
  <2>. QED
    BY <1>8, <2>1, <2>2, <2>3 DEF EndWalk
<1>9. CASE CallGraph
  <2>1. "accepted" \notin GraphRefusals(container)
    BY RefusalNames
  <2>2. CASE /\ stage' = "declared"
             /\ UNCHANGED <<container, verdict, index, shapes>>
    <3>1. index = Len(container.functions) /\ RegionsTile(container)
      BY <1>0, <1>9 DEF CallGraph, VerifyTypeOK, WalkOwes, Functions
    <3>. QED
      BY <2>2, <3>1 DEF AcceptedInv
  <2>. QED
    BY <1>1, <1>9, <2>1, <2>2 DEF CallGraph
<1>10. CASE CompareDeclared
  <2>1. DeclaredRefusal(container, stacks) # "accepted"
    BY RefusalNames
  <2>2. CASE stage = "declared" /\ UNCHANGED <<container, index, shapes>>
    BY <2>2 DEF AcceptedInv
  <2>. QED
    BY <1>1, <1>10, <2>1, <2>2 DEF CompareDeclared
<1>11. CASE UNCHANGED verifyVars
  BY <1>11 DEF verifyVars, AcceptedInv
<1>. QED
  BY <1>3, <1>4, <1>5, <1>6, <1>7, <1>8, <1>9, <1>10, <1>11 DEF VerifyNext

-----------------------------------------------------------------------------
(* The shape of an execution, frame by frame. *)

Caller == [return_pc: Int, base: Nat, function: Functions(container)]

(* The slots of a frame of function i at the instruction at p. *)
FrameSize(i, p) == Len(Fn(container, i).local_types) + Len(shapes[i][p])

(* The caller f stands at a call of `callee`, whose frame begins where the
   arguments on f's stack do. *)
Waits(f, callee, start) ==
  LET p == f.return_pc - 2
  IN  /\ p \in DOMAIN shapes[f.function]
      /\ NameAt(container, p) = "call" /\ OperandAt(container, p) = callee
      /\ start = f.base + FrameSize(f.function, p) - Fn(container, callee).param_count

RunningShape ==
  /\ current \in Functions(container)
  /\ base \in Nat
  /\ pc \in DOMAIN shapes[current]
  /\ sp = base + FrameSize(current, pc)

CallersShape ==
  /\ frames \in Seq(Caller)
  /\ \A n \in 1..Len(frames) - 1 :
       Waits(frames[n], frames[n + 1].function, frames[n + 1].base)
  /\ frames # <<>> => Waits(frames[Len(frames)], current, base)

(* Something runs only after the container was accepted and this build found
   to have its groups, and while it does every frame is in shape. *)
DeviceInv ==
  /\ VerifyInv /\ AcceptedInv
  /\ status \in {"unloaded", "refused", "idle", "running", "stray"}
  /\ status # "unloaded" => verdict = "accepted"
  /\ status \in {"unloaded", "idle"} => frames = <<>>
  /\ status \in {"idle", "running"} => Loadable
  /\ status = "running" => RunningShape /\ CallersShape

(* What the typing of an accepted function says of an instruction in it. *)
LEMMA TypedInstruction ==
  ASSUME VerifyInv, AcceptedInv, verdict = "accepted",
         NEW i \in Functions(container), NEW p \in DOMAIN shapes[i],
         NEW stack, stack = shapes[i][p]
  PROVE  /\ p \in Region(container, i) /\ p \in Nat
         /\ StepRefusal(container, i, p, stack) = "none"
         /\ stack \in Seq(ValueType) /\ Len(stack) \in Nat
         /\ Len(Takes(container, i, p, stack)) \in 0..Len(stack)
         /\ Len(Gives(container, i, p, stack)) \in Nat
         /\ NameAt(container, p) \in Indexed \cup ConstState => OperandAt(container, p) \in Byte
         /\ \A s \in Successors(container, p) :
              /\ s \in DOMAIN shapes[i]
              /\ Len(shapes[i][s]) = Len(stack) - Len(Takes(container, i, p, stack))
                                       + Len(Gives(container, i, p, stack))
<1>. USE DEF VerifyInv
<1>1. /\ Decoded(container) /\ RegionsTile(container)
      /\ i < index
  BY LenProperties DEF AcceptedInv, VerifyTypeOK, Decoded, DecodedContainer, Functions
<1>2. /\ p \in Region(container, i)
      /\ StepRefusal(container, i, p, stack) = "none"
      /\ \A s \in Successors(container, p) :
           s \in DOMAIN shapes[i] /\ shapes[i][s] = Effect(container, i, p, stack)
  BY <1>1 DEF WalkIsSound, Certificate, Closed
<1>3. stack \in Seq(ValueType) /\ Len(stack) \in Nat
  BY <1>1, LenProperties DEF AcceptedInv
<1>4. p \in Nat
  BY <1>1, <1>2, RegionInCode DEF Region
<1>5. /\ Len(Takes(container, i, p, stack)) \in 0..Len(stack)
      /\ Gives(container, i, p, stack) \in Seq(ValueType)
      /\ Len(Effect(container, i, p, stack)) =
           Len(stack) - Len(Takes(container, i, p, stack)) + Len(Gives(container, i, p, stack))
      /\ NameAt(container, p) \in Indexed \cup ConstState => OperandAt(container, p) \in Byte
  BY <1>1, <1>2, <1>3, EffectType
<1>6. Len(Gives(container, i, p, stack)) \in Nat
  BY <1>5, LenProperties
<1>. QED
  BY <1>2, <1>3, <1>4, <1>5, <1>6

(* The locals of a function, and the parameters among them. *)
LEMMA FunctionLocals ==
  ASSUME VerifyInv, NEW i \in Functions(container)
  PROVE  /\ Fn(container, i).local_types \in Seq(ValueType)
         /\ Len(Fn(container, i).local_types) \in Nat
         /\ Fn(container, i).param_count \in 0..Len(Fn(container, i).local_types)
         /\ Len(ParamTypes(Fn(container, i))) = Fn(container, i).param_count
         /\ Fn(container, i).code_offset \in Nat
         /\ Fn(container, i).recursion_cap \in Nat
         /\ Fn(container, i).return_type \in ValType
<1>1. /\ Fn(container, i) \in Function
      /\ Fn(container, i).param_count <= Len(Fn(container, i).local_types)
  BY FunctionFields DEF VerifyInv, VerifyTypeOK
<1>2. /\ Fn(container, i).local_types \in Seq(ValueType)
      /\ Fn(container, i).param_count \in Nat
      /\ Fn(container, i).code_offset \in Nat
      /\ Fn(container, i).recursion_cap \in Nat
      /\ Fn(container, i).return_type \in ValType
  <2>. DEFINE fn == Fn(container, i)
  <2>1. fn \in Function
    BY <1>1
  <2>. HIDE DEF fn
  <2>2. /\ fn.local_types \in Seq(ValueType)
        /\ fn.param_count \in Byte
        /\ fn.code_offset \in Nat
        /\ fn.recursion_cap \in Byte
        /\ fn.return_type \in ValType
    BY <2>1 DEF Function
  <2>3. Byte \subseteq Nat
    BY DEF Byte
  <2>. QED
    BY <2>2, <2>3 DEF fn
<1>3. Len(Fn(container, i).local_types) \in Nat
  BY <1>2, LenProperties
<1>4. Len(ParamTypes(Fn(container, i))) = Fn(container, i).param_count
  BY <1>1, <1>2, <1>3, Prefix DEF ParamTypes
<1>. QED
  BY <1>1, <1>2, <1>3, <1>4

(* How large the typing of a frame is. *)
LEMMA SizeOfTypes ==
  ASSUME NEW locals \in Seq(ValueType), NEW stack \in Seq(ValueType),
         NEW given \in 0..Len(stack)
  PROVE  Len(locals \o Rest(stack, given)) = Len(locals) + Len(stack) - given
<1>1. Len(stack) \in Nat /\ Len(locals) \in Nat
  BY LenProperties
<1>. DEFINE m == Len(stack) - given
<1>2. m \in Nat /\ m <= Len(stack)
  BY <1>1
<1>3. /\ SubSeq(stack, 1, m) \in Seq(ValueType)
      /\ Len(SubSeq(stack, 1, m)) = m
  BY <1>2, Prefix
<1>4. Rest(stack, given) \in Seq(ValueType) /\ Len(Rest(stack, given)) = m
  BY <1>3 DEF Rest
<1>. HIDE DEF m
<1>5. Len(locals \o Rest(stack, given)) = Len(locals) + m
  BY <1>4, ConcatProperties
<1>. QED
  BY <1>1, <1>5 DEF m


-----------------------------------------------------------------------------
(* The three ways a step moves between instructions that are typed. *)

(* On to a successor in the same frame, the stack changed as the verifier
   said. *)
Continues ==
  LET stack == shapes[current][pc]
  IN  /\ pc' \in Successors(container, pc)
      /\ sp' = sp - Len(Takes(container, current, pc, stack))
                  + Len(Gives(container, current, pc, stack))
      /\ UNCHANGED <<status, frameVars>>

(* Into a callee, which is one more of its component. *)
Enters ==
  LET callee == OperandAt(container, pc)
      k      == Fn(container, callee).component
  IN  /\ NameAt(container, pc) = "call"
      /\ ~OverCap
      /\ counters' = [counters EXCEPT ![k] = IF ComponentCap(k) # 0 THEN @ + 1 ELSE @]
      /\ frames' = Append(frames, [return_pc |-> pc + 2, base |-> base,
                                   function |-> current])
      /\ base' = sp - Fn(container, callee).param_count
      /\ sp' = base' + Len(Fn(container, callee).local_types)
      /\ current' = callee
      /\ pc' = Fn(container, callee).code_offset

(* Back to the caller, with the callee's result if it has one: one less of the
   callee's component. *)
Returns ==
  LET f == frames[Len(frames)]
      k == Fn(container, current).component
  IN  /\ NameAt(container, pc) \in Return
      /\ counters' = [counters EXCEPT ![k] = IF ComponentCap(k) # 0 THEN @ - 1 ELSE @]
      /\ frames # <<>>
      /\ frames' = Front(frames)
      /\ base' = f.base /\ pc' = f.return_pc /\ current' = f.function
      /\ sp' = base + (IF NameAt(container, pc) = "ret_v" THEN 1 ELSE 0)

LEMMA ContinuesInShape ==
  ASSUME DeviceInv, status = "running", Continues, UNCHANGED verifyVars
  PROVE  RunningShape' /\ CallersShape'
<1>. DEFINE stack == shapes[current][pc]
            takes == Len(Takes(container, current, pc, stack))
            gives == Len(Gives(container, current, pc, stack))
            after == Len(shapes[current][pc'])
            locals == Len(Fn(container, current).local_types)
<1>1. /\ current \in Functions(container) /\ base \in Nat
      /\ pc \in DOMAIN shapes[current]
      /\ sp = base + (locals + Len(stack))
      /\ UNCHANGED <<container, shapes, current, base, frames>>
      /\ pc' \in Successors(container, pc)
      /\ sp' = sp - takes + gives
  BY DEF DeviceInv, RunningShape, FrameSize, Continues, verifyVars, frameVars
<1>2. /\ Len(stack) \in Nat /\ locals \in Nat
      /\ takes \in 0..Len(stack) /\ gives \in Nat
      /\ pc' \in DOMAIN shapes[current]
      /\ after = Len(stack) - takes + gives
  BY <1>1, TypedInstruction, FunctionLocals DEF DeviceInv
<1>3. sp' = base + (locals + after)
  <2>. HIDE DEF stack, takes, gives, after, locals
  <2>. QED
    BY <1>1, <1>2
<1>4. FrameSize(current, pc)' = locals + after
  BY <1>1 DEF FrameSize
<1>5. RunningShape'
  BY <1>1, <1>2, <1>3, <1>4 DEF RunningShape
<1>6. CallersShape'
  BY <1>1 DEF DeviceInv, CallersShape, Caller, Waits, FrameSize
<1>. QED
  BY <1>5, <1>6

(* The caller is left waiting, and the callee starts with an empty stack. *)
LEMMA EntersInShape ==
  ASSUME DeviceInv, status = "running", Enters, UNCHANGED verifyVars
  PROVE  RunningShape' /\ CallersShape'
<1>. DEFINE stack  == shapes[current][pc]
            callee == OperandAt(container, pc)
            params == Fn(container, callee).param_count
            size   == FrameSize(current, pc)
            F      == [return_pc |-> pc + 2, base |-> base, function |-> current]
            N      == Len(frames)
<1>1. /\ current \in Functions(container) /\ base \in Nat
      /\ pc \in DOMAIN shapes[current]
      /\ sp = base + size
      /\ frames \in Seq(Caller)
      /\ UNCHANGED <<container, shapes>>
      /\ verdict = "accepted"
  BY DEF DeviceInv, RunningShape, CallersShape, verifyVars
<1>2. /\ pc \in Nat
      /\ StepRefusal(container, current, pc, stack) = "none"
      /\ Len(stack) \in Nat
      /\ Len(Takes(container, current, pc, stack)) \in 0..Len(stack)
      /\ callee \in Byte
  BY <1>1, TypedInstruction DEF DeviceInv, Enters, Indexed
<1>3. callee \in Functions(container)
  BY <1>1, <1>2, StepPasses, LookupsSucceed DEF DeviceInv, VerifyInv, VerifyTypeOK, Enters
<1>4. /\ params \in Nat /\ params <= Len(stack)
      /\ Len(Fn(container, current).local_types) \in Nat
      /\ Len(Fn(container, callee).local_types) \in Nat
      /\ Fn(container, callee).code_offset \in Nat
  <2>1. Takes(container, current, pc, stack) = ParamTypes(Fn(container, callee))
    BY DEF Takes, Predicate, Enters
  <2>. QED
    BY <1>1, <1>2, <1>3, <2>1, FunctionLocals DEF DeviceInv
<1>5. base' = base + size - params /\ base' \in Nat
  <2>1. size = Len(Fn(container, current).local_types) + Len(stack)
    BY DEF FrameSize
  <2>. HIDE DEF size, params, stack
  <2>2. base' = sp - params
    BY DEF Enters, params
  <2>. QED
    BY <1>1, <1>2, <1>4, <2>1, <2>2
<1>6. /\ Fn(container, callee).code_offset \in DOMAIN shapes[callee]
      /\ Len(shapes[callee][Fn(container, callee).code_offset]) = 0
  <2>1. callee < index
    BY <1>1, <1>3, LenProperties
    DEF DeviceInv, AcceptedInv, VerifyInv, VerifyTypeOK, Decoded, DecodedContainer, Functions
  <2>2. Certificate(container, callee, shapes[callee])
    BY <1>3, <2>1 DEF DeviceInv, VerifyInv, WalkIsSound
  <2>. QED
    BY <2>2 DEF Certificate, Start
<1>7. RunningShape'
  <2>1. /\ current' = callee /\ pc' = Fn(container, callee).code_offset
        /\ sp' = base' + Len(Fn(container, callee).local_types)
    BY DEF Enters
  <2>2. FrameSize(current, pc)' = Len(Fn(container, callee).local_types) + 0
    BY <1>1, <1>6, <2>1 DEF FrameSize
  <2>3. sp' = base' + FrameSize(current, pc)'
    BY <1>4, <1>5, <2>1, <2>2
  <2>. QED
    BY <1>1, <1>3, <1>5, <1>6, <2>1, <2>3 DEF RunningShape
<1>8. /\ F \in Caller /\ N \in Nat
      /\ frames' = Append(frames, F)
  BY <1>1, <1>2, LenProperties DEF Caller, Enters
<1>9. /\ frames' \in Seq(Caller) /\ Len(frames') = N + 1
      /\ frames'[N + 1] = F
      /\ \A n \in 1..N : frames'[n] = frames[n]
  BY <1>1, <1>8, AppendProperties
<1>10. Waits(F, current', base')
  <2>1. F.return_pc - 2 = pc /\ F.function = current /\ F.base = base
    BY <1>2
  <2>. QED
    BY <1>1, <1>5, <2>1 DEF Waits, Enters
<1>11. ASSUME NEW n \in 1..N
       PROVE  Waits(frames'[n], frames'[n + 1].function, frames'[n + 1].base)
  <2>1. CASE n = N
    <3>1. frames # <<>> /\ frames'[n] = frames[N] /\ frames'[n + 1] = F
      BY <1>8, <1>9, <2>1
    <3>. QED
      BY <3>1 DEF DeviceInv, CallersShape
  <2>2. CASE n # N
    <3>1. /\ n \in 1..N - 1 /\ n + 1 \in 1..N
      BY <1>8, <2>2
    <3>2. frames'[n] = frames[n] /\ frames'[n + 1] = frames[n + 1]
      BY <1>9, <3>1
    <3>. QED
      BY <3>1, <3>2 DEF DeviceInv, CallersShape
  <2>. QED
    BY <2>1, <2>2
<1>12. CallersShape'
  <2>1. Caller' = Caller
    BY <1>1 DEF Caller
  <2>2. /\ N + 1 - 1 = N /\ frames'[Len(frames')] = F
    BY <1>8, <1>9
  <2>. HIDE DEF F, N
  <2>3. Waits(frames[Len(frames)], current, base)'
    BY <1>1, <1>10, <2>2 DEF Waits, FrameSize
  <2>4. ASSUME NEW n \in (1..Len(frames) - 1)'
        PROVE  Waits(frames[n], frames[n + 1].function, frames[n + 1].base)'
    <3>1. n \in 1..N
      BY <1>9, <1>8, <2>2
    <3>2. Waits(frames'[n], frames'[n + 1].function, frames'[n + 1].base)
      BY <1>11, <3>1
    <3>. QED
      BY <1>1, <3>2 DEF Waits, FrameSize
  <2>. QED
    BY <1>9, <2>1, <2>3, <2>4 DEF CallersShape
<1>. QED
  BY <1>7, <1>12

(* What a function returns is what its return type says. *)
LEMMA ReturnMatches ==
  ASSUME NEW c, NEW i, NEW p, NEW stack, StepRefusal(c, i, p, stack) = "none",
         NameAt(c, p) \in Return
  PROVE  Fn(c, i).return_type = VOID <=> NameAt(c, p) = "ret"
<1>1. ApplyRefusal(c, i, p, stack) = "none"
  BY DEF StepRefusal
<1>2. ~(\/ NameAt(c, p) = "ret" /\ (Fn(c, i).return_type # VOID \/ stack # <<>>)
        \/ NameAt(c, p) = "ret_v" /\ Fn(c, i).return_type = VOID)
  BY <1>1 DEF ApplyRefusal
<1>. QED
  BY <1>2 DEF Return

(* The caller goes on after its call, with the result where its arguments
   were. *)
LEMMA ReturnsInShape ==
  ASSUME DeviceInv, status = "running", Returns, UNCHANGED verifyVars
  PROVE  RunningShape' /\ CallersShape'
<1>. DEFINE N      == Len(frames)
            f      == frames[N]
            i      == f.function
            p      == f.return_pc - 2
            stack  == shapes[i][p]
            locals == Len(Fn(container, i).local_types)
            params == Fn(container, current).param_count
            results == IF NameAt(container, pc) = "ret_v" THEN 1 ELSE 0
<1>1. /\ current \in Functions(container) /\ base \in Nat
      /\ pc \in DOMAIN shapes[current]
      /\ frames \in Seq(Caller) /\ frames # <<>>
      /\ UNCHANGED <<container, shapes>>
      /\ verdict = "accepted"
  BY DEF DeviceInv, RunningShape, CallersShape, verifyVars, Returns
<1>2. /\ N \in Nat \ {0} /\ N \in 1..N
      /\ f \in Caller
      /\ frames' \in Seq(Caller) /\ Len(frames') = N - 1
      /\ \A n \in 1..N - 1 : frames'[n] = frames[n]
  BY <1>1, FrontLast DEF Returns
<1>3. /\ i \in Functions(container) /\ f.return_pc \in Int /\ f.base \in Nat
  BY <1>2 DEF Caller
<1>4. /\ p \in DOMAIN shapes[i] /\ NameAt(container, p) = "call"
      /\ OperandAt(container, p) = current
      /\ base = f.base + (locals + Len(stack)) - params
  BY <1>1 DEF DeviceInv, CallersShape, Waits, FrameSize
<1>5. f.return_pc \in Successors(container, p)
  <2>1. After(container, p) = f.return_pc
    BY <1>3, <1>4 DEF After, Size, Branch, Indexed, Pool
  <2>. QED
    BY <1>4, <2>1 DEF Successors, Return
<1>6. /\ f.return_pc \in DOMAIN shapes[i]
      /\ Len(stack) \in Nat /\ locals \in Nat
      /\ Len(Takes(container, i, p, stack)) \in 0..Len(stack)
      /\ Len(shapes[i][f.return_pc]) = Len(stack) - Len(Takes(container, i, p, stack))
                                         + Len(Gives(container, i, p, stack))
  BY <1>1, <1>3, <1>4, <1>5, TypedInstruction, FunctionLocals, ZenonT(30) DEF DeviceInv
<1>7. Len(Takes(container, i, p, stack)) = params
  <2>1. Takes(container, i, p, stack) = ParamTypes(Fn(container, current))
    BY <1>4 DEF Takes, Predicate
  <2>. QED
    BY <1>1, <2>1, FunctionLocals DEF DeviceInv
<1>8. Len(Gives(container, i, p, stack)) = results
  <2>. DEFINE type == Fn(container, current).return_type
  <2>1. Gives(container, i, p, stack) = IF type = VOID THEN <<>> ELSE <<type>>
    BY <1>4 DEF Gives, Predicate, ConstState
  <2>2. type = VOID <=> NameAt(container, pc) = "ret"
    BY <1>1, TypedInstruction, ReturnMatches DEF DeviceInv, Returns
  <2>3. type = VOID <=> results = 0
    BY <2>2 DEF Return, Returns
  <2>. HIDE DEF type
  <2>. HIDE DEF results
  <2>4. CASE type = VOID
    BY <2>1, <2>3, <2>4
  <2>5. CASE type # VOID
    <3>1. results = 1
      BY <2>3, <2>5 DEF results
    <3>. QED
      BY <2>1, <2>5, <3>1
  <2>. QED
    BY <2>4, <2>5
<1>9. RunningShape'
  <2>1. /\ current' = i /\ pc' = f.return_pc /\ base' = f.base
        /\ sp' = base + results
    BY DEF Returns
  <2>2. FrameSize(current, pc)' = locals + Len(shapes[i][f.return_pc])
    BY <1>1, <2>1 DEF FrameSize
  <2>. DEFINE after == Len(shapes[i][f.return_pc])
  <2>3. sp' = base' + (locals + after)
    <3>1. after = Len(stack) - params + results
      BY <1>6, <1>7, <1>8
    <3>2. params \in Nat
      BY <1>6, <1>7
    <3>3. results \in Nat
      OBVIOUS
    <3>. HIDE DEF after, params, results, locals, stack
    <3>. QED
      BY <1>3, <1>4, <1>6, <2>1, <3>1, <3>2, <3>3
  <2>. QED
    BY <1>1, <1>3, <1>6, <2>1, <2>2, <2>3 DEF RunningShape
<1>10. CallersShape'
  <2>1. Caller' = Caller
    BY <1>1 DEF Caller
  <2>2. current' = i /\ base' = f.base
    BY DEF Returns
  <2>3. ASSUME NEW n \in 1..N - 1
        PROVE  Waits(frames[n], frames[n + 1].function, frames[n + 1].base)
    BY <2>3 DEF DeviceInv, CallersShape
  <2>4. ASSUME NEW n \in 1..N - 2
        PROVE  Waits(frames[n], frames[n + 1].function, frames[n + 1].base)'
    <3>1. /\ n \in 1..N - 1 /\ n + 1 \in 1..N - 1
          /\ frames'[n] = frames[n] /\ frames'[n + 1] = frames[n + 1]
      BY <1>2
    <3>. QED
      BY <1>1, <2>3, <3>1 DEF Waits, FrameSize
  <2>5. CASE N # 1
    <3>1. /\ N - 1 \in 1..N - 1 /\ N - 1 + 1 = N
          /\ frames'[N - 1] = frames[N - 1]
      BY <1>2, <2>5
    <3>2. Waits(frames[N - 1], i, f.base)
      BY <2>3, <3>1
    <3>3. Waits(frames[Len(frames)], current, base)'
      <4>1. Waits(frames'[N - 1], current', base')
        BY <2>2, <3>1, <3>2
      <4>. QED
        BY <1>1, <1>2, <4>1 DEF Waits, FrameSize
    <3>4. Len(frames)' = N - 1 /\ \A n \in (1..Len(frames) - 1)' : n \in 1..N - 2
      BY <1>2
    <3>. HIDE DEF N
    <3>. QED
      BY <1>2, <2>1, <2>4, <3>3, <3>4 DEF CallersShape
  <2>6. CASE N = 1
    <3>1. frames' = <<>>
      BY <1>2, <2>6, EmptySeq
    <3>. QED
      BY <1>2, <2>1, <2>6, <3>1 DEF CallersShape
  <2>. QED
    BY <2>5, <2>6
<1>. QED
  BY <1>9, <1>10

-----------------------------------------------------------------------------
(* What each instruction takes and gives, counted. *)

TwoToOne ==
  ArithI32 \cup DivRemI32 \cup CompareI32 \cup Bitwise32 \cup Shift32 \cup {"and", "or"}
    \cup ArithI64 \cup DivRemI64 \cup CompareI64 \cup ArithF32 \cup CompareF32
OneToOne ==
  UnaryI32 \cup {"not", "neg.i64", "neg.f32", "extend.i32_i64", "wrap.i64_i32",
                 "convert.i32_f32", "convert.i64_f32", "trunc.f32_i32", "trunc.f32_i64"}
NoneToOne == Pool \cup {"const.i32.s8", "const.i32.s16", "const.true", "const.false"}

LEMMA FixedCounts ==
  ASSUME NEW c, NEW i, NEW p, NEW stack, NEW name, name = NameAt(c, p)
  PROVE  /\ name \in TwoToOne => /\ Len(Takes(c, i, p, stack)) = 2
                                 /\ Len(Gives(c, i, p, stack)) = 1
         /\ name \in OneToOne => /\ Len(Takes(c, i, p, stack)) = 1
                                 /\ Len(Gives(c, i, p, stack)) = 1
         /\ name \in NoneToOne => /\ Len(Takes(c, i, p, stack)) = 0
                                  /\ Len(Gives(c, i, p, stack)) = 1
         /\ name \in {"jmp_if_false", "jmp_if_true"} =>
              /\ Len(Takes(c, i, p, stack)) = 1
              /\ Len(Gives(c, i, p, stack)) = 0
         /\ name \in {"jmp", "loop.guard"} =>
              /\ Len(Takes(c, i, p, stack)) = 0
              /\ Len(Gives(c, i, p, stack)) = 0
<1>. USE DEF ArithI32, DivRemI32, CompareI32, Bitwise32, Shift32, ArithI64, DivRemI64,
             CompareI64, ArithF32, CompareF32, UnaryI32, Pool, Predicate, ConstState
<1>1. name \in TwoToOne \cup OneToOne \cup NoneToOne
                 \cup {"jmp", "jmp_if_false", "jmp_if_true", "loop.guard"} =>
        /\ Takes(c, i, p, stack) = Pops(name)
        /\ Gives(c, i, p, stack) = Pushes(name)
  BY DEF Takes, Gives, TwoToOne, OneToOne, NoneToOne
<1>2. /\ name \in TwoToOne => \E a : Pops(name) = <<a, a>>
      /\ name \in OneToOne \cup {"jmp_if_false", "jmp_if_true"} => \E a : Pops(name) = <<a>>
      /\ name \in NoneToOne \cup {"jmp", "loop.guard"} => Pops(name) = <<>>
  BY DEF Pops, TwoToOne, OneToOne, NoneToOne
<1>3. /\ name \in TwoToOne \cup OneToOne \cup NoneToOne => \E a : Pushes(name) = <<a>>
      /\ name \in {"jmp", "jmp_if_false", "jmp_if_true", "loop.guard"} => Pushes(name) = <<>>
  BY DEF Pushes, TwoToOne, OneToOne, NoneToOne
<1>4. Len(<<>>) = 0 /\ \A a : Len(<<a>>) = 1 /\ Len(<<a, a>>) = 2
  OBVIOUS
<1>. HIDE DEF ArithI32, DivRemI32, CompareI32, Bitwise32, Shift32, ArithI64, DivRemI64,
              CompareI64, ArithF32, CompareF32, UnaryI32, Pool, Predicate, ConstState
<1>. QED
  BY <1>1, <1>2, <1>3, <1>4

(* Where the tables or the stack settle the types, the counts are fixed all
   the same, except for an imported function. *)
LEMMA TableCounts ==
  ASSUME NEW c, NEW i, NEW p, NEW stack \in Seq(ValueType), NEW name, name = NameAt(c, p)
  PROVE  /\ name \in {"load.l", "load.h"} \cup ConstState =>
              /\ Len(Takes(c, i, p, stack)) = 0
              /\ Len(Gives(c, i, p, stack)) = 1
         /\ name \in {"store.l", "store.h", "drop"} =>
              /\ Len(Takes(c, i, p, stack)) = 1
              /\ Len(Gives(c, i, p, stack)) = 0
         /\ name \in Predicate => /\ Len(Takes(c, i, p, stack)) = 1
                                  /\ Len(Gives(c, i, p, stack)) = 1
         /\ name = "dup" => /\ Len(Takes(c, i, p, stack)) = 1
                            /\ Len(Gives(c, i, p, stack)) = 2
         /\ name = "else" => /\ Len(Takes(c, i, p, stack)) = 2
                             /\ Len(Gives(c, i, p, stack)) = 1
<1>. USE DEF Predicate, ConstState
<1>1. Len(<<>>) = 0 /\ \A a, b : Len(<<a>>) = 1 /\ Len(<<a, b>>) = 2
  OBVIOUS
<1>2. CASE name \in {"load.l", "load.h"} \cup ConstState
  <2>1. Takes(c, i, p, stack) = <<>> /\ \E a : Gives(c, i, p, stack) = <<a>>
    BY <1>2 DEF Takes, Gives, Pops, ArithI32, DivRemI32, CompareI32, Bitwise32, Shift32,
       ArithI64, DivRemI64, CompareI64, ArithF32, CompareF32, UnaryI32
  <2>. QED
    BY <1>1, <1>2, <2>1
<1>3. CASE name \in {"store.l", "store.h"}
  <2>1. /\ \E a : Takes(c, i, p, stack) = <<a>>
        /\ Gives(c, i, p, stack) = <<>>
    BY <1>3 DEF Takes, Gives, Pushes, ArithI32, DivRemI32, CompareI32, Bitwise32, Shift32,
       ArithI64, DivRemI64, CompareI64, ArithF32, CompareF32, UnaryI32, Pool
  <2>. QED
    BY <1>1, <1>3, <2>1
<1>4. CASE name \in {"drop", "dup"} \cup Predicate
  <2>1. Takes(c, i, p, stack) = IF stack = <<>> THEN <<VOID>> ELSE Top(stack, 1)
    BY <1>4 DEF Takes
  <2>2. stack # <<>> => Len(Top(stack, 1)) = 1
    <3>1. stack # <<>> => /\ Top(stack, 1) = SubSeq(stack, Len(stack), Len(stack))
                          /\ Len(stack) \in Nat \ {0}
      BY EmptySeq, LenProperties DEF Top
    <3>. QED
      BY <3>1, SubSeqProperties, ElementOfSeq
  <2>3. Len(Takes(c, i, p, stack)) = 1
    BY <1>1, <2>1, <2>2
  <2>4. /\ name = "drop" => Gives(c, i, p, stack) = <<>>
        /\ name = "dup" => \E a, b : Gives(c, i, p, stack) = <<a, b>>
        /\ name \in Predicate => \E a : Gives(c, i, p, stack) = <<a>>
    BY <1>4 DEF Gives, Pushes, ArithI32, DivRemI32, CompareI32, Bitwise32, Shift32,
       ArithI64, DivRemI64, CompareI64, ArithF32, CompareF32, UnaryI32, Pool
  <2>. QED
    BY <1>1, <1>4, <2>3, <2>4
<1>5. CASE name = "else"
  <2>1. /\ \E a, b : Takes(c, i, p, stack) = <<a, b>>
        /\ \E a : Gives(c, i, p, stack) = <<a>>
    BY <1>5 DEF Takes, Gives
  <2>. QED
    BY <1>1, <1>5, <2>1
<1>. QED
  BY <1>2, <1>3, <1>4, <1>5

-----------------------------------------------------------------------------
(* Every turn of the dispatch loop is one of the three moves, or ends the
   invocation. *)

(* An instruction that goes on to the next one, with n taken and m given. *)
Moves(n, m) ==
  /\ pc' = pc + Size(Name)
  /\ sp' = sp - n + m
  /\ UNCHANGED <<status, frameVars>>

LEMMA MovesContinues ==
  ASSUME NEW n, NEW m, Moves(n, m), Name \notin Return \cup {"jmp"},
         n = Len(Takes(container, current, pc, shapes[current][pc])),
         m = Len(Gives(container, current, pc, shapes[current][pc]))
  PROVE  Continues
<1>1. pc' \in Successors(container, pc)
  BY DEF Moves, Name, Successors, After
<1>. QED
  BY <1>1 DEF Moves, Continues

LEMMA MoveSteps ==
  ASSUME Constants \/ Movement \/ Core32 \/ Core64 \/ Floating \/ Logic,
         sp \in Int, shapes[current][pc] \in Seq(ValueType),
         Len(Takes(container, current, pc, shapes[current][pc])) \in Nat
  PROVE  Continues \/ Leave
<1>. DEFINE stack == shapes[current][pc]
            takes == Len(Takes(container, current, pc, stack))
            gives == Len(Gives(container, current, pc, stack))
<1>. USE DEF On, Operate, Produce, Advance
<1>1. CASE \/ BinaryI32 \/ DivideI32 \/ OrderI32 \/ BitwiseI32 \/ ShiftI32 \/ AndOr
           \/ BinaryI64 \/ DivideI64 \/ OrderI64 \/ BinaryF32 \/ OrderF32
  <2>1. Name \in TwoToOne /\ Moves(2, 1)
    BY <1>1 DEF BinaryI32, DivideI32, OrderI32, BitwiseI32, ShiftI32, AndOr, BinaryI64,
       DivideI64, OrderI64, BinaryF32, OrderF32, TwoToOne, Moves
  <2>2. takes = 2 /\ gives = 1
    BY <2>1, FixedCounts DEF Name
  <2>3. Name \notin Return \cup {"jmp"}
    BY <2>1 DEF TwoToOne, Return, ArithI32, DivRemI32, CompareI32, Bitwise32, Shift32, ArithI64,
       DivRemI64, CompareI64, ArithF32, CompareF32
  <2>. QED
    BY <2>1, <2>2, <2>3, MovesContinues
<1>2. CASE \/ NegI32 \/ BitNotI32 \/ Not \/ NegI64 \/ ExtendI32I64 \/ WrapI64I32 \/ NegF32
           \/ ConvertToF32 \/ TruncToI32 \/ TruncToI64
  <2>1. Name \in OneToOne /\ Moves(1, 1)
    BY <1>2 DEF NegI32, BitNotI32, Not, NegI64, ExtendI32I64, WrapI64I32, NegF32, ConvertToF32,
       TruncToI32, TruncToI64, OneToOne, UnaryI32, Moves
  <2>2. takes = 1 /\ gives = 1
    BY <2>1, FixedCounts DEF Name
  <2>3. Name \notin Return \cup {"jmp"}
    BY <2>1 DEF OneToOne, Return, UnaryI32
  <2>. QED
    BY <2>1, <2>2, <2>3, MovesContinues
<1>3. CASE ConstImmediate \/ ConstPool \/ ConstBool
  <2>1. Name \in NoneToOne /\ Moves(0, 1)
    BY <1>3 DEF ConstImmediate, ConstPool, ConstBool, NoneToOne, Moves
  <2>2. takes = 0 /\ gives = 1
    BY <2>1, FixedCounts DEF Name
  <2>3. Name \notin Return \cup {"jmp"}
    BY <2>1 DEF NoneToOne, Return, Pool
  <2>. QED
    BY <2>1, <2>2, <2>3, MovesContinues
<1>4. CASE ConstAbsent \/ LoadL \/ LoadH
  <2>1. Name \in {"load.l", "load.h"} \cup ConstState /\ Moves(0, 1)
    BY <1>4 DEF ConstAbsent, LoadL, LoadH, Moves
  <2>2. takes = 0 /\ gives = 1
    BY <2>1, TableCounts DEF Name
  <2>3. Name \notin Return \cup {"jmp"}
    BY <2>1 DEF ConstState, Return
  <2>. QED
    BY <2>1, <2>2, <2>3, MovesContinues
<1>5. CASE StoreL \/ StoreH \/ Drop
  <2>1. Name \in {"store.l", "store.h", "drop"} /\ Moves(1, 0)
    BY <1>5 DEF StoreL, StoreH, Drop, Moves
  <2>2. takes = 1 /\ gives = 0
    BY <2>1, TableCounts DEF Name
  <2>3. Name \notin Return \cup {"jmp"}
    BY <2>1 DEF Return
  <2>. QED
    BY <2>1, <2>2, <2>3, MovesContinues
<1>6. CASE Dup
  <2>1. Name = "dup" /\ sp' = sp - 0 + 1
    BY <1>6 DEF Dup
  <2>2. takes = 1 /\ gives = 2
    BY <2>1, TableCounts DEF Name
  <2>3. Moves(1, 2)
    BY <1>6, <2>1 DEF Dup, Moves
  <2>4. Name \notin Return \cup {"jmp"}
    BY <2>1 DEF Return
  <2>. QED
    BY <2>2, <2>3, <2>4, MovesContinues
<1>7. CASE Else
  <2>1. Name = "else" /\ Moves(2, 1)
    BY <1>7 DEF Else, Moves
  <2>2. takes = 2 /\ gives = 1
    BY <2>1, TableCounts DEF Name
  <2>3. Name \notin Return \cup {"jmp"}
    BY <2>1 DEF Return
  <2>. QED
    BY <2>1, <2>2, <2>3, MovesContinues
<1>8. CASE IsState
  <2>1. Name \in Predicate /\ Moves(1, 1)
    BY <1>8 DEF IsState, Moves
  <2>2. takes = 1 /\ gives = 1
    BY <2>1, TableCounts DEF Name
  <2>3. Name \notin Return \cup {"jmp"}
    BY <2>1 DEF Return, Predicate
  <2>. QED
    BY <2>1, <2>2, <2>3, MovesContinues
<1>9. CASE CallH
  <2>. DEFINE count == Len(Imp.param_types)
  <2>1. /\ Takes(container, current, pc, stack) = Imp.param_types
        /\ Gives(container, current, pc, stack) = IF Imp.type = VOID THEN <<>> ELSE <<Imp.type>>
    BY <1>9 DEF CallH, Takes, Gives, Name, Imp, Arg, Predicate, ConstState
  <2>2. takes = count /\ gives = IF Imp.type = VOID THEN 0 ELSE 1
    BY <2>1
  <2>3. \/ Leave
        \/ Imp.type = VOID /\ sp' = sp - count /\ Advance
        \/ Imp.type # VOID /\ Moves(count, 1)
    BY <1>9 DEF CallH, FaultWith, Moves
  <2>4. Name \notin Return \cup {"jmp"}
    BY <1>9 DEF CallH, Return
  <2>5. CASE Imp.type = VOID /\ sp' = sp - count /\ Advance
    <3>1. count \in Nat /\ gives = 0
      BY <2>2, <2>5
    <3>2. Moves(count, 0)
      BY <3>1, <2>5 DEF Moves
    <3>. QED
      BY <2>2, <2>4, <3>1, <3>2, MovesContinues
  <2>6. CASE Imp.type # VOID /\ Moves(count, 1)
    <3>1. gives = 1
      BY <2>2, <2>6
    <3>. QED
      BY <2>2, <2>4, <2>6, <3>1, MovesContinues
  <2>. QED
    BY <2>3, <2>5, <2>6
<1>. QED
  BY <1>1, <1>2, <1>3, <1>4, <1>5, <1>6, <1>7, <1>8, <1>9
  DEF Constants, Movement, Core32, Core64, Floating, Logic

LEMMA ControlSteps ==
  ASSUME Control, sp \in Int, base \in Int
  PROVE  Continues \/ Leave \/ (status' = status /\ (Enters \/ Returns))
<1>. DEFINE stack == shapes[current][pc]
            takes == Len(Takes(container, current, pc, stack))
            gives == Len(Gives(container, current, pc, stack))
<1>. USE DEF On, FaultWith
<1>1. CASE LoopGuard
  <2>1. Name = "loop.guard" /\ (Leave \/ Moves(0, 0))
    BY <1>1 DEF LoopGuard, Moves, Advance
  <2>2. takes = 0 /\ gives = 0
    BY <2>1, FixedCounts DEF Name
  <2>3. Name \notin Return \cup {"jmp"}
    BY <2>1 DEF Return
  <2>. QED
    BY <2>1, <2>2, <2>3, MovesContinues
<1>2. CASE Jmp
  <2>1. takes = 0 /\ gives = 0
    BY <1>2, FixedCounts DEF Jmp, Name
  <2>2. pc' \in Successors(container, pc)
    BY <1>2 DEF Jmp, Name, Successors, Branch
  <2>. QED
    BY <1>2, <2>1, <2>2 DEF Jmp, Continues
<1>3. CASE JmpIf
  <2>1. takes = 1 /\ gives = 0
    BY <1>3, FixedCounts DEF JmpIf, Name
  <2>2. Leave \/ pc' \in Successors(container, pc)
    BY <1>3 DEF JmpIf, Name, Successors, Branch, Return
  <2>3. \/ Leave
        \/ sp' = sp - 1 /\ UNCHANGED <<status, frameVars>>
    BY <1>3 DEF JmpIf
  <2>. QED
    BY <2>1, <2>2, <2>3 DEF Continues
<1>4. CASE Call
  <2>1. OverCap => Leave
    BY <1>4 DEF Call
  <2>2. ~OverCap => status' = status /\ Enters
    BY <1>4 DEF Call, Enters, Name, Arg, Callee
  <2>. QED
    BY <2>1, <2>2
<1>5. CASE ReturnToHost
  BY <1>5 DEF ReturnToHost
<1>6. CASE ReturnToCaller
  <2>1. Name = "ret" \/ Name = "ret_v"
    BY <1>6 DEF ReturnToCaller, Return
  <2>2. sp' = base + (IF Name = "ret_v" THEN 1 ELSE 0)
    BY <1>6, <2>1 DEF ReturnToCaller
  <2>. QED
    BY <1>6, <2>2 DEF ReturnToCaller, Returns, LeftComponent, Last, Name
<1>. QED
  BY <1>1, <1>2, <1>3, <1>4, <1>5, <1>6 DEF Control

(* The interpreter's registers are numbers, and the typing at pc is there. *)
LEMMA RunningTypes ==
  ASSUME DeviceInv, status = "running"
  PROVE  /\ current \in Functions(container) /\ base \in Nat /\ pc \in Nat
         /\ sp \in Int
         /\ shapes[current][pc] \in Seq(ValueType)
         /\ Len(Takes(container, current, pc, shapes[current][pc])) \in Nat
         /\ StepRefusal(container, current, pc, shapes[current][pc]) = "none"
<1>1. /\ current \in Functions(container) /\ base \in Nat
      /\ pc \in DOMAIN shapes[current]
      /\ sp = base + FrameSize(current, pc)
      /\ verdict = "accepted"
  BY DEF DeviceInv, RunningShape
<1>2. /\ pc \in Nat
      /\ shapes[current][pc] \in Seq(ValueType)
      /\ Len(shapes[current][pc]) \in Nat
      /\ Len(Takes(container, current, pc, shapes[current][pc])) \in Nat
      /\ StepRefusal(container, current, pc, shapes[current][pc]) = "none"
  BY <1>1, TypedInstruction DEF DeviceInv
<1>3. Len(Fn(container, current).local_types) \in Nat
  BY <1>1, FunctionLocals DEF DeviceInv
<1>. QED
  BY <1>1, <1>2, <1>3 DEF FrameSize

LEMMA StepCases ==
  ASSUME DeviceInv, status = "running", Step
  PROVE  \/ Continues
         \/ status' = status /\ (Enters \/ Returns)
         \/ Leave
         \/ status' = "stray"
<1>1. CASE Constants \/ Movement \/ Core32 \/ Core64 \/ Floating \/ Logic
  BY <1>1, RunningTypes, MoveSteps
<1>2. CASE Control
  BY <1>2, RunningTypes, ControlSteps
<1>3. CASE Default
  BY <1>3 DEF Default
<1>4. CASE Stray
  BY <1>4 DEF Stray
<1>. QED
  BY <1>1, <1>2, <1>3, <1>4 DEF Step

(* The loop runs only while an invocation does. *)
LEMMA StepRuns == Step => status = "running"
BY DEF Step, Constants, Movement, Core32, Core64, Floating, Logic, Control, On, Default, Stray,
   ConstImmediate, ConstPool, ConstBool, ConstAbsent, LoadL, StoreL, Drop, Dup, LoadH, StoreH,
   CallH, BinaryI32, DivideI32, NegI32, OrderI32, BitwiseI32, BitNotI32, ShiftI32, BinaryI64,
   DivideI64, NegI64, OrderI64, ExtendI32I64, WrapI64I32, BinaryF32, NegF32, OrderF32,
   ConvertToF32, TruncToI32, TruncToI64, Not, AndOr, Else, IsState, LoopGuard, Jmp, JmpIf,
   Call, ReturnToHost, ReturnToCaller

-----------------------------------------------------------------------------
(* The invariant is kept. *)

LEMMA DeviceInitInv == DeviceInit => DeviceInv
<1>. SUFFICES ASSUME DeviceInit PROVE DeviceInv
  OBVIOUS
<1>1. VerifyInv /\ AcceptedInv
  BY InitInv, AcceptedInit DEF DeviceInit
<1>. QED
  BY <1>1 DEF DeviceInit, VmInit, DeviceInv

(* A verification that has ended does not go on. *)
LEMMA VerifyingPending == ASSUME VerifyInv, VerifyNext PROVE verdict # "accepted"
BY DEF VerifyInv, VerifyTypeOK, VerifyNext, CheckGroups, CodeRegions, BeginWalk, Join, Visit,
   EndWalk, CallGraph, CompareDeclared

(* What no turn of the interpreter touches. *)
LEMMA VerifiedStays ==
  ASSUME DeviceInv, UNCHANGED verifyVars
  PROVE  /\ VerifyInv' /\ AcceptedInv'
         /\ UNCHANGED <<container, shapes, verdict>>
         /\ Loadable' = Loadable
<1>1. VerifyInv' /\ AcceptedInv'
  BY NextInv, AcceptedNext DEF DeviceInv
<1>. QED
  BY <1>1 DEF verifyVars, Loadable

LEMMA InvokeInv ==
  ASSUME DeviceInv, NEW entry \in Functions(container), Invoke(entry), UNCHANGED verifyVars
  PROVE  DeviceInv'
<1>. DEFINE fn == Fn(container, entry)
            count == Len(fn.local_types)
<1>1. /\ VerifyInv' /\ AcceptedInv' /\ Loadable'
      /\ UNCHANGED <<container, shapes, verdict>>
      /\ status = "idle" /\ verdict = "accepted" /\ frames = <<>>
  BY VerifiedStays DEF DeviceInv, Invoke
<1>2. CASE status' = "stray"
  BY <1>1, <1>2 DEF DeviceInv
<1>3. CASE /\ status' = "running" /\ current' = entry /\ base' = 0
           /\ pc' = fn.code_offset /\ sp' = count /\ frames' = frames
  <2>1. entry < index
    BY <1>1, LenProperties
    DEF DeviceInv, AcceptedInv, VerifyInv, VerifyTypeOK, Decoded, DecodedContainer, Functions
  <2>2. Certificate(container, entry, shapes[entry])
    BY <2>1 DEF DeviceInv, VerifyInv, WalkIsSound
  <2>3. fn.code_offset \in DOMAIN shapes[entry] /\ Len(shapes[entry][fn.code_offset]) = 0
    BY <2>2 DEF Certificate, Start
  <2>4. count \in Nat
    BY FunctionLocals DEF DeviceInv
  <2>5. RunningShape'
    <3>1. FrameSize(current, pc)' = count + 0
      BY <1>1, <1>3, <2>3 DEF FrameSize
    <3>. QED
      BY <1>1, <1>3, <2>3, <2>4, <3>1 DEF RunningShape
  <2>6. CallersShape'
    <3>1. frames' = <<>>
      BY <1>1, <1>3
    <3>. QED
      BY <3>1 DEF CallersShape
  <2>. QED
    BY <1>1, <1>3, <2>5, <2>6 DEF DeviceInv
<1>. QED
  BY <1>2, <1>3, <1>1 DEF Invoke, frameVars

LEMMA StepInv ==
  ASSUME DeviceInv, Step, UNCHANGED verifyVars
  PROVE  DeviceInv'
<1>1. /\ VerifyInv' /\ AcceptedInv' /\ Loadable'
      /\ status = "running" /\ verdict' = "accepted"
  BY VerifiedStays, StepRuns DEF DeviceInv
<1>2. CASE Continues
  BY <1>1, <1>2, ContinuesInShape DEF DeviceInv, Continues
<1>3. CASE status' = status /\ Enters
  BY <1>1, <1>3, EntersInShape DEF DeviceInv
<1>4. CASE status' = status /\ Returns
  BY <1>1, <1>4, ReturnsInShape DEF DeviceInv
<1>5. CASE Leave
  BY <1>1, <1>5 DEF Leave, DeviceInv
<1>6. CASE status' = "stray"
  BY <1>1, <1>6 DEF DeviceInv
<1>. QED
  BY <1>1, <1>2, <1>3, <1>4, <1>5, <1>6, StepCases

LEMMA DeviceNextInv ==
  ASSUME DeviceInv, [DeviceNext]_deviceVars
  PROVE  DeviceInv'
<1>1. CASE Verifying
  <2>1. VerifyInv' /\ AcceptedInv'
    BY <1>1, NextInv, AcceptedNext DEF DeviceInv, Verifying
  <2>2. status = "unloaded"
    BY <1>1, VerifyingPending DEF DeviceInv, Verifying
  <2>. QED
    BY <1>1, <2>1, <2>2 DEF Verifying, DeviceInv, vmVars, frameVars
<1>2. CASE Running
  <2>. USE <1>2 DEF Running
  <2>1. CASE Load
    <3>1. /\ VerifyInv' /\ AcceptedInv' /\ Loadable' = Loadable
          /\ verdict' = "accepted"
      BY VerifiedStays DEF verifyVars
    <3>. QED
      BY <2>1, <3>1 DEF Load, DeviceInv
  <2>2. CASE \E entry \in Functions(container) : Invoke(entry)
    BY <2>2, InvokeInv
  <2>3. CASE InvokeUnknown
    <3>1. /\ VerifyInv' /\ AcceptedInv' /\ Loadable' = Loadable
          /\ verdict' = "accepted"
      BY VerifiedStays DEF verifyVars
    <3>. QED
      BY <2>3, <3>1 DEF InvokeUnknown, DeviceInv, frameVars
  <2>4. CASE Step
    BY <2>4, StepInv
  <2>. QED
    BY <2>1, <2>2, <2>3, <2>4 DEF VmNext
<1>3. CASE UNCHANGED deviceVars
  <2>1. /\ VerifyInv' /\ AcceptedInv' /\ Loadable' = Loadable
        /\ UNCHANGED <<container, shapes, verdict, status, frames, current, base, pc, sp>>
    BY <1>3, VerifiedStays DEF deviceVars, vmVars, frameVars, verifyVars
  <2>. QED
    BY <2>1 DEF DeviceInv, RunningShape, CallersShape, Caller, Waits, FrameSize
<1>. QED
  BY <1>1, <1>2, <1>3 DEF DeviceNext

-----------------------------------------------------------------------------
(* What the invariant says of the live frames. *)

(* The frames that are live: the callers, then the running one. *)
LEMMA LiveFrames ==
  ASSUME NEW S, frames \in Seq(S)
  PROVE  /\ Len(frames) \in Nat
         /\ DOMAIN Live = 1..Len(frames) + 1 /\ Len(Live) = Len(frames) + 1
         /\ Live[Len(frames) + 1] = [fn |-> current, base |-> base, pc |-> pc]
         /\ \A n \in 1..Len(frames) :
              Live[n] = [fn |-> frames[n].function, base |-> frames[n].base,
                         pc |-> frames[n].return_pc - 2]
<1>1. Len(frames) \in Nat
  BY LenProperties
<1>2. /\ Live = [n \in 1..Len(frames) + 1 |-> Live[n]]
      /\ Live[Len(frames) + 1] = [fn |-> current, base |-> base, pc |-> pc]
      /\ \A n \in 1..Len(frames) :
           Live[n] = [fn |-> frames[n].function, base |-> frames[n].base,
                      pc |-> frames[n].return_pc - 2]
  BY <1>1 DEF Live
<1>3. Len(Live) = Len(frames) + 1
  <2>. DEFINE N == Len(frames) + 1
              T == {Live[n] : n \in 1..N}
  <2>1. N \in Nat /\ DOMAIN Live = 1..N /\ Live \in [1..N -> T]
    BY <1>1, <1>2
  <2>2. Live \in Seq(T)
    BY <2>1
  <2>. HIDE DEF N
  <2>3. Len(Live) \in Nat /\ 1..Len(Live) = 1..N
    BY <2>1, <2>2, LenProperties
  <2>. QED
    BY <2>1, <2>3 DEF N
<1>. QED
  BY <1>1, <1>2, <1>3

LEMMA ShapeOfFrames == ASSUME DeviceInv PROVE StaysInShape
<1>. SUFFICES ASSUME status = "running", NEW n \in DOMAIN Live
              PROVE  FrameInShape(n)
  BY DEF StaysInShape
<1>. DEFINE N == Len(frames)
<1>1. /\ frames \in Seq(Caller) /\ verdict = "accepted"
      /\ current \in Functions(container) /\ base \in Nat
      /\ pc \in DOMAIN shapes[current] /\ sp = base + FrameSize(current, pc)
  BY DEF DeviceInv, RunningShape, CallersShape
<1>2. /\ N \in Nat /\ DOMAIN Live = 1..N + 1 /\ Len(Live) = N + 1
      /\ Live[N + 1] = [fn |-> current, base |-> base, pc |-> pc]
      /\ \A m \in 1..N : Live[m] = [fn |-> frames[m].function, base |-> frames[m].base,
                                    pc |-> frames[m].return_pc - 2]
  BY <1>1, LiveFrames
<1>. HIDE DEF N
<1>3. CASE n = N + 1
  <2>. DEFINE locals == Fn(container, current).local_types
              stack  == shapes[current][pc]
  <2>1. Live[n].fn = current /\ Live[n].base = base /\ Live[n].pc = pc /\ n = Len(Live)
    BY <1>2, <1>3
  <2>2. TypesOf(n) = locals \o Rest(stack, 0)
    BY <2>1 DEF TypesOf
  <2>3. /\ locals \in Seq(ValueType) /\ stack \in Seq(ValueType)
        /\ Len(locals) \in Nat /\ Len(stack) \in Nat
    BY <1>1, TypedInstruction, FunctionLocals DEF DeviceInv
  <2>4. FrameSize(current, pc) = Len(locals) + Len(stack)
    BY DEF FrameSize
  <2>. HIDE DEF locals, stack
  <2>5. Len(locals \o Rest(stack, 0)) = Len(locals) + Len(stack)
    <3>1. 0 \in 0..Len(stack)
      BY <2>3
    <3>2. Len(locals \o Rest(stack, 0)) = Len(locals) + Len(stack) - 0
      BY <2>3, <3>1, SizeOfTypes
    <3>. QED
      BY <2>3, <3>2
  <2>. QED
    BY <1>1, <2>1, <2>2, <2>4, <2>5 DEF FrameInShape
<1>4. CASE n \in 1..N
  <2>. DEFINE f      == frames[n]
              p      == f.return_pc - 2
              callee == Live[n + 1].fn
              start  == Live[n + 1].base
              locals == Fn(container, f.function).local_types
              stack  == shapes[f.function][p]
              params == Fn(container, callee).param_count
  <2>1. /\ Live[n].fn = f.function /\ Live[n].base = f.base /\ Live[n].pc = p
        /\ n # Len(Live)
        /\ f \in Caller
    <3>1. f \in Caller
      BY <1>1, <1>4, ElementOfSeq DEF N
    <3>2. Live[n] = [fn |-> f.function, base |-> f.base, pc |-> p]
      BY <1>2, <1>4
    <3>3. n # N + 1
      BY <1>2, <1>4
    <3>. HIDE DEF f
    <3>. QED
      BY <1>2, <3>1, <3>2, <3>3
  <2>2. Waits(f, callee, start) /\ callee \in Functions(container)
    <3>1. CASE n = N
      <4>1. callee = current /\ start = base
        BY <1>2, <3>1
      <4>2. frames # <<>>
        BY <1>4, <3>1 DEF N
      <4>. QED
        BY <1>1, <3>1, <4>1, <4>2 DEF DeviceInv, CallersShape, N
    <3>2. CASE n # N
      <4>1. n \in 1..N - 1 /\ n + 1 \in 1..N
        BY <1>2, <1>4, <3>2
      <4>2. callee = frames[n + 1].function /\ start = frames[n + 1].base
        <5>1. Live[n + 1] = [fn |-> frames[n + 1].function, base |-> frames[n + 1].base,
                             pc |-> frames[n + 1].return_pc - 2]
          BY <1>2, <4>1
        <5>. QED
          BY <5>1
      <4>3. frames[n + 1] \in Caller
        BY <1>1, <4>1, ElementOfSeq DEF N
      <4>. QED
        BY <4>1, <4>2, <4>3 DEF DeviceInv, CallersShape, N, Caller
    <3>. QED
      BY <3>1, <3>2
  <2>3. /\ f.function \in Functions(container)
        /\ p \in DOMAIN shapes[f.function]
        /\ NameAt(container, p) = "call" /\ OperandAt(container, p) = callee
        /\ start = f.base + (Len(locals) + Len(stack)) - params
        /\ f.base \in Nat
    BY <2>1, <2>2 DEF Waits, FrameSize, Caller
  <2>4. /\ locals \in Seq(ValueType) /\ stack \in Seq(ValueType)
        /\ Len(locals) \in Nat /\ Len(stack) \in Nat
        /\ params \in 0..Len(stack)
    <3>1. Takes(container, f.function, p, stack) = ParamTypes(Fn(container, callee))
      BY <2>3 DEF Takes, Predicate
    <3>. QED
      BY <1>1, <2>2, <2>3, <3>1, TypedInstruction, FunctionLocals, SMTT(20) DEF DeviceInv
  <2>5. TypesOf(n) = locals \o Rest(stack, params)
    BY <2>1 DEF TypesOf
  <2>. HIDE DEF locals, stack, params, callee, start, f
  <2>6. Len(locals \o Rest(stack, params)) = Len(locals) + Len(stack) - params
    BY <2>4, SizeOfTypes
  <2>7. start = f.base + Len(TypesOf(n))
    BY <2>3, <2>4, <2>5, <2>6
  <2>. QED
    BY <2>1, <2>3, <2>7 DEF FrameInShape, callee, start, f
<1>. QED
  BY <1>2, <1>3, <1>4

(* What the verifier typed the interpreter dispatches, if the container
   declares the second group of the conversions. *)
LEMMA TypedIsDispatched ==
  ASSUME DeviceInv, status = "running", GroupsDeclared
  PROVE  Dispatched
<1>1. /\ current \in Functions(container) /\ pc \in DOMAIN shapes[current]
      /\ container.groups \subseteq Groups
  BY DEF DeviceInv, RunningShape, Loadable
<1>2. /\ Name # "undefined"
      /\ GroupOf(At(container.code, pc)) \in container.groups
  BY RunningTypes DEF StepRefusal, Name
<1>3. AlsoNeeds(Name) \subseteq container.groups
  BY <1>1 DEF GroupsDeclared, Name
<1>. QED
  BY <1>1, <1>2, <1>3 DEF Dispatched

LEMMA FailureHasFault ==
  ASSUME DeviceInv, [DeviceNext]_deviceVars,
         status = "running", status' = "idle", ~returned', GroupsDeclared
  PROVE  fault' # "no_fault"
<1>1. Step
  <2>1. ~Verifying
    BY VerifyingPending DEF DeviceInv, Verifying
  <2>2. status' # status
    OBVIOUS
  <2>3. ~UNCHANGED deviceVars
    BY <2>2 DEF deviceVars, vmVars
  <2>. QED
    BY <2>1, <2>3 DEF DeviceNext, Running, VmNext, Load, Invoke, InvokeUnknown
<1>2. ~Default
  BY TypedIsDispatched DEF Default
<1>3. ~Stray
  BY DEF Stray
<1>4. ASSUME Constants \/ Movement \/ Core32 \/ Core64 \/ Floating \/ Logic
      PROVE  fault' # "no_fault"
  <2>1. Movement \/ status' = status
    BY <1>4 DEF Constants, Core32, Core64, Floating, Logic, Operate, Produce, Advance,
       ConstImmediate, ConstPool, ConstBool, ConstAbsent,
       BinaryI32, DivideI32, NegI32, OrderI32, BitwiseI32, BitNotI32, ShiftI32, BinaryI64,
       DivideI64, NegI64, OrderI64, ExtendI32I64, WrapI64I32, BinaryF32, NegF32, OrderF32,
       ConvertToF32, TruncToI32, TruncToI64, Not, AndOr, Else, IsState
  <2>2. Movement
    BY <2>1
  <2>3. CallH
    BY <2>2 DEF Movement, LoadL, StoreL, Drop, Dup, LoadH, StoreH, Produce, Advance
  <2>. QED
    BY <2>3 DEF CallH, FaultWith, Produce, Advance
<1>5. ASSUME Control
      PROVE  fault' # "no_fault"
  BY <1>5 DEF Control, LoopGuard, Jmp, JmpIf, Call, ReturnToHost, ReturnToCaller, FaultWith, Advance
<1>. QED
  BY <1>1, <1>2, <1>3, <1>4, <1>5 DEF Step

-----------------------------------------------------------------------------
(* The recursion counters. *)

(* The function of the frame at n, and the frames of component k. *)
FunctionOf(n) == IF n <= Len(frames) THEN frames[n].function ELSE current
FramesOf(k) == {n \in 1..Len(frames) + 1 : Fn(container, FunctionOf(n)).component = k}

CountersInv ==
  status = "running" =>
    /\ counters \in [Functions(container) -> Int]
    /\ \A k \in Functions(container) :
         ComponentCap(k) # 0 =>
           /\ counters[k] = Cardinality(FramesOf(k))
           /\ counters[k] <= ComponentCap(k)

LEMMA FramesAreFinite ==
  ASSUME NEW k, Len(frames) \in Nat
  PROVE  IsFiniteSet(FramesOf(k)) /\ Cardinality(FramesOf(k)) \in Nat
<1>1. IsFiniteSet(1..Len(frames) + 1)
  BY FS_Interval
<1>2. FramesOf(k) \in SUBSET (1..Len(frames) + 1)
  BY DEF FramesOf
<1>3. IsFiniteSet(FramesOf(k))
  BY <1>1, <1>2, FS_Subset
<1>. QED
  BY <1>3, FS_CardinalityType

(* A component has members only among the functions, and the last of them
   declares its cap. *)
LEMMA CapIsNatural ==
  ASSUME VerifyInv, NEW k
  PROVE  ComponentCap(k) \in Nat
<1>. DEFINE members == {i \in Functions(container) : Fn(container, i).component = k}
<1>1. CASE members = {}
  BY <1>1 DEF ComponentCap
<1>2. CASE members # {}
  <2>. DEFINE n == Len(container.functions)
              below == {d \in Nat : \E i \in members : d = n - 1 - i}
  <2>1. n \in Nat
    BY LenProperties DEF VerifyInv, VerifyTypeOK, Decoded, DecodedContainer
  <2>2. below \subseteq Nat /\ below # {}
    <3>1. PICK i \in members : TRUE
      BY <1>2
    <3>2. n - 1 - i \in Nat
      BY <2>1 DEF Functions
    <3>. QED
      BY <3>1, <3>2
  <2>3. PICK d \in below : \A e \in below : d <= e
    BY <2>2, LeastNatural
  <2>4. PICK m \in members : d = n - 1 - m
    BY <2>3
  <2>5. \A i \in members : m >= i
    <3>. SUFFICES ASSUME NEW i \in members PROVE m >= i
      OBVIOUS
    <3>1. n - 1 - i \in below
      BY <2>1 DEF Functions
    <3>2. i \in Int /\ m \in Int
      BY <2>1 DEF Functions
    <3>. HIDE DEF n, below
    <3>3. d <= n - 1 - i
      BY <2>3, <3>1
    <3>. QED
      BY <2>1, <2>4, <3>2, <3>3
  <2>6. Max(members) \in members
    <3>. HIDE DEF members
    <3>. QED
      BY <2>4, <2>5 DEF Max
  <2>7. Fn(container, Max(members)).recursion_cap \in Nat
    BY <2>6, FunctionLocals
  <2>. QED
    BY <1>2, <2>7 DEF ComponentCap
<1>. QED
  BY <1>1, <1>2

(* A frame is added at the end. *)
LEMMA EntersCounts ==
  ASSUME DeviceInv, status = "running", CountersInv, Enters, UNCHANGED container
  PROVE  CountersInv'
<1>. DEFINE callee == OperandAt(container, pc)
            own    == Fn(container, callee).component
            N      == Len(frames)
            F      == [return_pc |-> pc + 2, base |-> base, function |-> current]
<1>1. /\ frames \in Seq(Caller) /\ N \in Nat
      /\ counters \in [Functions(container) -> Int]
      /\ current \in Functions(container) /\ pc \in DOMAIN shapes[current]
      /\ verdict = "accepted"
  BY LenProperties DEF DeviceInv, CountersInv, RunningShape, CallersShape
<1>2. own \in Functions(container)
  <2>1. /\ StepRefusal(container, current, pc, shapes[current][pc]) = "none"
        /\ callee \in Byte
    BY <1>1, TypedInstruction DEF DeviceInv, Enters, Indexed
  <2>2. callee \in Functions(container)
    BY <1>1, <2>1, StepPasses, LookupsSucceed DEF DeviceInv, VerifyInv, VerifyTypeOK, Enters
  <2>. QED
    BY <2>2 DEF DeviceInv, Loadable
<1>3. /\ Len(frames') = N + 1
      /\ frames'[N + 1].function = current
      /\ \A n \in 1..N : frames'[n] = frames[n]
      /\ current' = callee
  <2>1. frames' = Append(frames, F) /\ current' = callee
    BY DEF Enters
  <2>2. frames'[N + 1] = F
    BY <1>1, <2>1, AppendProperties
  <2>3. /\ Len(frames') = N + 1
        /\ \A n \in 1..N : frames'[n] = frames[n]
    <3>. HIDE DEF F
    <3>1. F \in {F} /\ frames \in Seq(Caller \cup {F})
      BY <1>1
    <3>. QED
      BY <2>1, <3>1, <1>1, AppendProperties
  <2>. QED
    BY <2>1, <2>2, <2>3
<1>4. ASSUME NEW k
      PROVE  FramesOf(k)' = IF own = k THEN FramesOf(k) \cup {N + 2} ELSE FramesOf(k)
  <2>. PICK M : M = N
    OBVIOUS
  <2>1. ASSUME NEW n \in 1..M + 1
        PROVE  FunctionOf(n)' = FunctionOf(n)
    BY <1>1, <1>3 DEF FunctionOf
  <2>2. FunctionOf(M + 2)' = callee
    BY <1>1, <1>3 DEF FunctionOf
  <2>3. 1..M + 2 = (1..M + 1) \cup {M + 2}
    BY <1>1
  <2>4. FramesOf(k)' = {n \in 1..M + 2 : Fn(container, FunctionOf(n)').component = k}
    BY <1>1, <1>3 DEF FramesOf
  <2>5. FramesOf(k) = {n \in 1..M + 1 : Fn(container, FunctionOf(n)).component = k}
    BY DEF FramesOf
  <2>6. {n \in 1..M + 1 : Fn(container, FunctionOf(n)').component = k} = FramesOf(k)
    BY <2>1, <2>5
  <2>7. FramesOf(k)' = {n \in 1..M + 1 : Fn(container, FunctionOf(n)').component = k}
                         \cup {n \in {M + 2} : Fn(container, FunctionOf(n)').component = k}
    BY <2>3, <2>4
  <2>8. {n \in {M + 2} : Fn(container, FunctionOf(n)').component = k} =
          IF own = k THEN {M + 2} ELSE {}
    BY <2>2
  <2>. QED
    BY <2>6, <2>7, <2>8
<1>5. /\ counters' = [counters EXCEPT ![own] = IF ComponentCap(own) # 0 THEN @ + 1 ELSE @]
      /\ ComponentCap(own) # 0 => ~(counters[own] + 1 > ComponentCap(own))
  BY DEF Enters, OverCap, Callee, Arg
<1>. HIDE DEF own
<1>6. counters' \in [Functions(container) -> Int]
  BY <1>1, <1>2, <1>5
<1>7. ASSUME NEW k \in Functions(container), ComponentCap(k) # 0
      PROVE  counters'[k] = Cardinality(FramesOf(k)') /\ counters'[k] <= ComponentCap(k)
  <2>1. counters[k] = Cardinality(FramesOf(k)) /\ counters[k] <= ComponentCap(k)
    BY <1>7 DEF CountersInv
  <2>2. CASE own = k
    <3>1. counters'[k] = counters[k] + 1
      BY <1>1, <1>2, <1>5, <1>7, <2>2
    <3>2. N + 2 \notin FramesOf(k)
      BY <1>1 DEF FramesOf
    <3>3. Cardinality(FramesOf(k)') = Cardinality(FramesOf(k)) + 1
      BY <1>1, <1>4, <2>2, <3>2, FramesAreFinite, FS_AddElement
    <3>4. ComponentCap(k) \in Nat /\ counters[k] \in Int
      BY <1>1, CapIsNatural DEF DeviceInv
    <3>5. ~(counters[k] + 1 > ComponentCap(k))
      BY <1>5, <1>7, <2>2
    <3>. QED
      BY <2>1, <3>1, <3>3, <3>4, <3>5
  <2>3. CASE own # k
    BY <1>1, <1>4, <1>5, <2>1, <2>3
  <2>. QED
    BY <2>2, <2>3
<1>8. \A k : ComponentCap(k)' = ComponentCap(k)
  BY DEF ComponentCap
<1>. QED
  BY <1>6, <1>7, <1>8 DEF CountersInv

(* The last frame is dropped. *)
LEMMA ReturnsCounts ==
  ASSUME DeviceInv, status = "running", CountersInv, Returns, UNCHANGED container
  PROVE  CountersInv'
<1>. DEFINE own == Fn(container, current).component
            N   == Len(frames)
<1>1. /\ frames \in Seq(Caller) /\ frames # <<>>
      /\ counters \in [Functions(container) -> Int]
      /\ current \in Functions(container)
  BY DEF DeviceInv, CountersInv, RunningShape, CallersShape, Returns
<1>2. own \in Functions(container)
  BY <1>1 DEF DeviceInv, Loadable
<1>3. /\ N \in Nat \ {0}
      /\ Len(frames') = N - 1
      /\ \A n \in 1..N - 1 : frames'[n] = frames[n]
      /\ current' = frames[N].function
  BY <1>1, FrontLast DEF Returns
<1>4. ASSUME NEW k
      PROVE  FramesOf(k)' = IF own = k THEN FramesOf(k) \ {N + 1} ELSE FramesOf(k)
  <2>. PICK M : M = N
    OBVIOUS
  <2>1. ASSUME NEW n \in 1..M
        PROVE  FunctionOf(n)' = FunctionOf(n)
    BY <1>3 DEF FunctionOf
  <2>2. FunctionOf(M + 1) = current
    BY <1>3 DEF FunctionOf
  <2>3. 1..M = (1..M + 1) \ {M + 1}
    BY <1>3
  <2>4. FramesOf(k)' = {n \in 1..M : Fn(container, FunctionOf(n)').component = k}
    BY <1>3 DEF FramesOf
  <2>5. FramesOf(k) = {n \in 1..M + 1 : Fn(container, FunctionOf(n)).component = k}
    BY DEF FramesOf
  <2>6. FramesOf(k)' = {n \in 1..M : Fn(container, FunctionOf(n)).component = k}
    BY <2>1, <2>4
  <2>7. M + 1 \in FramesOf(k) <=> own = k
    BY <1>3, <2>2, <2>5
  <2>8. FramesOf(k)' = FramesOf(k) \ {M + 1}
    BY <2>3, <2>5, <2>6
  <2>. QED
    BY <2>7, <2>8
<1>5. counters' = [counters EXCEPT ![own] = IF ComponentCap(own) # 0 THEN @ - 1 ELSE @]
  BY DEF Returns
<1>6. N + 1 \in FramesOf(own)
  BY <1>3 DEF FramesOf, FunctionOf
<1>. HIDE DEF own
<1>7. counters' \in [Functions(container) -> Int]
  BY <1>1, <1>2, <1>5
<1>8. ASSUME NEW k \in Functions(container), ComponentCap(k) # 0
      PROVE  counters'[k] = Cardinality(FramesOf(k)') /\ counters'[k] <= ComponentCap(k)
  <2>1. counters[k] = Cardinality(FramesOf(k)) /\ counters[k] <= ComponentCap(k)
    BY <1>8 DEF CountersInv
  <2>2. CASE own = k
    <3>1. counters'[k] = counters[k] - 1
      BY <1>1, <1>2, <1>5, <1>8, <2>2
    <3>2. Cardinality(FramesOf(k)') = Cardinality(FramesOf(k)) - 1
      BY <1>3, <1>4, <1>6, <2>2, FramesAreFinite, FS_RemoveElement
    <3>3. ComponentCap(k) \in Nat /\ counters[k] \in Int
      BY <1>1, CapIsNatural DEF DeviceInv
    <3>. QED
      BY <2>1, <3>1, <3>2, <3>3
  <2>3. CASE own # k
    BY <1>1, <1>4, <1>5, <2>1, <2>3
  <2>. QED
    BY <2>2, <2>3
<1>9. \A k : ComponentCap(k)' = ComponentCap(k)
  BY DEF ComponentCap
<1>. QED
  BY <1>7, <1>8, <1>9 DEF CountersInv

(* An invocation starts with one frame. *)
LEMMA InvokeCounts ==
  ASSUME DeviceInv, NEW entry \in Functions(container), Invoke(entry), UNCHANGED container
  PROVE  CountersInv'
<1>. SUFFICES ASSUME status' = "running"
              PROVE  /\ counters' \in [Functions(container) -> Int]
                     /\ \A k \in Functions(container) :
                          ComponentCap(k) # 0 =>
                            /\ counters'[k] = Cardinality(FramesOf(k)')
                            /\ counters'[k] <= ComponentCap(k)
  BY DEF CountersInv, ComponentCap
<1>. DEFINE own == Fn(container, entry).component
<1>1. /\ counters' = [k \in Functions(container) |->
                        IF k = own /\ ComponentCap(k) # 0 THEN 1 ELSE 0]
      /\ current' = entry
      /\ frames' = <<>>
  BY DEF Invoke, DeviceInv
<1>2. ASSUME NEW k \in Functions(container), ComponentCap(k) # 0
      PROVE  counters'[k] = Cardinality(FramesOf(k)') /\ counters'[k] <= ComponentCap(k)
  <2>1. FramesOf(k)' = {n \in 1..1 : own = k}
    BY <1>1 DEF FramesOf, FunctionOf
  <2>2. Cardinality(FramesOf(k)') = IF own = k THEN 1 ELSE 0
    <3>1. FramesOf(k)' = IF own = k THEN {1} ELSE {}
      BY <2>1
    <3>. QED
      BY <3>1, FS_EmptySet, FS_Singleton
  <2>3. ComponentCap(k) \in Nat
    BY CapIsNatural DEF DeviceInv
  <2>. QED
    BY <1>1, <1>2, <2>2, <2>3
<1>. QED
  BY <1>1, <1>2

LEMMA CountersNext ==
  ASSUME DeviceInv, CountersInv, [DeviceNext]_deviceVars
  PROVE  CountersInv'
<1>1. CASE \/ status' # "running"
           \/ UNCHANGED <<container, status, current, frames, counters>>
  BY <1>1, SMTT(20) DEF CountersInv, FramesOf, FunctionOf, ComponentCap
<1>2. CASE Verifying
  BY <1>2, <1>1, VerifyingPending DEF Verifying, DeviceInv, vmVars
<1>3. CASE Running
  <2>. USE <1>3 DEF Running
  <2>1. container' = container
    BY DEF verifyVars
  <2>2. CASE Load
    BY <2>2, <1>1 DEF Load
  <2>3. CASE \E entry \in Functions(container) : Invoke(entry)
    BY <2>1, <2>3, InvokeCounts
  <2>4. CASE InvokeUnknown
    BY <2>1, <2>4, <1>1 DEF InvokeUnknown, frameVars
  <2>5. CASE Step
    <3>1. CASE Continues
      BY <1>1, <2>1, <3>1 DEF Continues, frameVars
    <3>2. CASE Leave \/ status' = "stray"
      BY <1>1, <3>2 DEF Leave
    <3>. QED
      BY <2>1, <2>5, <3>1, <3>2, StepRuns, StepCases, EntersCounts, ReturnsCounts
  <2>. QED
    BY <2>2, <2>3, <2>4, <2>5 DEF VmNext
<1>4. CASE UNCHANGED deviceVars
  BY <1>1, <1>4 DEF deviceVars, vmVars, verifyVars, frameVars
<1>. QED
  BY <1>2, <1>3, <1>4 DEF DeviceNext

LEMMA CountersOfLive ==
  ASSUME DeviceInv, CountersInv
  PROVE  CountersMatchFrames
<1>. SUFFICES ASSUME status = "running", NEW k \in Functions(container)
              PROVE  {n \in DOMAIN Live : Fn(container, Live[n].fn).component = k} = FramesOf(k)
  BY DEF CountersInv, CountersMatchFrames
<1>1. /\ Len(frames) \in Nat
      /\ DOMAIN Live = 1..Len(frames) + 1
      /\ Live[Len(frames) + 1] = [fn |-> current, base |-> base, pc |-> pc]
      /\ \A n \in 1..Len(frames) :
              Live[n] = [fn |-> frames[n].function, base |-> frames[n].base,
                         pc |-> frames[n].return_pc - 2]
  BY LiveFrames DEF DeviceInv, CallersShape
<1>2. ASSUME NEW n \in 1..Len(frames) + 1
      PROVE  Live[n].fn = FunctionOf(n)
  <2>1. CASE n = Len(frames) + 1
    BY <1>1, <2>1 DEF FunctionOf
  <2>2. CASE n # Len(frames) + 1
    <3>1. n \in 1..Len(frames) /\ FunctionOf(n) = frames[n].function
      BY <1>1, <2>2 DEF FunctionOf
    <3>2. Live[n] = [fn |-> frames[n].function, base |-> frames[n].base,
                     pc |-> frames[n].return_pc - 2]
      BY <1>1, <3>1
    <3>. QED
      BY <3>1, <3>2
  <2>. QED
    BY <2>1, <2>2
<1>. QED
  BY <1>1, <1>2 DEF FramesOf

-----------------------------------------------------------------------------
LEMMA DeviceInvariant == DeviceSpec => [](DeviceInv /\ CountersInv)
<1>1. DeviceInit => DeviceInv /\ CountersInv
  BY DeviceInitInv DEF DeviceInit, VmInit, CountersInv
<1>2. DeviceInv /\ CountersInv /\ [DeviceNext]_deviceVars => DeviceInv' /\ CountersInv'
  BY DeviceNextInv, CountersNext
<1>. QED
  BY <1>1, <1>2, PTL DEF DeviceSpec

(* On every build and with any host, the interpreter running an accepted
   container never leaves what verify.py typed: each frame on the call
   stack is at an instruction of the typing, and as large as it. *)
THEOREM ControlStaysInShape == DeviceSpec => []StaysInShape
<1>1. DeviceInv => StaysInShape
  BY ShapeOfFrames
<1>. QED
  BY <1>1, DeviceInvariant, PTL

(* recursion[] of vm.c counts the live frames of each component and never
   passes the cap, however the members of a component call each other. *)
THEOREM CountersAreFrames == DeviceSpec => []CountersMatchFrames
<1>1. DeviceInv /\ CountersInv => CountersMatchFrames
  BY CountersOfLive
<1>. QED
  BY <1>1, DeviceInvariant, PTL

(* mcuscript_invoke does not fail without saying why: the last case of the
   switch, which sets no fault, is unreachable for accepted code whose
   container declares the groups its conversions need. *)
THEOREM FailuresHaveFaults == DeviceSpec => FalseMeansFault
<1>. DEFINE Says == status = "running" /\ status' = "idle" /\ ~returned' =>
                      fault' # "no_fault" \/ ~GroupsDeclared
<1>1. DeviceInv /\ [DeviceNext]_deviceVars => [Says]_deviceVars
  BY FailureHasFault
<1>. QED
  BY <1>1, DeviceInvariant, PTL DEF DeviceSpec, FalseMeansFault
=============================================================================
