------------------------------- MODULE Verify -------------------------------
(***************************************************************************)
(* The verifier (tools/src/mcuscript/verify.py).                           *)
(*                                                                         *)
(* verify() runs as a sequence of stages: the group check, the tiling of   *)
(* CODE, one abstract interpretation of each function in table order (the  *)
(* worklist of _walk, one action per turn of its loop, then the coverage   *)
(* and termination checks that close it), the call graph, and the          *)
(* comparison with the numbers the container declares.  The first refusal  *)
(* ends it.                                                                *)
(***************************************************************************)
EXTENDS Container

CONSTANT Implemented   (* the instruction groups of the build verified for *)

ASSUME ImplementedAssumption == Implemented \in SUBSET Group

VARIABLES
  stage,    (* where verify() is                                            *)
  verdict,  (* "pending", "accepted", or the name of the refusal            *)
  index,    (* the function being walked                                    *)
  work,     (* the worklist, last in first out: <<pc, type stack>>          *)
  at,       (* the type stack entering each instruction visited so far      *)
  shapes,   (* the finished `at` of each function already walked            *)
  stacks    (* high_water of each function, 0 before it is walked           *)

verifyVars == <<container, stage, verdict, index, work, at, shapes, stacks>>

-----------------------------------------------------------------------------
(* Table lookups an instruction may fail (_local, _import, _function,
   _pool, _state_type). *)
InLocals(c, i, k)    == k < Len(Fn(c, i).local_types)
InImports(c, k)      == k < Len(c.imports)
InFunctions(c, k)    == k < Len(c.functions)

Top(stack, n) == SubSeq(stack, Len(stack) - n + 1, Len(stack))
Rest(stack, n) == SubSeq(stack, 1, Len(stack) - n)

(* The access the instruction needs to an entity. *)
GrantedEither(name, imp) == imp.readable \/ imp.writable
Granted(name, imp) == IF name = "load.h" THEN imp.readable ELSE imp.writable

(* The refusal a table lookup of the instruction at pc of function i ends
   in, before the stack is looked at.  Of the pool instructions only
   const.i32 is looked up. *)
LookupRefusal(c, i, pc) ==
  LET name == NameAt(c, pc)
      k    == OperandAt(c, pc)
  IN  CASE name \in {"load.l", "store.l"} ->
             IF InLocals(c, i, k) THEN "none" ELSE "index_out_of_range"
        [] name = "loop.guard" ->
             IF ~InLocals(c, i, k) THEN "index_out_of_range"
             ELSE IF At(Fn(c, i).local_types, k) # I32 THEN "type_mismatch"
             ELSE "none"
        [] name \in {"load.h", "store.h"} ->
             IF ~InImports(c, k) THEN "index_out_of_range"
             ELSE IF At(c.imports, k).kind # "entity" THEN "kind_mismatch"
             ELSE IF ~Granted(name, At(c.imports, k)) THEN "access_denied"
             ELSE "none"
        [] name = "call.h"  ->
             IF ~InImports(c, k) THEN "index_out_of_range"
             ELSE IF At(c.imports, k).kind # "function" THEN "kind_mismatch"
             ELSE "none"
        [] name = "call" ->
             IF InFunctions(c, k) THEN "none" ELSE "index_out_of_range"
        [] name = "const.i32" ->
             IF ~(k < Len(c.constants)) THEN "index_out_of_range"
             ELSE IF At(c.constants, k).type # I32 THEN "type_mismatch"
             ELSE "none"
        [] name \in ConstState ->
             IF k \in ValueType THEN "none" ELSE "type_mismatch"
        [] OTHER -> "none"

(* The types an instruction takes off the stack, deepest first; where any
   type will do, the ones it finds there. *)
Takes(c, i, pc, stack) ==
  LET name == NameAt(c, pc)
      k    == OperandAt(c, pc)
  IN  CASE name = "store.l" -> <<At(Fn(c, i).local_types, k)>>
        [] name = "store.h" -> <<At(c.imports, k).type>>
        [] name = "call.h"  -> At(c.imports, k).param_types
        [] name = "call"    -> ParamTypes(Fn(c, k))
        [] name = "ret_v"   -> <<Fn(c, i).return_type>>
        [] name \in {"drop", "dup"} \cup Predicate ->
             IF stack = <<>> THEN <<VOID>> ELSE Top(stack, 1)
        [] name = "else" ->
             IF stack = <<>> THEN <<VOID, VOID>>
             ELSE <<Last(stack), Last(stack)>>
        [] OTHER -> Pops(name)

(* The types it leaves there. *)
Gives(c, i, pc, stack) ==
  LET name == NameAt(c, pc)
      k    == OperandAt(c, pc)
      value(type) == IF type = VOID THEN <<>> ELSE <<type>>
  IN  CASE name = "load.l" -> <<At(Fn(c, i).local_types, k)>>
        [] name = "load.h" -> <<At(c.imports, k).type>>
        [] name = "call.h" -> value(At(c.imports, k).type)
        [] name = "call"   -> value(Fn(c, k).return_type)
        [] name = "dup"    -> <<Last(stack), Last(stack)>>
        [] name = "else"   -> <<Last(stack)>>
        [] name \in Predicate  -> <<BOOL>>
        [] name \in ConstState -> <<k>>
        [] OTHER -> Pushes(name)

(* The type stack after the instruction at pc (_apply). *)
Effect(c, i, pc, stack) ==
  Rest(stack, Len(Takes(c, i, pc, stack))) \o Gives(c, i, pc, stack)

(* The refusal _apply ends in, or "none". *)
ApplyRefusal(c, i, pc, stack) ==
  LET name  == NameAt(c, pc)
      takes == Takes(c, i, pc, stack)
      type  == Fn(c, i).return_type
  IN  IF LookupRefusal(c, i, pc) # "none" THEN LookupRefusal(c, i, pc)
      ELSE IF \/ name = "ret" /\ (type # VOID \/ stack # <<>>)
              \/ name = "ret_v" /\ type = VOID THEN "unbalanced_return"
      ELSE IF Len(stack) < Len(takes) THEN "stack_underflow"
      ELSE IF Top(stack, Len(takes)) # takes THEN "type_mismatch"
      ELSE IF name = "ret_v" /\ Len(stack) > 1 THEN "unbalanced_return"
      ELSE "none"

(* Where control goes from the instruction at pc. *)
Successors(c, pc) ==
  LET name == NameAt(c, pc)
  IN  (IF name \in Branch THEN {Target(c, pc)} ELSE {})
        \cup (IF name \in Return \cup {"jmp"} THEN {} ELSE {After(c, pc)})

(* Control stays in the function. *)
LandsOrEnds(c, i, pc) == Successors(c, pc) \subseteq Start(c, i)..End(c, i)
Lands(c, i, pc) == Successors(c, pc) \subseteq Region(c, i)

(* The refusal one turn of the walk ends in at a pc not seen before. *)
StepRefusal(c, i, pc, stack) ==
  LET name == NameAt(c, pc)
  IN  IF name = "undefined" THEN "undefined_opcode"
      ELSE IF GroupOf(At(c.code, pc)) \notin c.groups THEN "undefined_opcode"
      ELSE IF After(c, pc) > End(c, i) THEN "truncated_instruction"
      ELSE IF ApplyRefusal(c, i, pc, stack) # "none"
           THEN ApplyRefusal(c, i, pc, stack)
      ELSE IF Lands(c, i, pc) THEN "none"
      ELSE "bad_branch_target"

-----------------------------------------------------------------------------
(* The checks that close the walk of function i. *)
CoverageOfGaps(c, i, shape) ==
  LET covered == UNION {p..After(c, p) - 1 : p \in DOMAIN shape}
  IN  IF Region(c, i) \subseteq covered THEN "none" ELSE "unreachable_code"

CoverageRefusal(c, i, shape) ==
  LET covering(b) == {p \in DOMAIN shape : b \in p..After(c, p) - 1}
      wrong == {b \in Region(c, i) : Cardinality(covering(b)) # 1}
  IN  IF wrong = {} THEN "none"
      ELSE IF covering(Min(wrong)) = {} THEN "unreachable_code"
      ELSE "bad_branch_target"

FlowEdges(c, shape) ==
  UNION {{<<p, s>> : s \in Successors(c, p)} : p \in DOMAIN shape}

EdgesStrictlyBack(c, shape) == {e \in FlowEdges(c, shape) : e[2] < e[1]}
BackEdges(c, shape) == {e \in FlowEdges(c, shape) : e[2] <= e[1]}

LoopEnds(c, shape, branch, header) == {header, branch}

(* The header, and every node that reaches the branch without going through
   the header. *)
NaturalLoop(c, shape, branch, header) ==
  LET grow[S \in SUBSET DOMAIN shape] ==
        S \cup {p \in DOMAIN shape : Successors(c, p) \cap (S \ {header}) # {}}
      body[n \in Nat] == IF n = 0 THEN {header, branch} ELSE grow[body[n - 1]]
  IN  body[Cardinality(DOMAIN shape)]

(* The refusals of _check_termination; the order of the back edges settles
   which is reported. *)
LoopRefusals(c, shape) ==
  LET unguarded(e) == NameAt(c, e[2]) # "loop.guard"
      written(e) ==
        \E p \in NaturalLoop(c, shape, e[1], e[2]) :
          /\ NameAt(c, p) = "store.l"
          /\ OperandAt(c, p) = OperandAt(c, e[2])
      back == BackEdges(c, shape)
  IN  {"unguarded_loop" : e \in {b \in back : unguarded(b)}}
        \cup {"loop_counter_written" :
                e \in {b \in back : ~unguarded(b) /\ written(b)}}

-----------------------------------------------------------------------------
(* The call graph. *)

(* The instruction boundaries of function i by decoding straight through its
   code, as _call_graph does. *)
Sweep(c, i) ==
  LET from[p \in Nat] == IF p >= End(c, i) THEN {} ELSE {p} \cup from[After(c, p)]
  IN  from[Start(c, i)]

Callees(c, i) ==
  {OperandAt(c, p) : p \in {q \in Sweep(c, i) : NameAt(c, q) = "call"}}

(* The graph: the callees of each function. *)
Calls(c) == [i \in Functions(c) |-> Callees(c, i)]

(* Function i and the functions that can be entered while it is live. *)
Reached(graph, i) ==
  LET grow[S \in SUBSET DOMAIN graph] == S \cup UNION {graph[k] : k \in S}
      within[n \in Nat] == IF n = 0 THEN {i} ELSE grow[within[n - 1]]
  IN  within[Cardinality(DOMAIN graph)]

(* The strongly connected component of i; module Tarjan is how the code
   finds it. *)
Component(graph, i) == {j \in Reached(graph, i) : i \in Reached(graph, j)}

Cyclic(graph, i) == Cardinality(Component(graph, i)) > 1 \/ i \in graph[i]

CapRefusals(c, graph) ==
  LET declared(i) == {Fn(c, j).recursion_cap : j \in Component(graph, i)}
      sound(i) == IF Cyclic(graph, i)
                  THEN declared(i) # {0} /\ Cardinality(declared(i)) = 1
                  ELSE declared(i) = {0}
  IN  {IF Cyclic(graph, i) THEN "uncapped_recursion" ELSE "recursion_cap_mismatch" :
         i \in {j \in Functions(c) : ~sound(j)}}

Unreached(c, graph) ==
  Functions(c) \ UNION {Reached(graph, i) : i \in {j \in Functions(c) : Fn(c, j).invocable}}

GraphRefusals(c) ==
  LET graph == Calls(c)
  IN  IF Unreached(c, graph) # {} THEN {"unreachable_code"} ELSE CapRefusals(c, graph)

OwnCost(graph, cost) == cost

(* The most that invoking i can have live at once: what its component costs,
   and the worst of the components it calls into. *)
WorstCase(graph, cost) ==
  LET worst[i \in DOMAIN graph] ==
        LET component == Component(graph, i)
            beyond == (UNION {graph[k] : k \in component}) \ component
        IN  cost[i] + Max({0} \cup {worst[j] : j \in beyond})
  IN  worst

OneFrame(c, i) == 1

(* Frames of i's component on the call stack at once: its cap if it has one. *)
FramesLive(c, i) == IF Fn(c, i).recursion_cap # 0 THEN Fn(c, i).recursion_cap ELSE 1

CallDepthNeeded(c) ==
  WorstCase(Calls(c), [i \in Functions(c) |-> FramesLive(c, i)])

SlotsNeeded(c, high) ==
  LET graph == Calls(c)
      frame(i) == Len(Fn(c, i).local_types) + high[i]
      widest(i) == Max({frame(j) : j \in Component(graph, i)})
  IN  WorstCase(graph, [i \in Functions(c) |-> FramesLive(c, i) * widest(i)])

(* verify: the declared numbers, function by function. *)
DeclaredRefusal(c, high) ==
  LET graph == Calls(c)
      depth == CallDepthNeeded(c)
      refusal(i) ==
        IF Fn(c, i).max_stack # high[i] THEN "stack_depth_mismatch"
        ELSE IF Fn(c, i).max_call_depth # depth[i] - 1
             THEN "call_depth_mismatch"
        ELSE IF Fn(c, i).component # Min(Component(graph, i))
             THEN "malformed_section"
        ELSE "none"
      wrong == {i \in Functions(c) : refusal(i) # "none"}
  IN  IF wrong = {} THEN "none" ELSE refusal(Min(wrong))

-----------------------------------------------------------------------------
(* _code_regions: the records tile CODE in order. *)
RegionsTile(c) ==
  IF Functions(c) = {} THEN c.code = <<>>
  ELSE /\ Start(c, 0) = 0
       /\ \A i \in Functions(c) : Start(c, i) < End(c, i)

Refuse(refusal) ==
  /\ verdict' = refusal
  /\ stage' = "done"
  /\ UNCHANGED <<container, index, work, at, shapes, stacks>>

(* container.check_groups *)
CheckGroups ==
  /\ stage = "groups"
  /\ IF container.groups \subseteq Implemented
     THEN /\ stage' = "regions"
          /\ UNCHANGED <<container, verdict, index, work, at, shapes, stacks>>
     ELSE Refuse("unsupported_group")

CodeRegions ==
  /\ stage = "regions"
  /\ IF RegionsTile(container)
     THEN /\ stage' = "begin"
          /\ UNCHANGED <<container, verdict, index, work, at, shapes, stacks>>
     ELSE Refuse("malformed_section")

(* Enter _walk for the next function, or the call graph after the last. *)
BeginWalk ==
  /\ stage = "begin"
  /\ index \in Functions(container)
  /\ stage' = "walk"
  /\ work' = <<<<Start(container, index), <<>>>>>>
  /\ at' = [p \in {} |-> <<>>]
  /\ UNCHANGED <<container, verdict, index, shapes, stacks>>

JoinUnpopped ==
  /\ stage = "walk" /\ work # <<>> /\ Last(work)[1] \in DOMAIN at
  /\ UNCHANGED verifyVars

JoinAnyway ==
  /\ stage = "walk" /\ work # <<>> /\ Last(work)[1] \in DOMAIN at
  /\ work' = Front(work)
  /\ UNCHANGED <<container, stage, verdict, index, at, shapes, stacks>>

(* A worklist entry already visited: the stacks have to agree. *)
Join ==
  /\ stage = "walk"
  /\ work # <<>>
  /\ LET pc    == Last(work)[1]
         stack == Last(work)[2]
     IN  /\ pc \in DOMAIN at
         /\ IF at[pc] = stack
            THEN /\ work' = Front(work)
                 /\ UNCHANGED <<container, stage, verdict, index, at, shapes, stacks>>
            ELSE Refuse("inconsistent_join")

FollowTaken(c, pc, stack) ==
  IF NameAt(c, pc) \in Branch THEN <<<<Target(c, pc), stack>>>>
  ELSE IF NameAt(c, pc) \in Return THEN <<>>
  ELSE <<<<After(c, pc), stack>>>>

(* The turn after pushing a branch target carries straight on at the
   instruction after it, so that one is the last in. *)
Follow(c, pc, stack) ==
  LET name == NameAt(c, pc)
  IN  (IF name \in Branch THEN <<<<Target(c, pc), stack>>>> ELSE <<>>)
        \o (IF name \in Return \cup {"jmp"} THEN <<>>
            ELSE <<<<After(c, pc), stack>>>>)

(* A worklist entry not visited before. *)
Visit ==
  /\ stage = "walk"
  /\ work # <<>>
  /\ LET pc      == Last(work)[1]
         stack   == Last(work)[2]
         refusal == StepRefusal(container, index, pc, stack)
         result  == Effect(container, index, pc, stack)
     IN  /\ pc \notin DOMAIN at
         /\ IF refusal # "none" THEN Refuse(refusal)
            ELSE /\ at' = [p \in DOMAIN at \cup {pc} |->
                             IF p = pc THEN stack ELSE at[p]]
                 /\ work' = Front(work) \o Follow(container, pc, result)
                 /\ stacks' = [stacks EXCEPT
                                 ![index] = Max({@, Len(stack), Len(result)})]
                 /\ UNCHANGED <<container, stage, verdict, index, shapes>>

(* The worklist is empty: coverage, then termination. *)
EndWalk ==
  /\ stage = "walk"
  /\ work = <<>>
  /\ LET coverage == CoverageRefusal(container, index, at)
         loops    == LoopRefusals(container, at)
     IN  \/ coverage # "none" /\ Refuse(coverage)
         \/ coverage = "none" /\ \E r \in loops : Refuse(r)
         \/ /\ coverage = "none" /\ loops = {}
            /\ shapes' = [shapes EXCEPT ![index] = at]
            /\ index' = index + 1
            /\ stage' = "begin"
            /\ UNCHANGED <<container, verdict, work, at, stacks>>

(* _call_graph and the comparisons of verify, after the last walk. *)
CallGraph ==
  /\ stage = "begin"
  /\ index \notin Functions(container)
  /\ \/ \E r \in GraphRefusals(container) : Refuse(r)
     \/ /\ GraphRefusals(container) = {}
        /\ stage' = "declared"
        /\ UNCHANGED <<container, verdict, index, work, at, shapes, stacks>>

CompareDeclared ==
  /\ stage = "declared"
  /\ LET refusal == DeclaredRefusal(container, stacks)
     IN  IF refusal # "none" THEN Refuse(refusal)
         ELSE /\ verdict' = "accepted"
              /\ stage' = "done"
              /\ UNCHANGED <<container, index, work, at, shapes, stacks>>

-----------------------------------------------------------------------------
VerifyInit ==
  /\ container \in Containers
  /\ stage = "groups"
  /\ verdict = "pending"
  /\ index = 0
  /\ work = <<>>
  /\ at = [p \in {} |-> <<>>]
  /\ shapes = [i \in Functions(container) |-> [p \in {} |-> <<>>]]
  /\ stacks = [i \in Functions(container) |-> 0]

VerifyNext ==
  \/ CheckGroups \/ CodeRegions \/ BeginWalk \/ Join \/ Visit \/ EndWalk
  \/ CallGraph \/ CompareDeclared

(* verify() is one call: it runs until it returns. *)
VerifySpec == VerifyInit /\ [][VerifyNext]_verifyVars /\ WF_verifyVars(VerifyNext)

-----------------------------------------------------------------------------
(* Properties. *)

(* The type invariant: every type stack the walk carries holds value types,
   each worklist entry and each visited pc lies in the code of the function
   being walked, and a verdict is out exactly when verify has returned. *)
VerifyTypeOK ==
  /\ Decoded(container)
  /\ stage \in {"groups", "regions", "begin", "walk", "declared", "done"}
  /\ (verdict = "pending") <=> (stage # "done")
  /\ index \in 0..Len(container.functions)
  /\ stage = "walk" =>
       /\ index \in Functions(container)
       /\ work \in Seq(Region(container, index) \X Seq(ValueType))
       /\ DOMAIN at \subseteq Region(container, index)
       /\ \A p \in DOMAIN at : at[p] \in Seq(ValueType)
  /\ DOMAIN shapes = Functions(container)
  /\ stacks \in [Functions(container) -> Nat]

(* What a typing of one function's code has to be for the interpreter to run
   it without a check: it starts empty, every instruction in it is one the
   container may use and takes what the stack holds, and wherever control
   goes next the typing has exactly the stack the instruction leaves. *)
Closed(c, i, shape) ==
  \A p \in DOMAIN shape :
    /\ p \in Region(c, i)
    /\ StepRefusal(c, i, p, shape[p]) = "none"
    /\ \A s \in Successors(c, p) :
         s \in DOMAIN shape /\ shape[s] = Effect(c, i, p, shape[p])

Certificate(c, i, shape) ==
  /\ Start(c, i) \in DOMAIN shape
  /\ shape[Start(c, i)] = <<>>
  /\ Closed(c, i, shape)

(* The walk is sound: whatever order its worklist ran in and however often
   paths met, a function it has finished has a typing closed under every
   instruction of it, and no stack in it is deeper than high_water. *)
WalkIsSound ==
  \A i \in Functions(container) :
    i < index =>
      /\ Certificate(container, i, shapes[i])
      /\ \A p \in DOMAIN shapes[i] :
           /\ Len(shapes[i][p]) <= stacks[i]
           /\ Len(Effect(container, i, p, shapes[i][p])) <= stacks[i]

(* pc has been typed with this stack, or is still to be. *)
Owed(pc, stack) ==
  \/ pc \in DOMAIN at /\ at[pc] = stack
  \/ \E n \in 1..Len(work) : work[n] = <<pc, stack>>

(* Nothing the walk owes is lost: while a function is walked, its first
   instruction and every successor of an instruction already typed either
   carry exactly the stack that reaches them or wait on the worklist with it,
   so refusing nothing until the worklist is empty leaves a closed typing. *)
WalkOwes ==
  /\ stage \in {"begin", "walk"} => RegionsTile(container)
  /\ stage = "walk" =>
       /\ Owed(Start(container, index), <<>>)
       /\ \A p \in DOMAIN at :
            /\ StepRefusal(container, index, p, at[p]) = "none"
            /\ Len(at[p]) <= stacks[index]
            /\ Len(Effect(container, index, p, at[p])) <= stacks[index]
            /\ \A s \in Successors(container, p) :
                 Owed(s, Effect(container, index, p, at[p]))

(* One reading of the code: the instructions of a well-typed container that
   the walk reached are those that decoding it straight through finds, which
   is how the call graph and the code generators read it. *)
OneReading ==
  stage = "declared" =>
    \A i \in Functions(container) : DOMAIN shapes[i] = Sweep(container, i)

(* Control can go round among the nodes of S. *)
StronglyConnected(c, S) ==
  /\ S # {}
  /\ \A T \in (SUBSET S) \ {{}} :
       \E p \in T : \E s \in Successors(c, p) : s \in S /\ (T # S => s \notin T)

(* Every way of going round in an accepted function passes a loop.guard whose
   counter nothing on the way stores to.  The verifier only looks at the
   natural loop of each single back edge; this is about any set of nodes an
   endless execution could be confined to. *)
CyclesAreGuarded ==
  stage = "declared" =>
    \A i \in Functions(container) :
      \A S \in SUBSET DOMAIN shapes[i] :
        StronglyConnected(container, S) =>
          \E g \in S :
            /\ NameAt(container, g) = "loop.guard"
            /\ \A p \in S : NameAt(container, p) = "store.l" =>
                 OperandAt(container, p) # OperandAt(container, g)

(* verify always returns. *)
VerifierReturns == <>(stage = "done")
=============================================================================
