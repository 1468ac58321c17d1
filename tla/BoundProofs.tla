----------------------------- MODULE BoundProofs -----------------------------
(***************************************************************************)
(* What the numbers in a record promise, for every accepted container,     *)
(* every build and every host: an invocation stays within the depth and    *)
(* the slots verify.py computed for its entry point, and the interpreter   *)
(* never touches memory that is not its own on a device large enough.      *)
(***************************************************************************)
EXTENDS ValueProofs

-----------------------------------------------------------------------------
(* What the checks after a walk leave behind. *)
ChecksInv ==
  /\ \A i \in Functions(container) :
       i < index => CoverageRefusal(container, i, shapes[i]) = "none"
  /\ stage = "declared" \/ verdict = "accepted" => GraphRefusals(container) = {}
  /\ verdict = "accepted" => DeclaredRefusal(container, stacks) = "none"

LEMMA ChecksInit == VerifyInit => ChecksInv
<1>. SUFFICES ASSUME VerifyInit PROVE ChecksInv
  OBVIOUS
<1>1. Decoded(container)
  BY ContainersAssumption DEF VerifyInit
<1>2. \A i \in Functions(container) : ~(i < index)
  BY DEF VerifyInit, Functions
<1>. QED
  BY <1>2 DEF VerifyInit, ChecksInv

LEMMA ChecksRefuse ==
  ASSUME ChecksInv, NEW r, r # "accepted", Refuse(r)
  PROVE  ChecksInv'
BY DEF ChecksInv, Refuse

LEMMA ChecksNext ==
  ASSUME VerifyInv, ChecksInv, [VerifyNext]_verifyVars
  PROVE  ChecksInv'
<1>. USE DEF VerifyInv
<1>0. stage # "done" => verdict # "accepted"
  BY DEF VerifyTypeOK
<1>1. CASE \E r : r # "accepted" /\ Refuse(r)
  BY <1>1, ChecksRefuse
<1>2. CASE /\ stage' # "declared" /\ verdict' # "accepted"
           /\ UNCHANGED <<container, index, shapes>>
  BY <1>2 DEF ChecksInv
<1>3. CASE CheckGroups
  BY <1>0, <1>1, <1>2, <1>3 DEF CheckGroups
<1>4. CASE CodeRegions
  BY <1>0, <1>1, <1>2, <1>4 DEF CodeRegions
<1>5. CASE BeginWalk
  BY <1>0, <1>2, <1>5 DEF BeginWalk
<1>6. CASE Join
  BY <1>0, <1>1, <1>2, <1>6 DEF Join
<1>7. CASE Visit
  <2>. DEFINE refusal == StepRefusal(container, index, Last(work)[1], Last(work)[2])
  <2>1. refusal # "accepted"
    BY RefusalNames
  <2>2. \/ Refuse(refusal)
        \/ UNCHANGED <<container, stage, verdict, index, shapes>>
    BY <1>7 DEF Visit
  <2>. QED
    BY <1>0, <1>1, <1>2, <1>7, <2>1, <2>2 DEF Visit
<1>8. CASE EndWalk
  <2>. DEFINE coverage == CoverageRefusal(container, index, at)
              loops    == LoopRefusals(container, at)
  <2>1. coverage # "accepted" /\ "accepted" \notin loops
    BY RefusalNames
  <2>2. CASE \E r : r # "accepted" /\ Refuse(r)
    BY <2>2, <1>1
  <2>3. CASE /\ coverage = "none"
             /\ shapes' = [shapes EXCEPT ![index] = at]
             /\ index' = index + 1
             /\ stage' = "begin"
             /\ UNCHANGED <<container, verdict>>
    <3>1. /\ index \in Functions(container) /\ DOMAIN shapes = Functions(container)
          /\ stage = "walk"
      BY <1>8 DEF EndWalk, VerifyTypeOK
    <3>2. ASSUME NEW i \in Functions(container), i < index + 1
          PROVE  CoverageRefusal(container, i, shapes'[i]) = "none"
      <4>1. CASE i = index
        BY <4>1, <2>3, <3>1
      <4>2. CASE i # index
        <5>1. i < index /\ shapes'[i] = shapes[i]
          BY <4>2, <2>3, <3>1, <3>2 DEF Functions
        <5>. QED
          BY <5>1, <3>2 DEF ChecksInv
      <4>. QED
        BY <4>1, <4>2
    <3>. HIDE DEF coverage
    <3>. QED
      BY <1>0, <2>3, <3>1, <3>2 DEF ChecksInv
  <2>. QED
    BY <1>8, <2>1, <2>2, <2>3 DEF EndWalk
<1>9. CASE CallGraph
  <2>1. "accepted" \notin GraphRefusals(container)
    BY RefusalNames
  <2>2. CASE /\ stage = "begin" /\ stage' = "declared" /\ GraphRefusals(container) = {}
             /\ UNCHANGED <<container, verdict, index, shapes>>
    BY <1>0, <2>2 DEF ChecksInv
  <2>. QED
    BY <1>1, <1>9, <2>1, <2>2 DEF CallGraph
<1>10. CASE CompareDeclared
  <2>. DEFINE refusal == DeclaredRefusal(container, stacks)
  <2>1. refusal # "accepted"
    BY RefusalNames
  <2>2. CASE /\ stage = "declared" /\ refusal = "none"
             /\ UNCHANGED <<container, index, shapes, stacks>>
    BY <2>2 DEF ChecksInv
  <2>3. stage = "declared" /\ (Refuse(refusal) \/ (refusal = "none"
          /\ UNCHANGED <<container, index, shapes, stacks>>))
    BY <1>10 DEF CompareDeclared
  <2>. QED
    BY <1>1, <2>1, <2>2, <2>3
<1>11. CASE UNCHANGED verifyVars
  BY <1>11 DEF verifyVars, ChecksInv
<1>. QED
  BY <1>3, <1>4, <1>5, <1>6, <1>7, <1>8, <1>9, <1>10, <1>11 DEF VerifyNext

(* A function that was walked and covered reads straight through as it was
   walked. *)
LEMMA WalkedIsSwept ==
  ASSUME VerifyInv, ChecksInv, RegionsTile(container), NEW i \in Functions(container), i < index
  PROVE  DOMAIN shapes[i] = Sweep(container, i)
<1>1. Decoded(container)
  BY DEF VerifyInv, VerifyTypeOK
<1>2. /\ Start(container, i) \in Nat /\ End(container, i) \in Nat
  BY <1>1, RegionInCode
<1>3. Certificate(container, i, shapes[i])
  BY DEF VerifyInv, WalkIsSound
<1>4. DOMAIN shapes[i] \subseteq Region(container, i) /\ Start(container, i) \in DOMAIN shapes[i]
  BY <1>3 DEF Certificate, Closed
<1>5. ASSUME NEW p \in DOMAIN shapes[i] PROVE After(container, p) <= End(container, i)
  <2>1. ~(After(container, p) > End(container, i))
    BY <1>3, StepPasses DEF Certificate, Closed
  <2>2. After(container, p) \in Nat
    BY <1>2, <1>4, SizeType DEF After, Region
  <2>. QED
    BY <1>2, <2>1, <2>2
<1>6. CoverageRefusal(container, i, shapes[i]) = "none"
  BY DEF ChecksInv
<1>7. TilesOnce(container, i, DOMAIN shapes[i])
  BY <1>2, <1>4, <1>5, <1>6, CoverageTiles
<1>. QED
  BY <1>2, <1>7, SweepFinds

(* verify.py has two readings of the code, the walk's and that of
   _call_graph, and the code generators have the second: they are the same
   for every container that gets as far as being compared. *)
THEOREM ReadOneWay == VerifySpec => []OneReading
<1>1. VerifyInv /\ AcceptedInv /\ ChecksInv => OneReading
  <2>. SUFFICES ASSUME VerifyInv, AcceptedInv, ChecksInv, stage = "declared",
                       NEW i \in Functions(container)
                PROVE  DOMAIN shapes[i] = Sweep(container, i)
    BY DEF OneReading
  <2>1. index = Len(container.functions) /\ RegionsTile(container)
    BY DEF AcceptedInv
  <2>2. i < index
    BY <2>1, LenProperties DEF Functions, VerifyInv, VerifyTypeOK, Decoded, DecodedContainer
  <2>. QED
    BY <2>1, <2>2, WalkedIsSwept
<1>2. VerifyInit => VerifyInv /\ AcceptedInv /\ ChecksInv
  BY InitInv, AcceptedInit, ChecksInit
<1>3. VerifyInv /\ AcceptedInv /\ ChecksInv /\ [VerifyNext]_verifyVars
        => VerifyInv' /\ AcceptedInv' /\ ChecksInv'
  BY NextInv, AcceptedNext, ChecksNext
<1>. QED
  BY <1>1, <1>2, <1>3, PTL DEF VerifySpec

-----------------------------------------------------------------------------
(* The call graph of an accepted container. *)
Verified == VerifyInv /\ AcceptedInv /\ ChecksInv /\ verdict = "accepted"

graph == Calls(container)

LEMMA AllWalked ==
  ASSUME Verified, NEW i \in Functions(container)
  PROVE  /\ Decoded(container) /\ RegionsTile(container) /\ i < index
         /\ DOMAIN shapes[i] = Sweep(container, i)
<1>1. Decoded(container) /\ RegionsTile(container) /\ index = Len(container.functions)
  BY DEF Verified, VerifyInv, VerifyTypeOK, AcceptedInv
<1>2. i < index
  BY <1>1, LenProperties DEF Functions, Decoded, DecodedContainer
<1>. QED
  BY <1>1, <1>2, WalkedIsSwept DEF Verified

LEMMA CallsAFunction ==
  ASSUME Verified, NEW i \in Functions(container), NEW p \in DOMAIN shapes[i],
         NameAt(container, p) = "call"
  PROVE  OperandAt(container, p) \in Functions(container)
<1>1. Decoded(container)
  BY AllWalked
<1>2. /\ LookupRefusal(container, i, p) = "none"
      /\ NameAt(container, p) \in Indexed \cup ConstState => OperandAt(container, p) \in Byte
  BY TypedInstruction, TypedEffect DEF Verified, TypedAs
<1>. QED
  BY <1>1, <1>2, LookupsSucceed

LEMMA CallGraphIsGraph ==
  ASSUME Verified
  PROVE  /\ Graph(graph)
         /\ DOMAIN graph = Functions(container)
         /\ \A i \in Functions(container) : \A p \in DOMAIN shapes[i] :
              NameAt(container, p) = "call" => OperandAt(container, p) \in graph[i]
<1>1. DOMAIN graph = Functions(container)
  BY DEF graph, Calls
<1>2. ASSUME NEW i \in Functions(container)
      PROVE  graph[i] = {OperandAt(container, p) :
                           p \in {q \in DOMAIN shapes[i] : NameAt(container, q) = "call"}}
  BY AllWalked DEF graph, Calls, Callees
<1>3. ASSUME NEW i \in Functions(container) PROVE graph[i] \subseteq Functions(container)
  BY <1>2, CallsAFunction
<1>4. IsFiniteSet(Functions(container))
  <2>1. Len(container.functions) \in Nat
    BY LenProperties DEF Verified, VerifyInv, VerifyTypeOK, Decoded, DecodedContainer
  <2>. QED
    BY <2>1, FS_Interval DEF Functions
<1>5. graph = [i \in Functions(container) |-> graph[i]]
  BY DEF graph, Calls
<1>. QED
  BY <1>1, <1>2, <1>3, <1>4, <1>5 DEF Graph

(* A component has one cap, which is zero just where nothing in it can be
   entered again, and the number in its records is its own. *)
ComponentOf(i) == Fn(container, i).component
CapOf(i) == Fn(container, i).recursion_cap

LEMMA CapsOfComponents ==
  ASSUME Verified, NEW i \in Functions(container)
  PROVE  /\ \A j \in Component(graph, i) : CapOf(j) = CapOf(i)
         /\ CapOf(i) = 0 => Component(graph, i) = {i} /\ i \notin graph[i]
<1>. DEFINE C == Component(graph, i)
            f == [j \in Functions(container) |-> CapOf(j)]
            declared == {Fn(container, j).recursion_cap : j \in C}
<1>1. Graph(graph) /\ DOMAIN graph = Functions(container)
  BY CallGraphIsGraph
<1>2. /\ i \in C /\ C \in SUBSET Functions(container)
      /\ IsFiniteSet(C)
  <2>1. i \in C /\ C \in SUBSET Functions(container)
    BY <1>1, ComponentFacts
  <2>. QED
    BY <1>1, <2>1, FS_Subset DEF Graph
<1>3. IF Cyclic(graph, i) THEN declared # {0} /\ Cardinality(declared) = 1
      ELSE declared = {0}
  <2>1. CapRefusals(container, graph) = {}
    BY DEF Verified, ChecksInv, GraphRefusals, graph
  <2>. QED
    BY <2>1 DEF CapRefusals
<1>4. IsFiniteSet(declared)
  <2>1. declared = {f[j] : j \in C}
    BY <1>2 DEF CapOf
  <2>. HIDE DEF f, C, declared
  <2>. QED
    BY <1>2, <2>1, ImageIsFinite
<1>5. PICK x : declared = {x}
  <2>1. CASE Cyclic(graph, i)
    <3>. HIDE DEF declared
    <3>. QED
      BY <1>3, <1>4, <2>1, FS_Singleton
  <2>2. CASE ~Cyclic(graph, i)
    BY <1>3, <2>2
  <2>. QED
    BY <2>1, <2>2
<1>6. \A j \in C : CapOf(j) = x
  BY <1>5 DEF CapOf
<1>7. ASSUME CapOf(i) = 0 PROVE C = {i} /\ i \notin graph[i]
  <2>1. ~Cyclic(graph, i)
    BY <1>2, <1>3, <1>5, <1>6, <1>7
  <2>2. ~(Cardinality(C) > 1) /\ i \notin graph[i]
    BY <2>1 DEF Cyclic
  <2>3. Cardinality(C) = 1
    <3>1. Cardinality(C) \in Nat /\ Cardinality(C) # 0
      BY <1>2, FS_CardinalityType, FS_EmptySet
    <3>. HIDE DEF C
    <3>. QED
      BY <2>2, <3>1
  <2>4. \E y : C = {y}
    <3>. HIDE DEF C
    <3>. QED
      BY <1>2, <2>3, FS_Singleton
  <2>. QED
    BY <1>2, <2>2, <2>4
<1>. QED
  BY <1>2, <1>6, <1>7

LEMMA DeclaredNumbers ==
  ASSUME Verified, NEW i \in Functions(container)
  PROVE  /\ Fn(container, i).max_stack = stacks[i]
         /\ Fn(container, i).max_call_depth = CallDepthNeeded(container)[i] - 1
         /\ ComponentOf(i) = Min(Component(graph, i))
<1>1. DeclaredRefusal(container, stacks) = "none"
  BY DEF Verified, ChecksInv
<1>. DEFINE refusal(j) ==
              IF Fn(container, j).max_stack # stacks[j] THEN "stack_depth_mismatch"
              ELSE IF Fn(container, j).max_call_depth # CallDepthNeeded(container)[j] - 1
                   THEN "call_depth_mismatch"
              ELSE IF Fn(container, j).component # Min(Component(graph, j))
                   THEN "malformed_section"
              ELSE "none"
            wrong == {j \in Functions(container) : refusal(j) # "none"}
<1>2. IF wrong = {} THEN TRUE ELSE refusal(Min(wrong)) = "none"
  BY <1>1 DEF DeclaredRefusal, graph
<1>3. wrong = {}
  <2>1. SUFFICES ASSUME wrong # {} PROVE FALSE
    OBVIOUS
  <2>2. wrong \in SUBSET Nat
    BY DEF Functions
  <2>3. Min(wrong) \in wrong
    <3>. HIDE DEF wrong
    <3>. QED
      BY <2>1, <2>2, MinOfNaturals
  <2>. QED
    BY <1>2, <2>1, <2>3
<1>4. refusal(i) = "none"
  <2>. HIDE DEF refusal
  <2>. QED
    BY <1>3
<1>. QED
  BY <1>4 DEF ComponentOf

(* The functions with one component number are one component. *)
LEMMA ComponentNumbers ==
  ASSUME Verified, NEW i \in Functions(container)
  PROVE  /\ ComponentOf(i) \in Functions(container)
         /\ \A j \in Functions(container) :
              ComponentOf(j) = ComponentOf(i) <=> j \in Component(graph, i)
         /\ ComponentCap(ComponentOf(i)) = CapOf(i)
<1>1. Graph(graph) /\ DOMAIN graph = Functions(container)
  BY CallGraphIsGraph
<1>2. ASSUME NEW j \in Functions(container)
      PROVE  /\ ComponentOf(j) \in Component(graph, j)
             /\ j \in Component(graph, j)
             /\ Component(graph, j) \subseteq Functions(container)
  <2>1. /\ j \in Component(graph, j)
        /\ Component(graph, j) \subseteq Functions(container)
    BY <1>1, ComponentFacts
  <2>2. Component(graph, j) \in SUBSET Nat /\ Component(graph, j) # {}
    BY <2>1 DEF Functions
  <2>. QED
    BY <2>1, <2>2, MinOfNaturals, DeclaredNumbers
<1>3. ASSUME NEW j \in Functions(container)
      PROVE  ComponentOf(j) = ComponentOf(i) <=> j \in Component(graph, i)
  <2>1. CASE j \in Component(graph, i)
    <3>1. Component(graph, j) = Component(graph, i)
      BY <1>1, <2>1, ComponentFacts
    <3>2. /\ ComponentOf(j) = Min(Component(graph, j))
          /\ ComponentOf(i) = Min(Component(graph, i))
      BY DeclaredNumbers
    <3>. QED
      BY <2>1, <3>1, <3>2
  <2>2. CASE ComponentOf(j) = ComponentOf(i)
    <3>1. PICK k : k = ComponentOf(i)
      OBVIOUS
    <3>2. k \in Component(graph, i) /\ k \in Component(graph, j)
      BY <1>2, <2>2, <3>1
    <3>3. Component(graph, k) = Component(graph, i) /\ Component(graph, k) = Component(graph, j)
      BY <1>1, <3>2, ComponentFacts
    <3>4. Component(graph, j) = Component(graph, i)
      BY <3>3
    <3>5. j \in Component(graph, j)
      BY <1>2
    <3>. QED
      BY <2>2, <3>4, <3>5
  <2>. QED
    BY <2>1, <2>2
<1>4. ComponentCap(ComponentOf(i)) = CapOf(i)
  <2>. DEFINE members == {j \in Functions(container) : Fn(container, j).component = ComponentOf(i)}
  <2>1. members = Component(graph, i)
    BY <1>2, <1>3 DEF ComponentOf
  <2>2. /\ members \in SUBSET Nat /\ IsFiniteSet(members) /\ members # {}
    BY <1>1, <1>2, <2>1, FS_Subset DEF Graph, Functions
  <2>3. Max(members) \in members
    <3>. HIDE DEF members
    <3>. QED
      BY <2>2, MaxOfFinite
  <2>4. ComponentCap(ComponentOf(i)) = CapOf(Max(members))
    BY <2>2 DEF ComponentCap, CapOf
  <2>. QED
    BY <2>1, <2>3, <2>4, CapsOfComponents
<1>. QED
  BY <1>2, <1>3, <1>4

-----------------------------------------------------------------------------
(* The charges of CallDepthNeeded and SlotsNeeded. *)
Frames == [i \in Functions(container) |-> FramesLive(container, i)]
FrameOf(i) == Len(Fn(container, i).local_types) + stacks[i]
Widest == [i \in Functions(container) |-> Max({FrameOf(j) : j \in Component(graph, i)})]
OneEach == [i \in Functions(container) |-> 1]

LEMMA FramesOfOneComponent ==
  ASSUME Verified, NEW i \in Functions(container)
  PROVE  /\ Frames[i] \in Nat
         /\ Frames[i] = IF CapOf(i) = 0 THEN 1 ELSE CapOf(i)
         /\ \A j \in Component(graph, i) : Frames[j] = Frames[i]
<1>1. \A j \in Component(graph, i) : j \in Functions(container) /\ CapOf(j) = CapOf(i)
  BY CapsOfComponents, CallGraphIsGraph, ComponentFacts
<1>2. \A j \in Functions(container) : Frames[j] = IF CapOf(j) = 0 THEN 1 ELSE CapOf(j)
  BY DEF Frames, FramesLive, CapOf
<1>3. CapOf(i) \in Nat
  BY FunctionLocals DEF Verified, CapOf
<1>. QED
  BY <1>1, <1>2, <1>3

LEMMA DepthIsCharged ==
  ASSUME Verified
  PROVE  Charged(graph, OneEach, Frames, Frames)
<1>1. DOMAIN graph = Functions(container)
  BY CallGraphIsGraph
<1>2. OneEach \in [Functions(container) -> Nat] /\ Frames \in [Functions(container) -> Nat]
  BY FramesOfOneComponent DEF OneEach, Frames
<1>3. ASSUME NEW i \in Functions(container)
      PROVE  /\ Frames[i] = Frames[i] * OneEach[i]
             /\ \A j \in Component(graph, i) : OneEach[j] = OneEach[i] /\ Frames[j] = Frames[i]
  <2>1. \A j \in Component(graph, i) : j \in Functions(container)
    BY <1>1, CallGraphIsGraph, ComponentFacts
  <2>2. Frames[i] \in Nat
    BY FramesOfOneComponent
  <2>3. \A j \in Component(graph, i) : Frames[j] = Frames[i]
    BY FramesOfOneComponent
  <2>. QED
    BY <2>1, <2>2, <2>3 DEF OneEach
<1>. QED
  BY <1>1, <1>2, <1>3 DEF Charged

LEMMA WidestFrame ==
  ASSUME Verified, NEW i \in Functions(container)
  PROVE  /\ Widest[i] \in Nat /\ FrameOf(i) \in Nat /\ FrameOf(i) <= Widest[i]
         /\ \A j \in Component(graph, i) : Widest[j] = Widest[i]
<1>. DEFINE C == Component(graph, i)
            frame == [j \in Functions(container) |-> FrameOf(j)]
            sizes == {FrameOf(j) : j \in C}
<1>1. Graph(graph) /\ DOMAIN graph = Functions(container)
  BY CallGraphIsGraph
<1>2. /\ i \in C /\ C \in SUBSET Functions(container)
      /\ \A j \in C : Component(graph, j) = C
  BY <1>1, ComponentFacts
<1>3. IsFiniteSet(C)
  BY <1>1, <1>2, FS_Subset DEF Graph
<1>4. ASSUME NEW j \in Functions(container) PROVE FrameOf(j) \in Nat
  BY FunctionLocals DEF Verified, VerifyInv, VerifyTypeOK, FrameOf
<1>5. sizes = {frame[j] : j \in C}
  BY <1>2
<1>6. sizes \in SUBSET Nat /\ sizes # {} /\ FrameOf(i) \in sizes
  BY <1>2, <1>4
<1>7. IsFiniteSet(sizes)
  <2>. HIDE DEF frame, C, sizes
  <2>. QED
    BY <1>3, <1>5, ImageIsFinite
<1>8. Max(sizes) \in sizes /\ \A y \in sizes : y <= Max(sizes)
  <2>. HIDE DEF sizes
  <2>. QED
    BY <1>6, <1>7, MaxOfFinite
<1>9. \A j \in C : Widest[j] = Max(sizes)
  BY <1>2 DEF Widest
<1>. QED
  BY <1>2, <1>6, <1>8, <1>9

LEMMA SlotsAreCharged ==
  ASSUME Verified
  PROVE  LET cost == [i \in Functions(container) |-> Frames[i] * Widest[i]]
         IN  /\ Charged(graph, Widest, Frames, cost)
             /\ SlotsNeeded(container, stacks) = WorstCase(graph, cost)
<1>. DEFINE cost == [i \in Functions(container) |-> Frames[i] * Widest[i]]
<1>1. DOMAIN graph = Functions(container)
  BY CallGraphIsGraph
<1>2. ASSUME NEW i \in Functions(container)
      PROVE  /\ Frames[i] \in Nat /\ Widest[i] \in Nat
             /\ \A j \in Component(graph, i) : Widest[j] = Widest[i] /\ Frames[j] = Frames[i]
  BY FramesOfOneComponent, WidestFrame
<1>3. ASSUME NEW i \in Functions(container) PROVE cost[i] \in Nat
  <2>. DEFINE a == Frames[i]
              b == Widest[i]
  <2>1. a \in Nat /\ b \in Nat /\ cost[i] = a * b
    BY <1>2
  <2>. HIDE DEF a, b
  <2>2. a * b \in Nat
    BY <2>1, Scales
  <2>. QED
    BY <2>1, <2>2
<1>4. /\ Widest \in [Functions(container) -> Nat] /\ Frames \in [Functions(container) -> Nat]
  BY <1>2 DEF Frames, Widest
<1>5. cost \in [Functions(container) -> Nat]
  <2>1. cost = [i \in Functions(container) |-> cost[i]]
    OBVIOUS
  <2>. HIDE DEF cost
  <2>. QED
    BY <1>3, <2>1
<1>6. \A i \in Functions(container) : cost[i] = Frames[i] * Widest[i]
  OBVIOUS
<1>7. Charged(graph, Widest, Frames, cost)
  <2>. HIDE DEF cost
  <2>. QED
    BY <1>1, <1>2, <1>4, <1>5, <1>6 DEF Charged
<1>8. SlotsNeeded(container, stacks) = WorstCase(graph, cost)
  <2>1. cost = [i \in Functions(container) |->
                  FramesLive(container, i)
                    * Max({FrameOf(j) : j \in Component(graph, i)})]
    BY DEF Frames, Widest
  <2>. QED
    BY <2>1 DEF SlotsNeeded, FrameOf, graph
<1>. QED
  BY <1>7, <1>8

-----------------------------------------------------------------------------
(* A chain of calls the recursion counters let through. *)
Among(g, m, k) == {a \in 1..m : ComponentOf(g[a]) = k}

Counted(g, m) ==
  \A k \in Functions(container) :
    ComponentCap(k) # 0 => Cardinality(Among(g, m, k)) <= ComponentCap(k)

(* A function outside recursion is called once on a chain. *)
LEMMA OnceOutsideRecursion ==
  ASSUME Verified, NEW m \in Nat, NEW g, Chain(graph, g, m), NEW n \in 1..m,
         CapOf(g[n]) = 0
  PROVE  Inside(graph, g, m, g[n]) = {n}
<1>. DEFINE i == g[n]
<1>1. Graph(graph) /\ DOMAIN graph = Functions(container)
  BY CallGraphIsGraph
<1>2. i \in Functions(container)
  BY <1>1 DEF Chain
<1>3. Component(graph, i) = {i} /\ i \notin graph[i]
  BY <1>2, CapsOfComponents
<1>4. ASSUME NEW a \in 1..m, NEW b \in 1..m, a < b, g[a] = i, g[b] = i
      PROVE  FALSE
  <2>1. a \in 1..m - 1 /\ a + 1 \in 1..m /\ b \in a + 1..m /\ m \in Nat
    BY <1>4
  <2>2. g[a + 1] \in graph[i] /\ g[a + 1] \in DOMAIN graph
    BY <1>4, <2>1 DEF Chain
  <2>3. i \in Reached(graph, g[a + 1])
    BY <1>1, <1>4, <2>1, ChainReaches
  <2>4. g[a + 1] \in Reached(graph, i)
    BY <1>1, <1>2, <2>2, ComponentFacts
  <2>5. g[a + 1] \in Component(graph, i)
    BY <2>3, <2>4 DEF Component
  <2>. QED
    BY <1>3, <2>2, <2>5
<1>5. ASSUME NEW a \in 1..m, g[a] = i PROVE a = n
  <2>1. ~(a < n) /\ ~(n < a)
    BY <1>4, <1>5
  <2>. QED
    BY <2>1
<1>. QED
  BY <1>3, <1>5 DEF Inside

LEMMA CountedWithinCaps ==
  ASSUME Verified, NEW m \in Nat, NEW g, Chain(graph, g, m), Counted(g, m)
  PROVE  WithinCaps(graph, g, m, Frames)
<1>. SUFFICES ASSUME NEW n \in 1..m
              PROVE  Cardinality(Inside(graph, g, m, g[n])) <= Frames[g[n]]
  BY DEF WithinCaps
<1>1. DOMAIN graph = Functions(container)
  BY CallGraphIsGraph
<1>2. \A a \in 1..m : g[a] \in Functions(container)
  BY <1>1 DEF Chain
<1>3. Frames[g[n]] = IF CapOf(g[n]) = 0 THEN 1 ELSE CapOf(g[n])
  BY <1>2, FramesOfOneComponent
<1>4. CASE CapOf(g[n]) = 0
  <2>1. Inside(graph, g, m, g[n]) = {n}
    BY <1>4, OnceOutsideRecursion
  <2>2. Cardinality({n}) = 1
    BY FS_Singleton
  <2>. QED
    BY <1>3, <1>4, <2>1, <2>2
<1>5. CASE CapOf(g[n]) # 0
  <2>. DEFINE k == ComponentOf(g[n])
  <2>1. /\ k \in Functions(container) /\ ComponentCap(k) = CapOf(g[n])
        /\ \A j \in Functions(container) :
             ComponentOf(j) = k <=> j \in Component(graph, g[n])
    BY <1>2, ComponentNumbers
  <2>2. Among(g, m, k) = Inside(graph, g, m, g[n])
    BY <1>2, <2>1 DEF Among, Inside
  <2>. HIDE DEF k
  <2>3. Cardinality(Among(g, m, k)) <= ComponentCap(k)
    BY <1>5, <2>1 DEF Counted
  <2>. QED
    BY <1>3, <1>5, <2>1, <2>2, <2>3
<1>. QED
  BY <1>4, <1>5

(* No such chain is longer than the record of its first function says. *)
LEMMA ChainDepth ==
  ASSUME Verified, NEW m \in Nat \ {0}, NEW g, Chain(graph, g, m), Counted(g, m)
  PROVE  m <= CallDepthNeeded(container)[g[1]]
<1>. DEFINE b == [n \in 1..m + 1 |-> n - 1]
<1>1. Graph(graph) /\ DOMAIN graph = Functions(container)
  BY CallGraphIsGraph
<1>2. WithinCaps(graph, g, m, Frames)
  BY CountedWithinCaps
<1>3. \A n \in 1..m : n \in 1..m + 1 /\ n + 1 \in 1..m + 1 /\ OneEach[g[n]] = 1
  BY <1>1 DEF Chain, OneEach
<1>4. Taken(graph, g, m, OneEach, b)
  <2>1. b \in [1..m + 1 -> Int] /\ b[1] = 0
    OBVIOUS
  <2>2. \A n \in 1..m : b[n + 1] <= b[n] + OneEach[g[n]]
    BY <1>3
  <2>. QED
    BY <2>1, <2>2 DEF Taken
<1>5. b[m + 1] = m
  OBVIOUS
<1>6. b[m + 1] <= WorstCase(graph, Frames)[g[1]]
  <2>. HIDE DEF b
  <2>. QED
    BY <1>1, <1>2, <1>4, DepthIsCharged, ChainBound
<1>7. CallDepthNeeded(container) = WorstCase(graph, Frames)
  BY DEF CallDepthNeeded, Frames, graph
<1>. QED
  BY <1>5, <1>6, <1>7

(* The frame of each call begins within the slots of the frame before it. *)
Stacked(g, m, b) ==
  /\ b \in [1..m + 1 -> Int]
  /\ b[1] = 0
  /\ \A n \in 1..m : b[n + 1] <= b[n] + FrameOf(g[n])

LEMMA ChainSlots ==
  ASSUME Verified, NEW m \in Nat \ {0}, NEW g, Chain(graph, g, m), Counted(g, m),
         NEW b, Stacked(g, m, b)
  PROVE  b[m + 1] <= SlotsNeeded(container, stacks)[g[1]]
<1>1. Graph(graph) /\ DOMAIN graph = Functions(container)
  BY CallGraphIsGraph
<1>2. WithinCaps(graph, g, m, Frames)
  BY CountedWithinCaps
<1>3. ASSUME NEW n \in 1..m PROVE b[n + 1] <= b[n] + Widest[g[n]]
  <2>1. g[n] \in Functions(container)
    BY <1>1 DEF Chain
  <2>2. /\ Widest[g[n]] \in Nat /\ FrameOf(g[n]) \in Nat /\ FrameOf(g[n]) <= Widest[g[n]]
    BY <2>1, WidestFrame
  <2>3. b[n + 1] \in Int /\ b[n] \in Int /\ b[n + 1] <= b[n] + FrameOf(g[n])
    BY DEF Stacked
  <2>. QED
    BY <2>2, <2>3
<1>4. Taken(graph, g, m, Widest, b)
  BY <1>3 DEF Taken, Stacked
<1>. QED
  BY <1>1, <1>2, <1>4, SlotsAreCharged, ChainBound

-----------------------------------------------------------------------------
(* The outermost frame is that of an entry point, at the foot of the slots. *)
StartOf(n) == IF n <= Len(frames) THEN frames[n].base ELSE base

EntryInv ==
  status = "running" =>
    /\ FunctionOf(1) \in Functions(container)
    /\ Fn(container, FunctionOf(1)).invocable
    /\ StartOf(1) = 0

LEMMA EntersEntry ==
  ASSUME DeviceInv, EntryInv, status = "running", Enters, UNCHANGED container
  PROVE  EntryInv'
<1>. DEFINE F == [return_pc |-> pc + 2, base |-> base, function |-> current]
            N == Len(frames)
<1>1. frames \in Seq(Caller)
  BY DEF DeviceInv, CallersShape
<1>2. /\ current \in Functions(container) /\ base \in Nat /\ pc \in Nat
  BY RunningTypes
<1>3. F \in Caller /\ N \in Nat /\ frames' = Append(frames, F)
  BY <1>1, <1>2, LenProperties DEF Caller, Enters
<1>4. /\ Len(frames') = N + 1 /\ frames'[N + 1] = F
      /\ \A n \in 1..N : frames'[n] = frames[n]
  BY <1>1, <1>3, AppendProperties
<1>5. F.function = current /\ F.base = base
  OBVIOUS
<1>. HIDE DEF F
<1>6. CASE N = 0
  <2>1. FunctionOf(1) = current /\ StartOf(1) = base
    BY <1>6 DEF FunctionOf, StartOf
  <2>2. 1 <= Len(frames') /\ frames'[1] = F
    BY <1>4, <1>6
  <2>3. FunctionOf(1)' = current /\ StartOf(1)' = base
    BY <1>5, <2>2 DEF FunctionOf, StartOf
  <2>. QED
    BY <2>1, <2>3 DEF EntryInv
<1>7. CASE N # 0
  <2>1. 1 \in 1..N /\ 1 <= N /\ 1 <= N + 1
    BY <1>3, <1>7
  <2>2. frames'[1] = frames[1] /\ 1 <= Len(frames) /\ 1 <= Len(frames')
    BY <1>4, <2>1
  <2>3. FunctionOf(1)' = FunctionOf(1) /\ StartOf(1)' = StartOf(1)
    BY <2>2 DEF FunctionOf, StartOf
  <2>. QED
    BY <2>3 DEF EntryInv
<1>. QED
  BY <1>6, <1>7

LEMMA ReturnsEntry ==
  ASSUME DeviceInv, EntryInv, status = "running", Returns, UNCHANGED container
  PROVE  EntryInv'
<1>. DEFINE N == Len(frames)
<1>1. frames \in Seq(Caller) /\ frames # <<>> /\ frames' = Front(frames)
  BY DEF DeviceInv, CallersShape, Returns
<1>2. /\ Len(frames') = N - 1 /\ N \in Nat \ {0}
      /\ \A n \in 1..N - 1 : frames'[n] = frames[n]
  BY <1>1, FrontLast, LenProperties
<1>3. CASE N = 1
  <2>1. FunctionOf(1) = frames[1].function /\ StartOf(1) = frames[1].base
    BY <1>3 DEF FunctionOf, StartOf
  <2>2. current' = frames[1].function /\ base' = frames[1].base
    BY <1>3 DEF Returns
  <2>3. ~(1 <= Len(frames'))
    BY <1>2, <1>3
  <2>4. FunctionOf(1)' = FunctionOf(1) /\ StartOf(1)' = StartOf(1)
    BY <2>1, <2>2, <2>3 DEF FunctionOf, StartOf
  <2>. QED
    BY <2>4 DEF EntryInv
<1>4. CASE N # 1
  <2>1. 1 \in 1..N - 1 /\ 1 <= N /\ 1 <= N - 1
    BY <1>2, <1>4
  <2>2. frames'[1] = frames[1] /\ 1 <= Len(frames) /\ 1 <= Len(frames')
    BY <1>2, <2>1
  <2>3. FunctionOf(1)' = FunctionOf(1) /\ StartOf(1)' = StartOf(1)
    BY <2>2 DEF FunctionOf, StartOf
  <2>. QED
    BY <2>3 DEF EntryInv
<1>. QED
  BY <1>3, <1>4

LEMMA EntryNext ==
  ASSUME DeviceInv, EntryInv, [DeviceNext]_deviceVars
  PROVE  EntryInv'
<1>1. CASE \/ status' # "running"
           \/ UNCHANGED <<container, status, current, base, frames>>
  BY <1>1 DEF EntryInv, FunctionOf, StartOf
<1>2. CASE Verifying
  BY <1>2, <1>1, VerifyingPending DEF Verifying, DeviceInv, vmVars
<1>3. CASE Running
  <2>. USE <1>3 DEF Running
  <2>1. container' = container
    BY DEF verifyVars
  <2>2. CASE Load
    BY <2>2, <1>1 DEF Load
  <2>3. ASSUME NEW entry \in Functions(container), Invoke(entry), status' = "running"
        PROVE  EntryInv'
    <3>1. /\ frames' = <<>> /\ current' = entry /\ base' = 0
          /\ Fn(container, entry).invocable
      BY <2>3 DEF Invoke, DeviceInv
    <3>2. FunctionOf(1)' = entry /\ StartOf(1)' = 0
      BY <3>1 DEF FunctionOf, StartOf
    <3>. QED
      BY <2>1, <3>1, <3>2 DEF EntryInv
  <2>4. CASE InvokeUnknown
    BY <2>1, <2>4, <1>1 DEF InvokeUnknown, frameVars
  <2>5. CASE Step
    <3>1. CASE Continues
      BY <1>1, <2>1, <3>1 DEF Continues, frameVars
    <3>2. CASE Leave \/ status' = "stray"
      BY <1>1, <3>2 DEF Leave
    <3>. QED
      BY <2>1, <2>5, <3>1, <3>2, StepRuns, StepCases, EntersEntry, ReturnsEntry
  <2>. QED
    BY <1>1, <2>2, <2>3, <2>4, <2>5 DEF VmNext
<1>4. CASE UNCHANGED deviceVars
  BY <1>1, <1>4 DEF deviceVars, vmVars, verifyVars, frameVars
<1>. QED
  BY <1>2, <1>3, <1>4 DEF DeviceNext

(* What the bounds on an invocation rest on. *)
BoundInv == DeviceInv /\ CountersInv /\ ChecksInv /\ EntryInv

LEMMA BoundInit == DeviceInit => BoundInv
<1>. SUFFICES ASSUME DeviceInit PROVE BoundInv
  OBVIOUS
<1>1. DeviceInv /\ ChecksInv
  BY DeviceInitInv, ChecksInit DEF DeviceInit
<1>. QED
  BY <1>1 DEF BoundInv, DeviceInit, VmInit, CountersInv, EntryInv

LEMMA BoundNext == BoundInv /\ [DeviceNext]_deviceVars => BoundInv'
<1>. SUFFICES ASSUME BoundInv, [DeviceNext]_deviceVars PROVE BoundInv'
  OBVIOUS
<1>1. DeviceInv' /\ CountersInv' /\ EntryInv'
  BY DeviceNextInv, CountersNext, EntryNext DEF BoundInv
<1>2. [VerifyNext]_verifyVars
  <2>1. CASE Verifying
    BY <2>1 DEF Verifying
  <2>2. CASE Running
    BY <2>2 DEF Running
  <2>3. CASE UNCHANGED deviceVars
    BY <2>3 DEF deviceVars
  <2>. QED
    BY <2>1, <2>2, <2>3 DEF DeviceNext
<1>3. ChecksInv'
  BY <1>2, ChecksNext DEF BoundInv, DeviceInv
<1>. QED
  BY <1>1, <1>3 DEF BoundInv

LEMMA BoundInvariant == DeviceSpec => []BoundInv
BY BoundInit, BoundNext, PTL DEF DeviceSpec

-----------------------------------------------------------------------------
(* The call stack is a chain of calls, each frame stacked on the one before. *)
StackDepth == Len(frames) + 1
Stack == [n \in 1..StackDepth |-> FunctionOf(n)]

LEMMA RunningChain ==
  ASSUME BoundInv, status = "running"
  PROVE  /\ Verified
         /\ StackDepth \in Nat \ {0}
         /\ Chain(graph, Stack, StackDepth)
         /\ Stack[1] = FunctionOf(1) /\ Stack[StackDepth] = current
         /\ FunctionOf(1) \in Functions(container)
         /\ Fn(container, FunctionOf(1)).invocable
         /\ \A n \in 1..StackDepth - 1 :
              Waits(frames[n], FunctionOf(n + 1), StartOf(n + 1))
<1>. DEFINE N == Len(frames)
<1>1. /\ Verified /\ frames \in Seq(Caller) /\ current \in Functions(container)
      /\ CallersShape
  BY DEF BoundInv, DeviceInv, Verified, RunningShape, CallersShape
<1>2. N \in Nat /\ StackDepth = N + 1 /\ \A n \in 1..N : frames[n] \in Caller
  BY <1>1, LenProperties, ElementOfSeq DEF StackDepth
<1>3. DOMAIN graph = Functions(container)
  BY <1>1, CallGraphIsGraph
<1>4. ASSUME NEW n \in 1..N
      PROVE  /\ n \in 1..StackDepth /\ n + 1 \in 1..StackDepth
             /\ FunctionOf(n) = frames[n].function
             /\ Waits(frames[n], FunctionOf(n + 1), StartOf(n + 1))
  <2>1. n \in 1..StackDepth /\ n + 1 \in 1..StackDepth
    BY <1>2
  <2>2. FunctionOf(n) = frames[n].function
    BY <1>2 DEF FunctionOf
  <2>3. CASE n = N
    <3>1. FunctionOf(n + 1) = current /\ StartOf(n + 1) = base /\ frames # <<>>
      BY <1>2, <2>3 DEF FunctionOf, StartOf
    <3>. QED
      BY <1>1, <2>1, <2>2, <2>3, <3>1 DEF CallersShape
  <2>4. CASE n # N
    <3>1. n \in 1..N - 1 /\ n + 1 <= N
      BY <1>2, <2>4
    <3>2. FunctionOf(n + 1) = frames[n + 1].function /\ StartOf(n + 1) = frames[n + 1].base
      BY <3>1 DEF FunctionOf, StartOf
    <3>. QED
      BY <1>1, <2>1, <2>2, <3>1, <3>2 DEF CallersShape
  <2>. QED
    BY <2>3, <2>4
<1>5. Stack \in [1..StackDepth -> DOMAIN graph]
  <2>1. ASSUME NEW n \in 1..StackDepth PROVE FunctionOf(n) \in Functions(container)
    <3>1. CASE n <= N
      <4>1. n \in 1..N
        BY <1>2, <3>1
      <4>. QED
        BY <1>2, <1>4, <4>1 DEF Caller
    <3>2. CASE ~(n <= N)
      BY <1>1, <3>2 DEF FunctionOf
    <3>. QED
      BY <3>1, <3>2
  <2>. QED
    BY <1>3, <2>1 DEF Stack
<1>6. ASSUME NEW n \in 1..StackDepth - 1
      PROVE  Stack[n + 1] \in graph[Stack[n]]
  <2>1. n \in 1..N
    BY <1>2
  <2>2. /\ Stack[n] = frames[n].function /\ Stack[n + 1] = FunctionOf(n + 1)
        /\ frames[n].function \in Functions(container)
    BY <1>2, <1>4, <2>1 DEF Stack, Caller
  <2>3. /\ frames[n].return_pc - 2 \in DOMAIN shapes[frames[n].function]
        /\ NameAt(container, frames[n].return_pc - 2) = "call"
        /\ OperandAt(container, frames[n].return_pc - 2) = FunctionOf(n + 1)
    BY <1>4, <2>1 DEF Waits
  <2>. QED
    BY <1>1, <2>2, <2>3, CallGraphIsGraph
<1>7. Chain(graph, Stack, StackDepth)
  BY <1>5, <1>6 DEF Chain
<1>8. Stack[1] = FunctionOf(1) /\ Stack[StackDepth] = current
  <2>1. 1 \in 1..StackDepth /\ StackDepth \in 1..StackDepth /\ ~(StackDepth <= Len(frames))
    BY <1>2
  <2>. QED
    BY <2>1 DEF Stack, FunctionOf
<1>9. /\ FunctionOf(1) \in Functions(container)
      /\ Fn(container, FunctionOf(1)).invocable
  BY DEF BoundInv, EntryInv
<1>10. \A n \in 1..StackDepth - 1 : n \in 1..N
  BY <1>2
<1>. QED
  BY <1>1, <1>2, <1>4, <1>7, <1>8, <1>9, <1>10

LEMMA RunningCounted ==
  ASSUME BoundInv, status = "running", NEW k \in Functions(container)
  PROVE  /\ Among(Stack, StackDepth, k) = FramesOf(k)
         /\ IsFiniteSet(FramesOf(k)) /\ Cardinality(FramesOf(k)) \in Nat
         /\ ComponentCap(k) # 0 =>
              /\ counters[k] = Cardinality(FramesOf(k))
              /\ counters[k] <= ComponentCap(k)
<1>1. Among(Stack, StackDepth, k) = FramesOf(k)
  BY DEF Among, Stack, FramesOf, ComponentOf, StackDepth
<1>2. Len(frames) \in Nat
  BY LenProperties DEF BoundInv, DeviceInv, CallersShape
<1>3. /\ ComponentCap(k) # 0 =>
              /\ counters[k] = Cardinality(FramesOf(k))
              /\ counters[k] <= ComponentCap(k)
  BY DEF BoundInv, CountersInv
<1>. QED
  BY <1>1, <1>2, <1>3, FramesAreFinite

(* No typing of a function is deeper than what its record was compared with. *)
LEMMA FrameIsBounded ==
  ASSUME Verified, NEW i \in Functions(container), NEW p \in DOMAIN shapes[i]
  PROVE  /\ FrameSize(i, p) \in Nat /\ FrameOf(i) \in Nat
         /\ FrameSize(i, p) <= FrameOf(i)
<1>1. i < index
  BY AllWalked
<1>2. Len(shapes[i][p]) <= stacks[i]
  BY <1>1 DEF Verified, VerifyInv, WalkIsSound
<1>3. Len(shapes[i][p]) \in Nat
  BY TypedInstruction DEF Verified
<1>4. Len(Fn(container, i).local_types) \in Nat
  BY FunctionLocals DEF Verified
<1>5. stacks[i] \in Nat
  BY DEF Verified, VerifyInv, VerifyTypeOK
<1>. DEFINE deep   == Len(shapes[i][p])
            locals == Len(Fn(container, i).local_types)
            most   == stacks[i]
<1>6. FrameSize(i, p) = locals + deep /\ FrameOf(i) = locals + most
  BY DEF FrameSize, FrameOf
<1>. HIDE DEF deep, locals, most
<1>7. locals \in Nat /\ deep \in Nat /\ most \in Nat /\ deep <= most
  BY <1>2, <1>3, <1>4, <1>5 DEF deep, locals, most
<1>. QED
  BY <1>6, <1>7

Starts ==
  [n \in 1..StackDepth + 1 |->
     IF n <= StackDepth THEN StartOf(n) ELSE base + FrameOf(current)]

LEMMA RunningStacked ==
  ASSUME BoundInv, status = "running"
  PROVE  /\ Stacked(Stack, StackDepth, Starts)
         /\ base \in Nat /\ FrameOf(current) \in Nat
         /\ Starts[StackDepth] = base /\ Starts[StackDepth + 1] = base + FrameOf(current)
         /\ sp <= base + FrameOf(current)
<1>1. /\ Verified /\ StackDepth \in Nat \ {0} /\ Chain(graph, Stack, StackDepth)
      /\ \A n \in 1..StackDepth - 1 :
           Waits(frames[n], FunctionOf(n + 1), StartOf(n + 1))
  BY RunningChain
<1>2. /\ frames \in Seq(Caller) /\ current \in Functions(container) /\ base \in Nat
      /\ pc \in DOMAIN shapes[current] /\ sp = base + FrameSize(current, pc)
  BY DEF BoundInv, DeviceInv, RunningShape, CallersShape
<1>3. /\ FrameSize(current, pc) \in Nat /\ FrameOf(current) \in Nat
      /\ FrameSize(current, pc) <= FrameOf(current)
  BY <1>1, <1>2, FrameIsBounded
<1>4. /\ StackDepth = Len(frames) + 1 /\ Len(frames) \in Nat
      /\ \A n \in 1..Len(frames) : frames[n] \in Caller
  BY <1>2, LenProperties, ElementOfSeq DEF StackDepth
<1>5. ASSUME NEW n \in 1..StackDepth - 1
      PROVE  /\ StartOf(n) = frames[n].base /\ StartOf(n) \in Int
             /\ StartOf(n + 1) <= StartOf(n) + FrameOf(FunctionOf(n))
  <2>1. n \in 1..Len(frames) /\ n <= Len(frames) /\ n + 1 \in 1..StackDepth
    BY <1>4
  <2>. DEFINE f == frames[n]
              callee == FunctionOf(n + 1)
              params == Fn(container, callee).param_count
  <2>2. /\ f \in Caller /\ f.function \in Functions(container) /\ f.base \in Nat
        /\ StartOf(n) = f.base /\ FunctionOf(n) = f.function
    BY <1>4, <2>1 DEF StartOf, FunctionOf, Caller
  <2>3. callee \in Functions(container)
    <3>1. Stack[n + 1] \in DOMAIN graph /\ Stack[n + 1] = FunctionOf(n + 1)
      BY <1>1, <2>1 DEF Chain, Stack
    <3>. QED
      BY <1>1, <3>1, CallGraphIsGraph
  <2>4. params \in Nat
    BY <1>1, <2>3, FunctionLocals DEF Verified
  <2>5. /\ f.return_pc - 2 \in DOMAIN shapes[f.function]
        /\ StartOf(n + 1) = f.base + FrameSize(f.function, f.return_pc - 2) - params
    BY <1>1 DEF Waits
  <2>6. /\ FrameSize(f.function, f.return_pc - 2) \in Nat /\ FrameOf(f.function) \in Nat
        /\ FrameSize(f.function, f.return_pc - 2) <= FrameOf(f.function)
    BY <1>1, <2>2, <2>5, FrameIsBounded
  <2>. HIDE DEF f, params
  <2>7. StartOf(n + 1) <= f.base + FrameOf(f.function)
    BY <2>2, <2>4, <2>5, <2>6
  <2>. QED
    BY <2>2, <2>7 DEF f
<1>6. StartOf(StackDepth) = base /\ StartOf(1) = 0 /\ FunctionOf(StackDepth) = current
  BY <1>4 DEF StartOf, FunctionOf, BoundInv, EntryInv
<1>7. /\ \A n \in 1..StackDepth : Starts[n] = StartOf(n)
      /\ Starts[StackDepth + 1] = base + FrameOf(current)
      /\ DOMAIN Starts = 1..StackDepth + 1 /\ Starts = [n \in 1..StackDepth + 1 |-> Starts[n]]
  BY <1>1 DEF Starts
<1>8. ASSUME NEW n \in 1..StackDepth PROVE StartOf(n) \in Int
  <2>1. n \in 1..StackDepth - 1 \/ n = StackDepth
    BY <1>1
  <2>. QED
    BY <1>2, <1>5, <1>6, <2>1
<1>9. Starts \in [1..StackDepth + 1 -> Int]
  <2>1. ASSUME NEW n \in 1..StackDepth + 1 PROVE Starts[n] \in Int
    <3>1. CASE n \in 1..StackDepth
      BY <1>7, <1>8, <3>1
    <3>2. CASE n = StackDepth + 1
      BY <1>2, <1>3, <1>7, <3>2
    <3>. QED
      BY <1>1, <3>1, <3>2
  <2>. QED
    BY <1>7, <2>1
<1>10. ASSUME NEW n \in 1..StackDepth PROVE Starts[n + 1] <= Starts[n] + FrameOf(Stack[n])
  <2>1. Stack[n] = FunctionOf(n)
    BY DEF Stack
  <2>2. CASE n = StackDepth
    <3>1. Starts[n + 1] = Starts[n] + FrameOf(Stack[n])
      BY <1>6, <1>7, <2>1, <2>2
    <3>. QED
      BY <1>2, <1>3, <1>7, <2>2, <3>1
  <2>3. CASE n # StackDepth
    <3>1. n \in 1..StackDepth - 1 /\ n + 1 \in 1..StackDepth
      BY <1>1, <2>3
    <3>. QED
      BY <1>5, <1>7, <2>1, <3>1
  <2>. QED
    BY <2>2, <2>3
<1>11. Starts[1] = 0 /\ Starts[StackDepth] = base
  <2>1. 1 \in 1..StackDepth /\ StackDepth \in 1..StackDepth
    BY <1>1
  <2>. QED
    BY <1>6, <1>7, <2>1
<1>12. sp <= base + FrameOf(current)
  BY <1>2, <1>3
<1>. QED
  BY <1>2, <1>3, <1>7, <1>9, <1>10, <1>11, <1>12 DEF Stacked

-----------------------------------------------------------------------------
(* The numbers are numbers. *)
LEMMA NeedsAreNumbers ==
  ASSUME Verified, NEW i \in Functions(container)
  PROVE  /\ CallDepthNeeded(container)[i] \in Nat
         /\ SlotsNeeded(container, stacks)[i] \in Nat
         /\ FrameOf(i) <= SlotsNeeded(container, stacks)[i]
         /\ Fn(container, i).max_call_depth \in Nat
<1>1. Graph(graph) /\ DOMAIN graph = Functions(container)
  BY CallGraphIsGraph
<1>2. CallDepthNeeded(container) = WorstCase(graph, Frames)
  BY DEF CallDepthNeeded, Frames, graph
<1>3. CallDepthNeeded(container)[i] \in Nat
  <2>1. Frames \in [DOMAIN graph -> Nat]
    BY DepthIsCharged DEF Charged
  <2>2. Sums(graph, Frames, WorstCase(graph, Frames))
    BY <1>1, <2>1, WorstCaseSums
  <2>. QED
    BY <1>1, <1>2, <2>2 DEF Sums
<1>4. SlotsNeeded(container, stacks)[i] \in Nat
  <2>1. PICK cost : /\ Charged(graph, Widest, Frames, cost)
                    /\ SlotsNeeded(container, stacks) = WorstCase(graph, cost)
    BY SlotsAreCharged
  <2>2. Sums(graph, cost, WorstCase(graph, cost))
    BY <1>1, <2>1, WorstCaseSums DEF Charged
  <2>. QED
    BY <1>1, <2>1, <2>2 DEF Sums
<1>5. FrameOf(i) <= SlotsNeeded(container, stacks)[i]
  <2>. DEFINE g == [n \in 1..1 |-> i]
              b == [n \in 1..2 |-> IF n = 1 THEN 0 ELSE FrameOf(i)]
  <2>1. Chain(graph, g, 1)
    BY <1>1 DEF Chain
  <2>2. Counted(g, 1)
    <3>. SUFFICES ASSUME NEW k \in Functions(container), ComponentCap(k) # 0
                  PROVE  Cardinality(Among(g, 1, k)) <= ComponentCap(k)
      BY DEF Counted
    <3>1. Among(g, 1, k) = IF ComponentOf(i) = k THEN {1} ELSE {}
      BY DEF Among
    <3>2. Cardinality(Among(g, 1, k)) \in {0, 1}
      BY <3>1, FS_EmptySet, FS_Singleton
    <3>3. ComponentCap(k) \in Nat
      BY CapIsNatural DEF Verified
    <3>. QED
      BY <3>2, <3>3
  <2>3. Stacked(g, 1, b)
    <3>1. FrameOf(i) \in Nat
      BY WidestFrame
    <3>. QED
      BY <3>1 DEF Stacked
  <2>4. b[1 + 1] = FrameOf(i) /\ g[1] = i
    OBVIOUS
  <2>. HIDE DEF b, g
  <2>5. b[1 + 1] <= SlotsNeeded(container, stacks)[g[1]]
    BY <2>1, <2>2, <2>3, ChainSlots
  <2>. QED
    BY <2>4, <2>5
<1>6. Fn(container, i).max_call_depth \in Nat
  <2>1. Decoded(container)
    BY AllWalked
  <2>2. Fn(container, i) \in Function
    BY <2>1, FunctionFields
  <2>3. Byte \subseteq Nat
    BY DEF Byte
  <2>. QED
    BY <2>2, <2>3 DEF Function
<1>. QED
  BY <1>3, <1>4, <1>5, <1>6

LEMMA RunsWithinDeclared == ASSUME BoundInv PROVE WithinDeclared
<1>. SUFFICES ASSUME status = "running"
              PROVE  /\ Len(frames) <= Fn(container, Live[1].fn).max_call_depth
                     /\ sp <= SlotsNeeded(container, stacks)[Live[1].fn]
  BY DEF WithinDeclared
<1>. DEFINE entry == FunctionOf(1)
            depth == CallDepthNeeded(container)[entry]
            slotsNeeded == SlotsNeeded(container, stacks)[entry]
<1>1. /\ Verified /\ StackDepth \in Nat \ {0} /\ Chain(graph, Stack, StackDepth)
      /\ Stack[1] = entry /\ entry \in Functions(container)
  BY RunningChain
<1>2. Counted(Stack, StackDepth)
  BY RunningCounted DEF Counted
<1>3. Live[1].fn = entry
  <2>1. /\ Len(frames) \in Nat
        /\ Live[Len(frames) + 1] = [fn |-> current, base |-> base, pc |-> pc]
        /\ \A n \in 1..Len(frames) :
             Live[n] = [fn |-> frames[n].function, base |-> frames[n].base,
                        pc |-> frames[n].return_pc - 2]
    BY LiveFrames DEF BoundInv, DeviceInv, CallersShape
  <2>2. CASE Len(frames) = 0
    <3>1. Live[1] = [fn |-> current, base |-> base, pc |-> pc]
      BY <2>1, <2>2
    <3>. QED
      BY <2>2, <3>1 DEF FunctionOf
  <2>3. CASE Len(frames) # 0
    <3>1. 1 \in 1..Len(frames) /\ 1 <= Len(frames)
      BY <2>1, <2>3
    <3>2. Live[1] = [fn |-> frames[1].function, base |-> frames[1].base,
                     pc |-> frames[1].return_pc - 2]
      BY <2>1, <3>1
    <3>. QED
      BY <3>1, <3>2 DEF FunctionOf
  <2>. QED
    BY <2>2, <2>3
<1>4. StackDepth <= depth
  BY <1>1, <1>2, ChainDepth
<1>5. /\ Stacked(Stack, StackDepth, Starts)
      /\ Starts[StackDepth + 1] = base + FrameOf(current)
      /\ base \in Nat /\ FrameOf(current) \in Nat /\ sp <= base + FrameOf(current)
  BY RunningStacked
<1>6. base + FrameOf(current) <= slotsNeeded
  <2>1. Starts[StackDepth + 1] <= SlotsNeeded(container, stacks)[Stack[1]]
    BY <1>1, <1>2, <1>5, ChainSlots
  <2>. QED
    BY <1>1, <1>5, <2>1
<1>7. /\ depth \in Nat /\ slotsNeeded \in Nat
      /\ Fn(container, entry).max_call_depth = depth - 1
  BY <1>1, NeedsAreNumbers, DeclaredNumbers
<1>8. StackDepth = Len(frames) + 1 /\ Len(frames) \in Nat /\ sp \in Int
  BY LenProperties, RunningTypes DEF StackDepth, BoundInv, DeviceInv, CallersShape
<1>. HIDE DEF depth, slotsNeeded, entry
<1>9. Len(frames) <= depth - 1
  BY <1>4, <1>7, <1>8
<1>10. sp <= slotsNeeded
  BY <1>5, <1>6, <1>7, <1>8
<1>. QED
  BY <1>3, <1>7, <1>9, <1>10 DEF slotsNeeded

(* However often mutually recursive functions call each other, no invocation
   nests calls deeper than max_call_depth of the record of its entry point,
   nor uses more slots than the records add up to. *)
THEOREM DeclaredBoundsHold == DeviceSpec => []WithinDeclared
<1>1. BoundInv => WithinDeclared
  BY RunsWithinDeclared
<1>. QED
  BY <1>1, BoundInvariant, PTL

-----------------------------------------------------------------------------
(* Where the running frame lies in the buffer: what an instruction takes is
   above its locals, and neither what it takes nor what it gives reaches past
   the buffer on a device large enough. *)
Room(takes, gives) ==
  LET locals == Len(Fn(container, current).local_types)
  IN  /\ base \in Nat /\ locals \in Nat /\ sp \in Nat
      /\ takes \in Nat /\ gives \in Nat
      /\ base + locals <= sp - takes
      /\ sp <= MaxSlots
      /\ sp - takes + gives <= MaxSlots

LEMMA RunningRoom ==
  ASSUME BoundInv, status = "running", Fits
  PROVE  Room(Len(Takes(container, current, pc, shapes[current][pc])),
              Len(Gives(container, current, pc, shapes[current][pc])))
<1>. DEFINE stack  == shapes[current][pc]
            takes  == Len(Takes(container, current, pc, stack))
            gives  == Len(Gives(container, current, pc, stack))
            locals == Len(Fn(container, current).local_types)
            entry  == FunctionOf(1)
            needed == SlotsNeeded(container, stacks)[entry]
<1>1. /\ Verified /\ StackDepth \in Nat \ {0} /\ Chain(graph, Stack, StackDepth)
      /\ Stack[1] = entry /\ entry \in Functions(container)
      /\ Fn(container, entry).invocable
  BY RunningChain
<1>2. /\ Stacked(Stack, StackDepth, Starts)
      /\ Starts[StackDepth + 1] = base + FrameOf(current)
      /\ base \in Nat /\ FrameOf(current) \in Nat /\ sp <= base + FrameOf(current)
  BY RunningStacked
<1>3. Counted(Stack, StackDepth)
  BY RunningCounted DEF Counted
<1>4. base + FrameOf(current) <= needed
  <2>1. Starts[StackDepth + 1] <= SlotsNeeded(container, stacks)[Stack[1]]
    BY <1>1, <1>2, <1>3, ChainSlots
  <2>. QED
    BY <1>1, <1>2, <2>1
<1>5. needed <= MaxSlots /\ needed \in Nat /\ MaxSlots \in Nat
  BY <1>1, NeedsAreNumbers, VmAssumption DEF Fits
<1>6. /\ current \in Functions(container) /\ pc \in DOMAIN shapes[current]
      /\ sp = base + FrameSize(current, pc)
  BY DEF BoundInv, DeviceInv, RunningShape
<1>7. /\ Len(stack) \in Nat /\ takes \in 0..Len(stack) /\ gives \in Nat
  BY <1>1, <1>6, TypedInstruction DEF Verified
<1>8. locals \in Nat
  BY <1>1, <1>6, FunctionLocals DEF Verified
<1>9. Len(stack) - takes + gives <= stacks[current] /\ stacks[current] \in Nat
  <2>1. current < index
    BY <1>1, <1>6, AllWalked
  <2>2. Len(Effect(container, current, pc, stack)) <= stacks[current]
    BY <1>1, <1>6, <2>1 DEF Verified, VerifyInv, WalkIsSound
  <2>3. Len(Effect(container, current, pc, stack)) = Len(stack) - takes + gives
    <3>1. /\ Decoded(container) /\ RegionsTile(container)
      BY <1>1, <1>6, AllWalked
    <3>2. /\ pc \in Region(container, current)
          /\ StepRefusal(container, current, pc, stack) = "none"
          /\ stack \in Seq(ValueType)
      BY <1>1, <1>6, TypedInstruction DEF Verified
    <3>. QED
      BY <1>6, <3>1, <3>2, EffectType
  <2>4. stacks[current] \in Nat
    BY <1>1, <1>6 DEF Verified, VerifyInv, VerifyTypeOK
  <2>. QED
    BY <2>2, <2>3, <2>4
<1>10. /\ sp = base + (locals + Len(stack))
       /\ base + (locals + stacks[current]) <= needed
  BY <1>4, <1>6 DEF FrameSize, FrameOf
<1>. DEFINE deep == Len(stack)
            most == stacks[current]
<1>. HIDE DEF takes, gives, locals, needed, deep, most
<1>12. deep \in Nat /\ takes \in 0..deep /\ most \in Nat /\ deep - takes + gives <= most
       /\ sp = base + (locals + deep) /\ base + (locals + most) <= needed
  BY <1>7, <1>9, <1>10 DEF deep, most
<1>11. sp <= needed
  BY ONLY <1>2, <1>4, <1>5, <1>8, <1>12
<1>13. /\ sp \in Nat /\ takes \in Nat /\ base + locals <= sp - takes
       /\ sp <= MaxSlots /\ sp - takes + gives <= MaxSlots
  BY <1>2, <1>5, <1>7, <1>8, <1>11, <1>12
<1>. QED
  BY <1>2, <1>7, <1>8, <1>13 DEF Room, takes, gives, locals

(* A call that the counter lets through is one more link of the chain. *)
Entered(E) == [n \in 1..StackDepth + 1 |-> IF n <= StackDepth THEN FunctionOf(n) ELSE E]
EnteredStarts(E) ==
  LET low == sp - Fn(container, E).param_count
  IN  [n \in 1..StackDepth + 2 |-> IF n <= StackDepth THEN StartOf(n)
                              ELSE IF n = StackDepth + 1 THEN low ELSE low + FrameOf(E)]

LEMMA EnteredChain ==
  ASSUME BoundInv, status = "running", Name = "call", ~OverCap
  PROVE  /\ Arg \in Functions(container)
         /\ Chain(graph, Entered(Arg), StackDepth + 1)
         /\ Counted(Entered(Arg), StackDepth + 1)
         /\ Stacked(Entered(Arg), StackDepth + 1, EnteredStarts(Arg))
<1>. DEFINE E == Arg
            g == Entered(E)
            M == StackDepth + 1
<1>1. /\ Verified /\ StackDepth \in Nat \ {0} /\ Chain(graph, Stack, StackDepth)
      /\ Stack[StackDepth] = current
  BY RunningChain
<1>2. /\ Stacked(Stack, StackDepth, Starts)
      /\ base \in Nat /\ FrameOf(current) \in Nat /\ sp <= base + FrameOf(current)
      /\ Starts[StackDepth] = base
  BY RunningStacked
<1>3. E \in Functions(container)
  BY LookedUp DEF BoundInv
<1>4. /\ current \in Functions(container) /\ pc \in DOMAIN shapes[current]
  BY DEF BoundInv, DeviceInv, RunningShape
<1>5. E \in graph[current] /\ DOMAIN graph = Functions(container)
  BY <1>1, <1>4, CallGraphIsGraph DEF Name, Arg
<1>6. /\ M \in Nat \ {0} /\ g[M] = E
      /\ \A n \in 1..StackDepth : n \in 1..M /\ g[n] = Stack[n] /\ n <= StackDepth
      /\ M \in 1..M /\ ~(M <= StackDepth) /\ g = [n \in 1..M |-> g[n]]
      /\ \A n \in 1..M : n \in 1..StackDepth \/ n = M
  BY <1>1 DEF Entered, Stack
<1>. HIDE DEF g, E
<1>7. Chain(graph, g, M)
  <2>1. \A n \in 1..StackDepth : Stack[n] \in DOMAIN graph
    BY <1>1 DEF Chain
  <2>2. \A n \in 1..M : g[n] \in DOMAIN graph
    BY <1>3, <1>5, <1>6, <2>1
  <2>3. g \in [1..M -> DOMAIN graph]
    BY <1>6, <2>2
  <2>4. ASSUME NEW n \in 1..M - 1 PROVE g[n + 1] \in graph[g[n]]
    <3>1. CASE n = StackDepth
      <4>1. n + 1 = M /\ g[n + 1] = E
        BY <1>6, <3>1
      <4>2. g[n] = current
        <5>1. StackDepth \in 1..StackDepth
          BY <1>1
        <5>. QED
          BY <1>1, <1>6, <3>1, <5>1
      <4>. QED
        BY <1>5, <4>1, <4>2
    <3>2. CASE n # StackDepth
      <4>1. n \in 1..StackDepth - 1 /\ n \in 1..StackDepth /\ n + 1 \in 1..StackDepth
        BY <1>1, <3>2
      <4>2. Stack[n + 1] \in graph[Stack[n]]
        BY <1>1, <4>1 DEF Chain
      <4>. QED
        BY <1>6, <4>1, <4>2
    <3>. QED
      BY <3>1, <3>2
  <2>. QED
    BY <2>3, <2>4 DEF Chain
<1>8. Counted(g, M)
  <2>. SUFFICES ASSUME NEW k \in Functions(container), ComponentCap(k) # 0
                PROVE  Cardinality(Among(g, M, k)) <= ComponentCap(k)
    BY DEF Counted
  <2>1. /\ Among(Stack, StackDepth, k) = FramesOf(k)
        /\ IsFiniteSet(FramesOf(k)) /\ Cardinality(FramesOf(k)) \in Nat
        /\ counters[k] = Cardinality(FramesOf(k))
        /\ counters[k] <= ComponentCap(k)
    BY RunningCounted
  <2>2. Among(g, M, k) = Among(Stack, StackDepth, k) \cup {n \in {M} : ComponentOf(E) = k}
    BY <1>6 DEF Among
  <2>3. CASE ComponentOf(E) # k
    <3>1. Among(g, M, k) = FramesOf(k)
      BY <2>1, <2>2, <2>3
    <3>. QED
      BY <2>1, <3>1
  <2>4. CASE ComponentOf(E) = k
    <3>1. Among(g, M, k) = FramesOf(k) \cup {M}
      BY <2>1, <2>2, <2>4
    <3>2. M \notin FramesOf(k)
      BY <1>1, <1>6, <2>1 DEF Among
    <3>3. Cardinality(Among(g, M, k)) = Cardinality(FramesOf(k)) + 1
      BY <2>1, <3>1, <3>2, FS_AddElement
    <3>4. ~(counters[k] + 1 > ComponentCap(k))
      BY <2>4 DEF OverCap, Callee, ComponentOf, E
    <3>5. ComponentCap(k) \in Nat
      BY <1>1, CapIsNatural DEF Verified
    <3>. QED
      BY <2>1, <3>3, <3>4, <3>5
  <2>. QED
    BY <2>3, <2>4
<1>9. Stacked(g, M, EnteredStarts(E))
  <2>. DEFINE b   == EnteredStarts(E)
              low == sp - Fn(container, E).param_count
  <2>1. /\ M + 1 = StackDepth + 2
        /\ \A n \in 1..StackDepth : b[n] = Starts[n]
        /\ b[M] = low /\ b[M + 1] = low + FrameOf(E)
        /\ b = [n \in 1..M + 1 |-> b[n]]
    BY <1>1 DEF EnteredStarts, Starts
  <2>2. low \in Int /\ low <= sp
    <3>1. Fn(container, E).param_count \in Nat
      BY <1>1, <1>3, FunctionLocals DEF Verified
    <3>2. sp \in Int
      BY RunningTypes DEF BoundInv
    <3>. QED
      BY <3>1, <3>2
  <2>3. FrameOf(E) \in Nat
    BY <1>1, <1>3, WidestFrame
  <2>. HIDE DEF b, low
  <2>4. \A n \in 1..StackDepth : Starts[n] \in Int
    BY <1>1, <1>2 DEF Stacked
  <2>5. b \in [1..M + 1 -> Int]
    <3>1. ASSUME NEW n \in 1..M + 1 PROVE b[n] \in Int
      <4>1. CASE n \in 1..StackDepth
        BY <2>1, <2>4, <4>1
      <4>2. CASE n = M \/ n = M + 1
        BY <2>1, <2>2, <2>3, <4>2
      <4>. QED
        BY <1>1, <4>1, <4>2
    <3>. QED
      BY <2>1, <3>1
  <2>6. b[1] = 0
    <3>1. 1 \in 1..StackDepth
      BY <1>1
    <3>. QED
      BY <1>2, <2>1, <3>1 DEF Stacked
  <2>7. ASSUME NEW n \in 1..M PROVE b[n + 1] <= b[n] + FrameOf(g[n])
    <3>1. CASE n = M
      BY <1>6, <2>1, <2>2, <2>3, <3>1
    <3>2. CASE n = StackDepth
      <4>1. b[n + 1] = low /\ b[n] = base /\ g[n] = current
        BY <1>1, <1>2, <1>6, <2>1, <3>2
      <4>2. sp \in Int
        BY RunningTypes DEF BoundInv
      <4>. QED
        BY <1>2, <2>2, <4>1, <4>2
    <3>3. CASE n # M /\ n # StackDepth
      <4>1. n \in 1..StackDepth /\ n + 1 \in 1..StackDepth
        BY <1>1, <3>3
      <4>2. Starts[n + 1] <= Starts[n] + FrameOf(Stack[n])
        BY <1>2, <4>1 DEF Stacked
      <4>. QED
        BY <1>6, <2>1, <4>1, <4>2
    <3>. QED
      BY <3>1, <3>2, <3>3
  <2>. QED
    BY <2>5, <2>6, <2>7 DEF Stacked, b
<1>. QED
  BY <1>3, <1>7, <1>8, <1>9 DEF g, E

(* The callee's locals fit the buffer, and its return the array of frames. *)
LEMMA EnteredRoom ==
  ASSUME BoundInv, status = "running", Name = "call", ~OverCap, Fits
  PROVE  /\ Len(frames) < MaxCallDepth
         /\ sp - Callee.param_count + Len(Callee.local_types) <= MaxSlots
<1>. DEFINE entry == FunctionOf(1)
            depth == CallDepthNeeded(container)[entry]
            needed == SlotsNeeded(container, stacks)[entry]
            params == Callee.param_count
            locals == Len(Callee.local_types)
<1>1. /\ Verified /\ StackDepth \in Nat \ {0}
      /\ entry \in Functions(container) /\ Fn(container, entry).invocable
  BY RunningChain
<1>2. /\ Arg \in Functions(container)
      /\ Chain(graph, Entered(Arg), StackDepth + 1)
      /\ Counted(Entered(Arg), StackDepth + 1)
      /\ Stacked(Entered(Arg), StackDepth + 1, EnteredStarts(Arg))
  BY EnteredChain
<1>3. Entered(Arg)[1] = entry /\ StackDepth + 1 \in Nat \ {0}
  BY <1>1 DEF Entered
<1>4. StackDepth + 1 <= depth
  BY <1>1, <1>2, <1>3, ChainDepth
<1>5. EnteredStarts(Arg)[(StackDepth + 1) + 1] <= needed
  BY <1>1, <1>2, <1>3, ChainSlots
<1>6. EnteredStarts(Arg)[(StackDepth + 1) + 1] = sp - params + FrameOf(Arg)
  <2>1. (StackDepth + 1) + 1 = StackDepth + 2 /\ StackDepth + 2 \in 1..StackDepth + 2
        /\ ~(StackDepth + 2 <= StackDepth) /\ StackDepth + 2 # StackDepth + 1
    BY <1>1
  <2>. QED
    BY <2>1 DEF EnteredStarts, Callee
<1>7. /\ depth \in Nat /\ depth - 1 <= MaxCallDepth /\ MaxCallDepth \in Nat
      /\ needed \in Nat /\ needed <= MaxSlots /\ MaxSlots \in Nat
  BY <1>1, NeedsAreNumbers, VmAssumption DEF Fits
<1>8. /\ StackDepth = Len(frames) + 1 /\ Len(frames) \in Nat
      /\ sp \in Int
  BY RunningTypes, LenProperties DEF StackDepth, BoundInv, DeviceInv, CallersShape
<1>9. params \in Nat /\ locals \in Nat /\ stacks[Arg] \in Nat /\ FrameOf(Arg) = locals + stacks[Arg]
  BY <1>1, <1>2, FunctionLocals DEF Verified, VerifyInv, VerifyTypeOK, FrameOf, Callee
<1>. HIDE DEF entry, depth, needed, params, locals
<1>10. Len(frames) < MaxCallDepth
  BY <1>4, <1>7, <1>8
<1>11. sp - params + locals <= MaxSlots
  BY <1>5, <1>6, <1>7, <1>8, <1>9
<1>. QED
  BY <1>10, <1>11 DEF params, locals

-----------------------------------------------------------------------------
(* No access strays on a device large enough. *)
LEMMA StaysInSlots ==
  ASSUME BoundInv, status = "running", Fits
  PROVE  Touched \subseteq Slot
<1>. DEFINE stack  == shapes[current][pc]
            takes  == Len(Takes(container, current, pc, stack))
            gives  == Len(Gives(container, current, pc, stack))
            locals == Len(Fn(container, current).local_types)
<1>1. /\ base \in Nat /\ locals \in Nat /\ sp \in Nat
      /\ takes \in Nat /\ gives \in Nat
      /\ base + locals <= sp - takes
      /\ sp <= MaxSlots
      /\ sp - takes + gives <= MaxSlots
  BY RunningRoom DEF Room
<1>2. MaxSlots \in Nat
  BY VmAssumption
<1>3. stack \in Seq(ValueType)
  BY RunningTypes DEF BoundInv
<1>4. ASSUME Name \in {"load.l", "store.l", "loop.guard"}
      PROVE  Arg \in 0..locals - 1
  BY <1>4, LookedUp DEF BoundInv, LocalsOf
<1>. DEFINE low == sp - takes
            taken == low..sp - 1 \cup low..low + gives - 1
            local == {n \in Int : base <= n /\ n < base + locals}
<1>5. taken \subseteq Slot /\ local \subseteq Slot
  <2>. HIDE DEF takes, gives, locals
  <2>. QED
    BY <1>1, <1>2 DEF Slot
<1>6. Arg \in 0..locals - 1 => base + Arg \in local
  <2>. HIDE DEF locals
  <2>. QED
    BY <1>1
<1>7. CASE Name = "load.l"
  <2>1. Touched = {base + Arg, sp}
    BY <1>7 DEF Touched, Predicate, ConstState, Polymorphic, Return
  <2>2. takes = 0 /\ gives = 1
    BY <1>3, <1>7, TableCounts DEF Name
  <2>3. sp \in taken
    BY <1>1, <2>2
  <2>. QED
    BY <1>4, <1>5, <1>6, <1>7, <2>1, <2>3
<1>8. CASE Name = "store.l"
  <2>1. Touched = {base + Arg, sp - 1}
    BY <1>8 DEF Touched, Predicate, ConstState, Polymorphic, Return
  <2>2. takes = 1 /\ gives = 0
    BY <1>3, <1>8, TableCounts DEF Name
  <2>3. sp - 1 \in taken
    BY <1>1, <2>2
  <2>. QED
    BY <1>4, <1>5, <1>6, <1>8, <2>1, <2>3
<1>9. CASE Name = "loop.guard"
  <2>1. Touched = {base + Arg}
    BY <1>9 DEF Touched, Predicate, ConstState, Polymorphic, Return
  <2>. QED
    BY <1>4, <1>5, <1>6, <1>9, <2>1
<1>10. CASE Name \in {"load.h"} \cup ConstState
  <2>1. Touched = {sp}
    BY <1>10 DEF Touched, Predicate, ConstState, Polymorphic, Return
  <2>2. takes = 0 /\ gives = 1
    BY <1>3, <1>10, TableCounts DEF Name
  <2>3. sp \in taken
    BY <1>1, <2>2
  <2>. QED
    BY <1>5, <2>1, <2>3
<1>11. CASE Name \in {"store.h"} \cup Predicate
  <2>1. Touched = {sp - 1}
    BY <1>11 DEF Touched, Predicate, ConstState, Polymorphic, Return
  <2>2. takes = 1
    BY <1>3, <1>11, TableCounts DEF Name
  <2>3. sp - 1 \in taken
    BY <1>1, <2>2
  <2>. QED
    BY <1>5, <2>1, <2>3
<1>12. CASE Name = "call.h"
  <2>1. /\ Takes(container, current, pc, stack) = Imp.param_types
        /\ Gives(container, current, pc, stack) = IF Imp.type = VOID THEN <<>> ELSE <<Imp.type>>
    BY <1>12 DEF Takes, Gives, Name, Imp, Arg, Predicate, ConstState
  <2>2. Imp.type # VOID => gives = 1
    BY <2>1
  <2>3. takes = Len(Imp.param_types)
    BY <2>1
  <2>4. Touched = low..sp - 1 \cup (IF Imp.type = VOID THEN {} ELSE {low})
    BY <1>12, <2>3 DEF Touched, Predicate, ConstState, Polymorphic, Return
  <2>5. Imp.type # VOID => low \in taken
    BY <1>1, <2>2
  <2>. HIDE DEF low
  <2>. QED
    BY <1>5, <2>4, <2>5
<1>13. CASE Name = "dup"
  <2>1. Touched = {sp - 1, sp}
    BY <1>13 DEF Touched, Predicate, ConstState, Polymorphic, Return
  <2>2. takes = 1 /\ gives = 2
    BY <1>3, <1>13, TableCounts DEF Name
  <2>3. sp - 1 \in taken /\ sp \in taken
    BY <1>1, <2>2
  <2>. QED
    BY <1>5, <2>1, <2>3
<1>14. CASE Name = "else"
  <2>1. Touched = {sp - 2, sp - 1}
    BY <1>14 DEF Touched, Predicate, ConstState, Polymorphic, Return
  <2>2. takes = 2
    BY <1>3, <1>14, TableCounts DEF Name
  <2>3. sp - 1 \in taken /\ sp - 2 \in taken
    BY <1>1, <2>2
  <2>. QED
    BY <1>5, <2>1, <2>3
<1>15. CASE Name = "call"
  <2>1. Touched = IF OverCap THEN {}
                  ELSE sp..sp + Len(Callee.local_types) - Callee.param_count - 1
    BY <1>15 DEF Touched, Predicate, ConstState, Polymorphic, Return
  <2>2. CASE OverCap
    BY <2>1, <2>2
  <2>3. CASE ~OverCap
    <3>. DEFINE size == Len(Callee.local_types)
                params == Callee.param_count
    <3>1. sp - params + size <= MaxSlots
      BY <1>15, <2>3, EnteredRoom
    <3>2. size \in Nat /\ params \in Nat
      <4>1. Arg \in Functions(container)
        BY <1>15, LookedUp DEF BoundInv
      <4>. QED
        BY <4>1, FunctionLocals DEF BoundInv, DeviceInv, Callee
    <3>3. Touched = sp..sp + size - params - 1
      BY <2>1, <2>3
    <3>. HIDE DEF size, params
    <3>. QED
      BY <1>1, <1>2, <3>1, <3>2, <3>3 DEF Slot
  <2>. QED
    BY <2>2, <2>3
<1>16. CASE Name = "ret_v"
  <2>1. Touched = {sp - 1} \cup (IF frames = <<>> THEN {} ELSE {base})
    BY <1>16 DEF Touched, Predicate, ConstState, Polymorphic, Return
  <2>2. takes = 1
    <3>1. Takes(container, current, pc, stack) = <<Fn(container, current).return_type>>
      BY <1>16 DEF Takes, Name, Predicate
    <3>. QED
      BY <3>1
  <2>3. sp - 1 \in taken
    BY <1>1, <2>2
  <2>4. base \in Slot
    <3>. HIDE DEF takes, gives, locals
    <3>. QED
      BY <1>1, <1>2, <2>2 DEF Slot
  <2>. QED
    BY <1>5, <2>1, <2>3, <2>4
<1>17. CASE Name \in {"drop", "ret"}
  <2>1. Touched = {}
    BY <1>17 DEF Touched, Predicate, ConstState, Polymorphic, Return
  <2>. QED
    BY <2>1
<1>18. CASE Name \notin Polymorphic
  <2>1. /\ Takes(container, current, pc, stack) = Pops(Name)
        /\ Gives(container, current, pc, stack) = Pushes(Name)
    BY <1>18 DEF Takes, Gives, Name, Polymorphic, Return
  <2>2. Touched = LET down == sp - Len(Pops(Name))
                  IN  down..sp - 1 \cup down..down + Len(Pushes(Name)) - 1
    BY <1>18 DEF Touched, Predicate, ConstState, Polymorphic, Return
  <2>3. Touched = taken
    BY <2>1, <2>2
  <2>. QED
    BY <1>5, <2>3
<1>. QED
  BY <1>7, <1>8, <1>9, <1>10, <1>11, <1>12, <1>13, <1>14, <1>15, <1>16, <1>17, <1>18
  DEF Polymorphic, Return

LEMMA StaysInTables ==
  ASSUME BoundInv, status = "running", Fits, PoolSound
  PROVE  InCode /\ InTables
<1>1. /\ Verified /\ current \in Functions(container) /\ pc \in DOMAIN shapes[current]
  BY DEF BoundInv, DeviceInv, Verified, RunningShape
<1>2. Decoded(container) /\ RegionsTile(container)
  BY <1>1, AllWalked
<1>3. /\ pc \in Region(container, current) /\ pc \in Nat
      /\ StepRefusal(container, current, pc, shapes[current][pc]) = "none"
  BY <1>1, TypedInstruction DEF Verified
<1>4. /\ ~(After(container, pc) > End(container, current))
      /\ LookupRefusal(container, current, pc) = "none"
  BY <1>3, StepPasses
<1>5. /\ Start(container, current) \in Nat /\ End(container, current) \in Nat
      /\ End(container, current) <= Len(container.code)
      /\ Len(container.code) \in Nat
  BY <1>1, <1>2, RegionInCode, LenProperties DEF Decoded, DecodedContainer
<1>6. Size(Name) \in Nat
  BY SizeType
<1>7. InCode
  BY <1>3, <1>5 DEF InCode, Region
<1>8. pc + Size(Name) <= Len(container.code)
  BY <1>3, <1>4, <1>5, <1>6 DEF After, Name
<1>9. ASSUME Name \in Pool
      PROVE  /\ Arg < Len(container.constants)
             /\ Name = "const.i64" => At(container.constants, Arg).type = I64
  <2>1. /\ Arg < Len(container.constants)
        /\ Pushes(Name) = <<At(container.constants, Arg).type>>
    BY <1>1, <1>9 DEF PoolSound, Name, Arg
  <2>2. Name = "const.i64" => Pushes(Name) = <<I64>>
    BY DEF Pushes, ArithI32, DivRemI32, Bitwise32, Shift32, UnaryI32, ArithI64, DivRemI64,
       ArithF32, CompareI32, CompareI64, CompareF32
  <2>3. Name = "const.i64" => At(container.constants, Arg).type = I64
    BY <2>1, <2>2
  <2>. QED
    BY <2>1, <2>3
<1>10. Name \in {"load.h", "store.h", "call.h"} => Arg < Len(container.imports)
  BY <1>4 DEF LookupRefusal, InImports, Name, Arg, ConstState
<1>11. ASSUME Name = "call"
       PROVE  Arg < Len(container.functions) /\ (OverCap \/ Len(frames) < MaxCallDepth)
  <2>1. Arg < Len(container.functions)
    BY <1>4, <1>11 DEF LookupRefusal, InFunctions, Name, Arg, ConstState
  <2>2. OverCap \/ Len(frames) < MaxCallDepth
    BY <1>11, EnteredRoom
  <2>. QED
    BY <2>1, <2>2
<1>12. Name = "const.i64" => Name \in Pool
  BY DEF Pool
<1>. QED
  BY <1>7, <1>8, <1>9, <1>10, <1>11, <1>12 DEF InTables

LEMMA StrayCause ==
  ASSUME BoundInv, status = "running", Step, status' = "stray"
  PROVE  ~Fits \/ ~PoolSound
<1>1. Stray
  <2>1. ~Leave /\ ~Continues /\ ~(status' = status)
    BY DEF Leave, Continues
  <2>2. ~Control
    BY <2>1, ControlSteps, RunningTypes DEF BoundInv
  <2>3. ~(Constants \/ Movement \/ Core32 \/ Core64 \/ Floating \/ Logic)
    BY <2>1, MoveSteps, RunningTypes DEF BoundInv
  <2>4. ~Default
    BY <2>1 DEF Default
  <2>. QED
    BY <2>2, <2>3, <2>4 DEF Step
<1>2. ~InCode \/ ~InBounds
  BY <1>1 DEF Stray
<1>. QED
  BY <1>2, StaysInSlots, StaysInTables DEF InBounds

LEMMA InvokeStray ==
  ASSUME BoundInv, NEW entry \in Functions(container), Invoke(entry), status' = "stray"
  PROVE  ~Fits
<1>1. /\ Len(Fn(container, entry).local_types) > MaxSlots
      /\ Fn(container, entry).invocable /\ status = "idle"
  BY DEF Invoke
<1>2. Verified
  BY <1>1 DEF BoundInv, DeviceInv, Verified
<1>3. /\ FrameOf(entry) <= SlotsNeeded(container, stacks)[entry]
      /\ SlotsNeeded(container, stacks)[entry] \in Nat
  BY <1>2, NeedsAreNumbers
<1>4. /\ FrameOf(entry) = Len(Fn(container, entry).local_types) + stacks[entry]
      /\ Len(Fn(container, entry).local_types) \in Nat /\ stacks[entry] \in Nat
  BY <1>2, FunctionLocals DEF Verified, VerifyInv, VerifyTypeOK, FrameOf
<1>5. MaxSlots \in Nat
  BY VmAssumption
<1>6. ~(SlotsNeeded(container, stacks)[entry] <= MaxSlots)
  BY <1>1, <1>3, <1>4, <1>5
<1>. QED
  BY <1>1, <1>6 DEF Fits

LEMMA MemoryNext ==
  ASSUME BoundInv, MemorySafe, [DeviceNext]_deviceVars
  PROVE  MemorySafe'
<1>1. CASE status' # "stray"
  BY <1>1 DEF MemorySafe
<1>2. CASE Verifying
  <2>1. status' = "unloaded"
    BY <1>2, VerifyingPending DEF Verifying, BoundInv, DeviceInv, vmVars
  <2>. QED
    BY <2>1 DEF MemorySafe
<1>3. ASSUME UNCHANGED verifyVars
      PROVE  /\ UNCHANGED <<container, shapes, stacks>>
             /\ Fits' = Fits /\ PoolSound' = PoolSound
  BY <1>3 DEF verifyVars, Fits, PoolSound
<1>4. CASE status' = status /\ UNCHANGED verifyVars
  BY <1>3, <1>4 DEF MemorySafe
<1>5. CASE Running
  <2>1. UNCHANGED verifyVars /\ VmNext
    BY <1>5 DEF Running
  <2>2. CASE Load
    BY <1>1, <2>2 DEF Load
  <2>3. CASE \E entry \in Functions(container) : Invoke(entry)
    BY <1>1, <1>3, <2>1, <2>3, InvokeStray DEF MemorySafe
  <2>4. CASE InvokeUnknown
    BY <1>4, <2>1, <2>4 DEF InvokeUnknown
  <2>5. CASE Step
    BY <1>1, <1>3, <2>1, <2>5, StrayCause, StepRuns DEF MemorySafe
  <2>. QED
    BY <2>1, <2>2, <2>3, <2>4, <2>5 DEF VmNext
<1>6. CASE UNCHANGED deviceVars
  BY <1>4, <1>6 DEF deviceVars, vmVars
<1>. QED
  BY <1>2, <1>5, <1>6 DEF DeviceNext

(* The interpreter checks no bound, and needs none: whatever the host answers,
   an accepted container whose entry points the build is large enough for, and
   whose pool instructions name entries of their type, never makes it touch a
   byte of code, a slot, a table entry or a frame that is not there. *)
THEOREM MemoryIsSafe == DeviceSpec => []MemorySafe
<1>1. DeviceInit => MemorySafe
  BY DEF DeviceInit, VmInit, MemorySafe
<1>2. BoundInv /\ MemorySafe /\ [DeviceNext]_deviceVars => MemorySafe'
  BY MemoryNext
<1>. QED
  BY <1>1, <1>2, BoundInvariant, PTL DEF DeviceSpec
=============================================================================
