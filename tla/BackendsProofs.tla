--------------------------- MODULE BackendsProofs ---------------------------
(***************************************************************************)
(* What the two lowerings of a verified container keep between them, for   *)
(* every container, every build and whatever the host answers: the static  *)
(* counters of the C count its activations, and between two instructions   *)
(* the interpreter and the C hold the same values in the same frames.      *)
(***************************************************************************)
EXTENDS Backends, BoundProofs

-----------------------------------------------------------------------------
(* An activation of a C function: the variables it declares. *)
Activation(a) ==
  /\ a = [function |-> a.function, pc |-> a.pc, local |-> a.local, slot |-> a.slot]
  /\ DOMAIN a.local = 0..Len(LocalsOf(a.function)) - 1
  /\ DOMAIN a.slot = 0..Fn(container, a.function).max_stack - 1

(* Activations nest, and there are some just while the host's call lasts. *)
NestInv ==
  /\ \E S : activations \in Seq(S)
  /\ \A n \in 1..Len(activations) : Activation(activations[n])
  /\ label \in {"idle", "prologue", "body", "done"}
  /\ label = "idle" <=> activations = <<>>
  /\ recursion \in [Functions(container) -> Int]
  /\ ok \in BOOLEAN /\ (ok => label = "done")

(* The activations of component k that have passed their prologue. *)
Passed(k) ==
  {n \in DOMAIN activations :
     /\ Fn(container, activations[n].function).component = k
     /\ label = "prologue" => n < Len(activations)}

LEMMA Nested ==
  ASSUME NestInv
  PROVE  /\ Len(activations) \in Nat /\ DOMAIN activations = 1..Len(activations)
         /\ label # "idle" => /\ Len(activations) >= 1
                              /\ Innermost = activations[Len(activations)]
                              /\ Activation(Innermost)
<1>1. PICK S : activations \in Seq(S)
  BY DEF NestInv
<1>2. Len(activations) \in Nat /\ DOMAIN activations = 1..Len(activations)
  BY <1>1, LenProperties
<1>3. ASSUME label # "idle"
      PROVE  /\ Len(activations) >= 1
             /\ Innermost = activations[Len(activations)]
             /\ Activation(Innermost)
  <2>1. activations # <<>>
    BY <1>3 DEF NestInv
  <2>2. Len(activations) \in Nat \ {0} /\ Innermost = activations[Len(activations)]
    BY <1>1, <2>1, FrontLast DEF Innermost
  <2>. QED
    BY <2>2 DEF NestInv
<1>. QED
  BY <1>2, <1>3

(* An activation with a variable assigned is one of the same function. *)
Like(f, a) == Activation(f) /\ f.function = a.function

LEMMA Assigned ==
  ASSUME NEW a, Activation(a)
  PROVE  /\ \A p : Like([a EXCEPT !.pc = p], a)
         /\ \A d, v : /\ Like([a EXCEPT !.slot[d] = v], a)
                      /\ Like([a EXCEPT !.local[d] = v], a)
<1>1. /\ \A x : [a EXCEPT !.pc = x] = [function |-> a.function, pc |-> x, local |-> a.local,
                                       slot |-> a.slot]
      /\ \A x : [a EXCEPT !.slot = x] = [function |-> a.function, pc |-> a.pc,
                                         local |-> a.local, slot |-> x]
      /\ \A x : [a EXCEPT !.local = x] = [function |-> a.function, pc |-> a.pc,
                                          local |-> x, slot |-> a.slot]
  BY DEF Activation
<1>2. ASSUME NEW x, DOMAIN x = DOMAIN a.slot
      PROVE  Like([a EXCEPT !.slot = x], a)
  BY <1>1, <1>2 DEF Activation, Like
<1>3. ASSUME NEW x, DOMAIN x = DOMAIN a.local
      PROVE  Like([a EXCEPT !.local = x], a)
  BY <1>1, <1>3 DEF Activation, Like
<1>4. ASSUME NEW d, NEW v
      PROVE  /\ Like([a EXCEPT !.slot[d] = v], a)
             /\ Like([a EXCEPT !.local[d] = v], a)
  <2>1. /\ DOMAIN [a.slot EXCEPT ![d] = v] = DOMAIN a.slot
        /\ DOMAIN [a.local EXCEPT ![d] = v] = DOMAIN a.local
    OBVIOUS
  <2>2. /\ [a EXCEPT !.slot[d] = v] = [a EXCEPT !.slot = [a.slot EXCEPT ![d] = v]]
        /\ [a EXCEPT !.local[d] = v] = [a EXCEPT !.local = [a.local EXCEPT ![d] = v]]
    OBVIOUS
  <2>. QED
    BY <1>2, <1>3, <2>1, <2>2
<1>5. \A p : Like([a EXCEPT !.pc = p], a)
  BY <1>1 DEF Activation, Like
<1>. QED
  BY <1>4, <1>5

(* What a call of function i declares. *)
LEMMA Declares ==
  ASSUME NEW i, NEW arguments
  PROVE  /\ Activation(Declared(i, arguments))
         /\ Declared(i, arguments).function = i
         /\ Declared(i, arguments).pc = Fn(container, i).code_offset
BY DEF Activation, Declared, LocalsOf

-----------------------------------------------------------------------------
(* What a statement does to the activations: it assigns a variable of the
   innermost, leaves its body, or calls. *)
Assigns ==
  /\ \E f : Like(f, Innermost) /\ Becomes(f)
  /\ UNCHANGED <<label, ok>>

Leaves == label' = "done" /\ ok' \in BOOLEAN /\ UNCHANGED activations

CallsOn ==
  /\ \E f : Activation(f) /\ activations' = Append(activations, f)
  /\ label' = "prologue" /\ ok' = ok

LEMMA ThenAssigns ==
  ASSUME NestInv, label = "body", NEW f, Like(f, Innermost), NEW p, OnTo(f, p)
  PROVE  Assigns /\ recursion' = recursion
<1>1. Like([f EXCEPT !.pc = p], f)
  BY Assigned DEF Like
<1>. QED
  BY <1>1 DEF OnTo, Assigns, Like

LEMMA BodyCases ==
  ASSUME NestInv, UNCHANGED container, NEW given, Body(given)
  PROVE  /\ label = "body" /\ recursion' = recursion
         /\ Assigns \/ Leaves \/ CallsOn
<1>1. label = "body"
  BY DEF Body, Compute, Move, ReadHost, WriteHost, CallHost, Guard, Goto, CallFunction,
     ReturnFrom, Executing
<1>2. Activation(Innermost)
  BY <1>1, Nested
<1>. DEFINE goal == recursion' = recursion /\ (Assigns \/ Leaves \/ CallsOn)
<1>3. ASSUME NEW kind, Raise(kind) PROVE goal
  BY <1>3 DEF Raise, Leaves, NestInv
<1>4. ASSUME NEW d, NEW v, NEW p
      PROVE  /\ OnTo(Innermost, p) => goal
             /\ OnTo([Innermost EXCEPT !.slot[d] = v], p) => goal
             /\ OnTo([Innermost EXCEPT !.local[d] = v], p) => goal
  <2>1. /\ Like([Innermost EXCEPT !.slot[d] = v], Innermost)
        /\ Like([Innermost EXCEPT !.local[d] = v], Innermost)
    BY <1>2, Assigned
  <2>2. Like(Innermost, Innermost)
    BY <1>2 DEF Like
  <2>. QED
    BY <1>1, <2>1, <2>2, ThenAssigns
<1>5. CASE Compute
  BY <1>1, <1>4, <1>5 DEF Compute, Then, Assign
<1>6. CASE Move
  BY <1>1, <1>4, <1>6 DEF Move, Then, Assign
<1>7. CASE ReadHost(given) \/ WriteHost
  BY <1>1, <1>4, <1>7 DEF ReadHost, WriteHost, Then, Assign
<1>8. CASE CallHost(given)
  BY <1>1, <1>3, <1>4, <1>8 DEF CallHost, Then, Assign
<1>9. CASE Guard
  BY <1>1, <1>3, <1>4, <1>9 DEF Guard, Then
<1>10. CASE Goto
  BY <1>1, <1>3, <1>4, <1>10 DEF Goto, Then
<1>11. CASE CallFunction
  <2>1. PICK arguments : /\ activations' = Append(activations, Declared(Index, arguments))
                         /\ label' = "prologue" /\ ok' = ok /\ recursion' = recursion
    BY <1>11 DEF CallFunction
  <2>. QED
    BY <1>1, <2>1, Declares DEF CallsOn
<1>12. CASE ReturnFrom
  BY <1>1, <1>12 DEF ReturnFrom, Leaves
<1>. QED
  BY <1>1, <1>5, <1>6, <1>7, <1>8, <1>9, <1>10, <1>11, <1>12 DEF Body

(* The activations a step leaves alone are as they were. *)
LEMMA Changed ==
  ASSUME NestInv, label # "idle", NEW f, Becomes(f)
  PROVE  /\ \E S : activations' \in Seq(S)
         /\ Len(activations') = Len(activations)
         /\ activations'[Len(activations)] = f
         /\ \A n \in 1..Len(activations) - 1 : activations'[n] = activations[n]
<1>. DEFINE N == Len(activations)
<1>1. PICK S : activations \in Seq(S)
  BY DEF NestInv
<1>2. N \in Nat /\ N >= 1 /\ DOMAIN activations = 1..N
  BY Nested
<1>3. activations' = [activations EXCEPT ![N] = f]
  BY DEF Becomes
<1>4. activations \in Seq(S \cup {f})
  BY <1>1
<1>. HIDE DEF N
<1>5. activations' \in Seq(S \cup {f}) /\ Len(activations') = N
  BY <1>2, <1>3, <1>4, ExceptSeq DEF N
<1>6. activations'[N] = f /\ \A n \in 1..N - 1 : activations'[n] = activations[n]
  BY <1>2, <1>3
<1>. QED
  BY <1>5, <1>6 DEF N

LEMMA Appended ==
  ASSUME NestInv, NEW f
  PROVE  LET next == Append(activations, f)
         IN  /\ \E S : next \in Seq(S)
             /\ Len(next) = Len(activations) + 1
             /\ next[Len(activations) + 1] = f
             /\ \A n \in 1..Len(activations) : next[n] = activations[n]
<1>1. PICK S : activations \in Seq(S)
  BY DEF NestInv
<1>2. activations \in Seq(S \cup {f}) /\ f \in S \cup {f}
  BY <1>1
<1>. QED
  BY <1>2, AppendProperties

LEMMA LeftBehind ==
  ASSUME NestInv, label # "idle"
  PROVE  /\ \E S : Front(activations) \in Seq(S)
         /\ Len(Front(activations)) = Len(activations) - 1
         /\ \A n \in 1..Len(activations) - 1 : Front(activations)[n] = activations[n]
<1>1. PICK S : activations \in Seq(S)
  BY DEF NestInv
<1>2. activations # <<>>
  BY DEF NestInv
<1>. QED
  BY <1>1, <1>2, FrontLast

-----------------------------------------------------------------------------
(* The activations of component k among the first m. *)
ComponentAt(c, acts, n) == Fn(c, acts[n].function).component
Members(c, acts, m, k) == {n \in 1..m : ComponentAt(c, acts, n) = k}

(* How many have passed their prologue. *)
Past == IF label = "prologue" THEN Len(activations) - 1 ELSE Len(activations)

CountedInv ==
  \A k \in Functions(container) : Capped(k) =>
    recursion[k] = Cardinality(Members(container, activations, Past, k))

LEMMA CountsBalance == ASSUME NestInv, CountedInv PROVE CountersBalanced
<1>1. Len(activations) \in Nat /\ DOMAIN activations = 1..Len(activations)
  BY Nested
<1>2. ASSUME NEW k
      PROVE  Members(container, activations, Past, k) =
               {n \in DOMAIN activations :
                  /\ Fn(container, activations[n].function).component = k
                  /\ label = "prologue" => n < Len(activations)}
  BY <1>1 DEF Members, ComponentAt, Past
<1>. QED
  BY <1>2 DEF CountersBalanced, CountedInv

(* One more activation is one more of its component. *)
LEMMA OneMore ==
  ASSUME NEW c, NEW acts, NEW m \in Nat, NEW k
  PROVE  /\ Cardinality(Members(c, acts, m, k)) \in Nat
         /\ Cardinality(Members(c, acts, m + 1, k)) =
              Cardinality(Members(c, acts, m, k))
                + (IF ComponentAt(c, acts, m + 1) = k THEN 1 ELSE 0)
<1>1. IsFiniteSet(1..m)
  BY FS_Interval
<1>2. IsFiniteSet(Members(c, acts, m, k))
  BY <1>1, FS_Subset DEF Members
<1>3. m + 1 \notin Members(c, acts, m, k)
  BY DEF Members
<1>4. Members(c, acts, m + 1, k) =
        IF ComponentAt(c, acts, m + 1) = k THEN Members(c, acts, m, k) \cup {m + 1}
        ELSE Members(c, acts, m, k)
  BY DEF Members
<1>5. Cardinality(Members(c, acts, m, k) \cup {m + 1}) = Cardinality(Members(c, acts, m, k)) + 1
  BY <1>2, <1>3, FS_AddElement
<1>6. Cardinality(Members(c, acts, m, k)) \in Nat
  BY <1>2, FS_CardinalityType
<1>. QED
  BY <1>4, <1>5, <1>6

(* What the counters count, after a step that keeps the functions of the first
   activations. *)
LEMMA CountsAfter ==
  ASSUME CountedInv, UNCHANGED container, NEW k \in Functions(container), Capped(k),
         Len(activations) \in Nat, Len(activations') \in Nat,
         NEW m, \A n \in 1..m : activations'[n].function = activations[n].function
  PROVE  /\ recursion[k] = Cardinality(Members(container, activations, Past, k))
         /\ Members(container, activations', m, k) = Members(container, activations, m, k)
<1>1. \A n \in 1..m : ComponentAt(container, activations', n) =
                        ComponentAt(container, activations, n)
  BY DEF ComponentAt
<1>. QED
  BY <1>1 DEF CountedInv, Members

(* Nothing is entered or left. *)
LEMMA CountsStay ==
  ASSUME CountedInv, UNCHANGED <<container, recursion>>, Past' = Past,
         \A n \in 1..Past : activations'[n].function = activations[n].function
  PROVE  CountedInv'
<1>1. ASSUME NEW k
      PROVE  /\ Members(container', activations', Past', k) =
                  Members(container, activations, Past, k)
             /\ Capped(k)' = Capped(k)
  BY DEF Members, ComponentAt, Capped
<1>. QED
  BY <1>1 DEF CountedInv

(* The prologue counts the innermost in. *)
LEMMA CountsIn ==
  ASSUME NestInv, CountedInv, UNCHANGED <<container, activations>>, Prologue
  PROVE  CountedInv'
<1>. DEFINE N == Len(activations)
            c == Component0
<1>1. /\ label = "prologue" /\ label' # "prologue"
      /\ recursion' = IF Capped(c) THEN [recursion EXCEPT ![c] = @ + 1] ELSE recursion
  BY DEF Prologue
<1>2. N \in Nat /\ N >= 1 /\ Innermost = activations[N]
  BY <1>1, Nested
<1>3. PICK m \in Nat : m = N - 1
  BY <1>2
<1>4. Past = m /\ Past' = m + 1 /\ ComponentAt(container, activations, m + 1) = c
  BY <1>1, <1>2, <1>3 DEF Past, ComponentAt, Component0
<1>5. ASSUME NEW k \in Functions(container), Capped(k)
      PROVE  recursion'[k] = Cardinality(Members(container', activations', Past', k))
  <2>1. recursion[k] = Cardinality(Members(container, activations, m, k))
    BY <1>4, <1>5 DEF CountedInv
  <2>2. /\ Cardinality(Members(container, activations, m + 1, k)) =
             recursion[k] + (IF c = k THEN 1 ELSE 0)
        /\ recursion[k] \in Nat
    BY <1>4, <2>1, OneMore
  <2>3. recursion'[k] = recursion[k] + (IF c = k THEN 1 ELSE 0)
    BY <1>1, <1>5, <2>2 DEF NestInv
  <2>. QED
    BY <1>4, <2>2, <2>3
<1>. QED
  BY <1>5 DEF CountedInv, Capped

(* Every way out counts it out. *)
LEMMA CountsOut ==
  ASSUME NestInv, CountedInv, UNCHANGED container, label = "done", recursion' = Left,
         label' # "prologue", Len(activations') = Len(activations) - 1,
         \A n \in 1..Len(activations) - 1 :
           activations'[n].function = activations[n].function
  PROVE  CountedInv'
<1>. DEFINE N == Len(activations)
            c == Component0
<1>1. N \in Nat /\ N >= 1 /\ Innermost = activations[N]
  BY Nested
<1>2. PICK m \in Nat : m = N - 1
  BY <1>1
<1>3. /\ Past = m + 1 /\ Past' = m /\ ComponentAt(container, activations, m + 1) = c
      /\ N = m + 1 /\ Len(activations') = m
  BY <1>1, <1>2 DEF Past, ComponentAt, Component0
<1>4. \A n \in 1..m : activations'[n].function = activations[n].function
  BY <1>3
<1>5. ASSUME NEW k \in Functions(container), Capped(k)
      PROVE  recursion'[k] = Cardinality(Members(container', activations', Past', k))
  <2>1. /\ recursion[k] = Cardinality(Members(container, activations, m + 1, k))
        /\ Members(container, activations', m, k) = Members(container, activations, m, k)
    <3>1. Len(activations) \in Nat /\ Len(activations') \in Nat
      BY <1>1, <1>3
    <3>. QED
      BY <1>3, <1>4, <1>5, <3>1, CountsAfter
  <2>2. /\ recursion[k] = Cardinality(Members(container, activations, m, k))
                            + (IF c = k THEN 1 ELSE 0)
        /\ Cardinality(Members(container, activations, m, k)) \in Nat
    BY <1>3, <2>1, OneMore
  <2>3. recursion' = IF Capped(c) THEN [recursion EXCEPT ![c] = @ - 1] ELSE recursion
    BY DEF Left
  <2>4. recursion'[k] = recursion[k] - (IF c = k THEN 1 ELSE 0)
    BY <1>5, <2>2, <2>3 DEF NestInv
  <2>. QED
    BY <1>3, <2>1, <2>2, <2>4
<1>. QED
  BY <1>5 DEF CountedInv, Capped

-----------------------------------------------------------------------------
(* The two are kept by a statement, by what lies between two, and by a call of
   the host. *)
LEMMA BodyNests ==
  ASSUME NestInv, CountedInv, UNCHANGED container, NEW given, Body(given)
  PROVE  NestInv' /\ CountedInv'
<1>. DEFINE N == Len(activations)
<1>1. /\ label = "body" /\ recursion' = recursion
      /\ Assigns \/ Leaves \/ CallsOn
  BY BodyCases
<1>2. /\ N \in Nat /\ N >= 1 /\ Innermost = activations[N]
      /\ Past = N /\ activations # <<>> /\ ~ok
  BY <1>1, Nested DEF Past, NestInv
<1>3. \A f : Activation(f)' <=> Activation(f)
  BY DEF Activation, LocalsOf
<1>4. recursion' \in [Functions(container') -> Int]
  BY <1>1 DEF NestInv
<1>5. CASE Assigns
  <2>1. PICK f : /\ Like(f, Innermost) /\ Becomes(f)
                 /\ label' = "body" /\ ok' = FALSE
    BY <1>1, <1>2, <1>5 DEF Assigns, NestInv
  <2>2. /\ \E S : activations' \in Seq(S)
        /\ Len(activations') = N
        /\ activations'[N] = f
        /\ \A n \in 1..N - 1 : activations'[n] = activations[n]
    BY <1>1, <2>1, Changed
  <2>3. \A n \in 1..N : /\ Activation(activations'[n])
                        /\ activations'[n].function = activations[n].function
    BY <1>2, <2>1, <2>2 DEF NestInv, Like
  <2>4. activations' # <<>>
    BY <1>2, <2>2
  <2>5. NestInv'
    BY <1>3, <1>4, <2>1, <2>2, <2>3, <2>4 DEF NestInv
  <2>6. Past' = N
    BY <2>1, <2>2 DEF Past
  <2>. QED
    BY <1>1, <1>2, <2>3, <2>5, <2>6, CountsStay
<1>6. CASE Leaves
  <2>1. label' = "done" /\ activations' = activations /\ ok' \in BOOLEAN
    BY <1>6 DEF Leaves
  <2>2. NestInv'
    BY <1>2, <1>3, <1>4, <2>1 DEF NestInv
  <2>3. Past' = N
    BY <2>1 DEF Past
  <2>. QED
    BY <1>1, <1>2, <2>1, <2>2, <2>3, CountsStay
<1>7. CASE CallsOn
  <2>1. PICK f : /\ Activation(f) /\ activations' = Append(activations, f)
                 /\ label' = "prologue" /\ ok' = FALSE
    BY <1>2, <1>7 DEF CallsOn, NestInv
  <2>2. /\ \E S : activations' \in Seq(S)
        /\ Len(activations') = N + 1
        /\ activations'[N + 1] = f
        /\ \A n \in 1..N : activations'[n] = activations[n]
    BY <2>1, Appended
  <2>3. \A n \in 1..N + 1 : Activation(activations'[n])
    BY <1>2, <2>1, <2>2 DEF NestInv
  <2>4. activations' # <<>>
    BY <1>2, <2>2
  <2>5. NestInv'
    BY <1>3, <1>4, <2>1, <2>2, <2>3, <2>4 DEF NestInv
  <2>6. Past' = N
    BY <1>2, <2>1, <2>2 DEF Past
  <2>. QED
    BY <1>1, <1>2, <2>2, <2>5, <2>6, CountsStay
<1>. QED
  BY <1>1, <1>5, <1>6, <1>7

LEMMA ConventionNests ==
  ASSUME NestInv, CountedInv, UNCHANGED container, Convention
  PROVE  NestInv' /\ CountedInv'
<1>. DEFINE N == Len(activations)
<1>1. \A f : Activation(f)' <=> Activation(f)
  BY DEF Activation, LocalsOf
<1>2. label # "idle"
  BY DEF Convention, Prologue, BackInCaller, BackInWrapper
<1>3. /\ N \in Nat /\ N >= 1 /\ Innermost = activations[N]
      /\ activations # <<>> /\ Activation(Innermost)
  BY <1>2, Nested DEF NestInv
<1>4. recursion' \in [Functions(container') -> Int]
  BY DEF Convention, Prologue, BackInCaller, BackInWrapper, Left, NestInv
<1>5. CASE Prologue
  <2>1. activations' = activations /\ label' \in {"body", "done"} /\ label = "prologue"
        /\ ok' = ok
    BY <1>5 DEF Prologue
  <2>2. NestInv'
    BY <1>1, <1>3, <1>4, <2>1 DEF NestInv
  <2>. QED
    BY <1>5, <2>1, <2>2, CountsIn
<1>6. CASE BackInCaller
  <2>. DEFINE front  == Front(activations)
              caller == Last(front)
  <2>1. /\ \E S : front \in Seq(S)
        /\ Len(front) = N - 1
        /\ \A n \in 1..N - 1 : front[n] = activations[n]
    BY <1>2, LeftBehind
  <2>2. N > 1 /\ recursion' = Left /\ ok' = FALSE /\ label = "done"
    BY <1>6 DEF BackInCaller
  <2>3. front # <<>>
    BY <1>3, <2>1, <2>2
  <2>4. PICK S : front \in Seq(S)
    BY <2>1
  <2>5. /\ caller = front[N - 1] /\ Front(front) \in Seq(S)
        /\ Len(Front(front)) = N - 2
        /\ \A n \in 1..N - 2 : Front(front)[n] = front[n]
    <3>. HIDE DEF front
    <3>1. /\ caller = front[Len(front)] /\ Front(front) \in Seq(S)
          /\ Len(Front(front)) = Len(front) - 1
          /\ \A n \in 1..Len(front) - 1 : Front(front)[n] = front[n]
      BY <2>3, <2>4, FrontLast
    <3>2. N - 1 - 1 = N - 2
      BY <1>3
    <3>. QED
      BY <2>1, <3>1, <3>2
  <2>6. caller = activations[N - 1] /\ Activation(caller)
    BY <1>3, <2>1, <2>2, <2>5 DEF NestInv
  <2>7. /\ \E T : activations' \in Seq(T)
        /\ Len(activations') = N - 1
        /\ \A n \in 1..N - 1 : /\ Activation(activations'[n])
                               /\ activations'[n].function = activations[n].function
        /\ label' \in {"body", "done"}
    <3>1. CASE ok
      <4>1. PICK d, p : \/ activations' = Append(Front(front), [caller EXCEPT !.pc = p])
                        \/ activations' = Append(Front(front),
                             [[caller EXCEPT !.slot[d] = produced] EXCEPT !.pc = p])
        BY <1>6, <3>1 DEF BackInCaller
      <4>2. /\ Like([caller EXCEPT !.pc = p], caller)
            /\ Like([caller EXCEPT !.slot[d] = produced], caller)
        BY <2>6, Assigned
      <4>10. Like([[caller EXCEPT !.slot[d] = produced] EXCEPT !.pc = p], caller)
        <5>. DEFINE g == [caller EXCEPT !.slot[d] = produced]
        <5>1. Activation(g) /\ g.function = caller.function
          BY <4>2 DEF Like
        <5>. HIDE DEF g
        <5>2. Like([g EXCEPT !.pc = p], g)
          BY <5>1, Assigned
        <5>. QED
          BY <5>1, <5>2 DEF Like, g
      <4>11. PICK f : activations' = Append(Front(front), f) /\ Like(f, caller)
        BY <4>1, <4>2, <4>10
      <4>3. Front(front) \in Seq(S \cup {f})
        BY <2>5
      <4>4. /\ activations' \in Seq(S \cup {f})
            /\ Len(activations') = N - 2 + 1
            /\ activations'[N - 2 + 1] = f
            /\ \A n \in 1..N - 2 : activations'[n] = Front(front)[n]
        BY <2>5, <4>11, <4>3, AppendProperties
      <4>5. \A n \in 1..N - 2 : activations'[n] = activations[n]
        BY <1>3, <2>1, <2>5, <4>4
      <4>6. label' = "body"
        BY <1>6, <3>1 DEF BackInCaller
      <4>7. \A n \in 1..N - 1 : n = N - 1 \/ n \in 1..N - 2
        BY <1>3
      <4>8. \A n \in 1..N : Activation(activations[n])
        BY DEF NestInv
      <4>9. N - 2 + 1 = N - 1 /\ 1..N - 1 \subseteq 1..N
        BY <1>3
      <4>. QED
        BY <2>6, <4>11, <4>4, <4>5, <4>6, <4>7, <4>8, <4>9 DEF Like
    <3>2. CASE ~ok
      <4>1. activations' = front /\ label' = "done"
        BY <1>6, <3>2 DEF BackInCaller
      <4>2. \A n \in 1..N - 1 : Activation(activations[n])
        BY <1>3 DEF NestInv
      <4>. QED
        BY <2>1, <4>1, <4>2
    <3>. QED
      BY <3>1, <3>2
  <2>8. activations' # <<>>
    BY <1>3, <2>2, <2>7
  <2>9. NestInv'
    BY <1>1, <1>4, <2>2, <2>7, <2>8 DEF NestInv
  <2>. QED
    BY <2>2, <2>7, <2>9, CountsOut
<1>7. CASE BackInWrapper
  <2>1. /\ N = 1 /\ recursion' = Left /\ ok' = FALSE /\ label = "done"
        /\ activations' = <<>> /\ label' = "idle"
    BY <1>7 DEF BackInWrapper
  <2>2. Len(activations') = 0 /\ \A n \in 1..N - 1 : FALSE
    BY <2>1
  <2>3. \E S : activations' \in Seq(S)
    BY <2>1, EmptySeq
  <2>5. \A n \in 1..Len(activations') : FALSE
    BY <2>2
  <2>6. ok' \in BOOLEAN /\ ~ok'
    BY <2>1
  <2>4. NestInv'
    BY <1>4, <2>1, <2>3, <2>5, <2>6 DEF NestInv
  <2>. QED
    BY <2>1, <2>2, <2>4, CountsOut
<1>. QED
  BY <1>5, <1>6, <1>7 DEF Convention

LEMMA EntryNests ==
  ASSUME NestInv, CountedInv, UNCHANGED container, NEW entry, CallEntry(entry)
  PROVE  NestInv' /\ CountedInv'
<1>1. PICK f : /\ Activation(f) /\ activations' = <<f>>
               /\ label' = "prologue" /\ ok' = ok /\ recursion' = recursion
               /\ label = "idle" /\ activations = <<>>
  BY Declares DEF CallEntry, NestInv
<1>2. /\ activations' \in Seq({f}) /\ Len(activations') = 1 /\ activations'[1] = f
  BY <1>1, Singleton
<1>4. NestInv'
  <2>1. \A g : Activation(g)' <=> Activation(g)
    BY DEF Activation, LocalsOf
  <2>2. /\ \A n \in 1..Len(activations') : activations'[n] = f
        /\ activations' # <<>>
    BY <1>1, <1>2
  <2>3. recursion' \in [Functions(container') -> Int] /\ ~ok'
    BY <1>1 DEF NestInv
  <2>4. \E S : activations' \in Seq(S)
    BY <1>2
  <2>. QED
    BY <1>1, <2>1, <2>2, <2>3, <2>4 DEF NestInv
<1>5. Past = 0 /\ Past' = 0
  BY <1>1, <1>2 DEF Past
<1>. QED
  BY <1>1, <1>4, <1>5, CountsStay

-----------------------------------------------------------------------------
LEMMA BackendsNest ==
  ASSUME NestInv, CountedInv, container' = container, [BackendsNext]_backendsVars
  PROVE  NestInv' /\ CountedInv'
<1>1. ASSUME UNCHANGED cVars PROVE NestInv' /\ CountedInv'
  <2>1. UNCHANGED <<activations, label, ok, recursion>>
    BY <1>1 DEF cVars
  <2>3. \A f : Activation(f)' <=> Activation(f)
    BY DEF Activation, LocalsOf
  <2>2. NestInv'
    BY <2>1, <2>3 DEF NestInv
  <2>. QED
    BY <2>1, <2>2 DEF CountedInv, Capped, Past
<1>2. CASE Prepare \/ Interpret \/ UNCHANGED backendsVars
  BY <1>1, <1>2 DEF Prepare, Interpret, backendsVars
<1>3. CASE InvokeBoth
  BY <1>3, EntryNests DEF InvokeBoth
<1>4. CASE Execute
  BY <1>4, BodyNests DEF Execute
<1>5. CASE Settle
  BY <1>5, ConventionNests DEF Settle
<1>. QED
  BY <1>2, <1>3, <1>4, <1>5 DEF BackendsNext

LEMMA BackendsContainer ==
  ASSUME [BackendsNext]_backendsVars
  PROVE  container' = container
BY DEF BackendsNext, Prepare, Verifying, VerifyNext, CheckGroups, CodeRegions, BeginWalk, Join,
   Visit, EndWalk, CallGraph, CompareDeclared, Refuse, InvokeBoth, Interpret, Execute, Settle,
   backendsVars, deviceVars, verifyVars

LEMMA CountedInit == BackendsInit => NestInv /\ CountedInv
<1>. SUFFICES ASSUME BackendsInit PROVE NestInv /\ CountedInv
  OBVIOUS
<1>1. /\ activations = <<>> /\ label = "idle" /\ ok = FALSE
      /\ recursion = [k \in Functions(container) |-> 0]
  BY DEF BackendsInit, CInit
<1>2. Len(activations) = 0 /\ \E S : activations \in Seq(S)
  BY <1>1, EmptySeq
<1>3. ASSUME NEW k PROVE Cardinality(Members(container, activations, Past, k)) = 0
  <2>1. Members(container, activations, Past, k) = {}
    BY <1>1, <1>2 DEF Members, Past
  <2>. QED
    BY <2>1, FS_EmptySet
<1>4. /\ \A n \in 1..Len(activations) : FALSE
      /\ recursion \in [Functions(container) -> Int]
  BY <1>1, <1>2
<1>5. NestInv
  BY <1>1, <1>2, <1>4 DEF NestInv
<1>6. CountedInv
  BY <1>1, <1>3 DEF CountedInv
<1>. QED
  BY <1>5, <1>6

LEMMA CountedInvariant == BackendsSpec => [](NestInv /\ CountedInv)
<1>1. BackendsInit => NestInv /\ CountedInv
  BY CountedInit
<1>2. NestInv /\ CountedInv /\ [BackendsNext]_backendsVars => (NestInv /\ CountedInv)'
  BY BackendsNest, BackendsContainer
<1>. QED
  BY <1>1, <1>2, PTL DEF BackendsSpec

(* The static counters of the C neither leak nor run short: each is the number
   of activations of its component past their prologue, while calls nest,
   while `goto done` unwinds a fault one activation at a time, and between
   invocations, where nothing ever resets them (cbackend.py, _function). *)
THEOREM CountersStayBalanced == BackendsSpec => []CountersBalanced
<1>1. NestInv /\ CountedInv => CountersBalanced
  BY CountsBalance
<1>. QED
  BY <1>1, CountedInvariant, PTL

-----------------------------------------------------------------------------
(* The variables of an activation in the order of the slots: its locals, then
   the positions of its operand stack. *)
Variable(a, k) ==
  LET locals == Len(LocalsOf(a.function))
  IN  IF k < locals THEN a.local[k] ELSE a.slot[k - locals]

(* The slots from low up to high hold what the variables of a do. *)
Mirrors(vals, sts, low, high, a) ==
  \A x \in low..high - 1 : /\ vals[x] = Variable(a, x - low).value
                           /\ sts[x] = Variable(a, x - low).state

(* Where the frame above a caller begins: what lies from there on is no longer
   the caller's. *)
Above(n) == IF n = Len(frames) THEN base ELSE frames[n + 1].base

CallerSame(a, n) ==
  /\ a.function = frames[n].function
  /\ a.pc = frames[n].return_pc - 2
  /\ Mirrors(values, states, frames[n].base, Above(n), a)

TopSame(a) ==
  /\ a.function = current /\ a.pc = pc
  /\ Mirrors(values, states, base, sp, a)

(* The interpreter runs, the first m of the activations `outer` are its callers
   and `top` is its running frame; it has no result yet. *)
RunsWith(outer, m, top) ==
  /\ status = "running" /\ Len(frames) = m
  /\ \A n \in 1..m : CallerSame(outer[n], n)
  /\ TopSame(top)
  /\ result = reported.result

(* The interpreter has ended the invocation: with a fault, or with what the
   outermost activation produced. *)
Failed(kind) ==
  /\ status = "idle" /\ returned = FALSE /\ fault = kind
  /\ result = reported.result

Produced(p) ==
  LET type == Fn(container, Innermost.function).return_type
  IN  /\ status = "idle" /\ returned = TRUE
      /\ result = IF type # VOID THEN Crossing(type, p.value, p.state) ELSE reported.result

-----------------------------------------------------------------------------
(* What the C makes of the statement it is at. *)
Jumps == Lowered = "jmp" \/ (Lowered = "jmp_if_false") = (Below(1).value = 0)

Following == IF Lowered \in {"jmp", "jmp_if_false", "jmp_if_true"} /\ Jumps
         THEN Target(container, Innermost.pc) ELSE After(container, Innermost.pc)

Decremented == AsI32(Innermost.local[Index].value) - 1

(* The fault a statement ends in, if it does. *)
Faults(given) ==
  CASE Lowered = "call.h" /\ ~given.accepted -> "host_fault"
    [] Lowered = "loop.guard" /\ Decremented < 0 -> "iteration_limit"
    [] Lowered \in {"jmp_if_false", "jmp_if_true"} /\ Below(1).state # VALID ->
         "absent_condition"
    [] OTHER -> "no_fault"

Heard(given) == Pair(WriteSlot(Imported.type, given.value.as), given.value.validity)

(* The activation with its variable assigned. *)
Changes(given) ==
  IF Lowered \in Literals THEN Assign(Depth, Literal)
  ELSE IF Lowered \in Unaries THEN Assign(Depth - 1, Unary(Below(1)))
  ELSE IF Lowered \in Binaries THEN Assign(Depth - 2, Binary(Below(2), Below(1)))
  ELSE IF Lowered = "load.l" THEN Assign(Depth, Innermost.local[Index])
  ELSE IF Lowered = "store.l" THEN [Innermost EXCEPT !.local[Index] = Below(1)]
  ELSE IF Lowered = "dup" THEN Assign(Depth, Below(1))
  ELSE IF Lowered = "load.h" THEN Assign(Depth, Heard(given))
  ELSE IF Lowered = "call.h" /\ Imported.type # VOID
       THEN Assign(Depth - Len(Imported.param_types), Heard(given))
  ELSE IF Lowered = "loop.guard"
       THEN [Innermost EXCEPT !.local[Index] = Pair(FromI32(Decremented), @.state)]
  ELSE Innermost

Asks ==
  CASE Lowered = "load.h"  -> <<"read", Index>>
    [] Lowered = "store.h" ->
         <<"write", Index, Crossing(Imported.type, Below(1).value, Below(1).state)>>
    [] Lowered = "call.h"  -> <<"call", Index, Arguments(Len(Imported.param_types))>>
    [] OTHER -> requested

Copied ==
  LET low == Depth - Called.param_count
  IN  [p \in 0..Called.param_count - 1 |-> Innermost.slot[low + p]]

(* The caller of the innermost goes on after its call, with what was produced. *)
Outer == activations[Len(activations) - 1]

Resumed(p) ==
  LET callee == Fn(container, Innermost.function)
      depth  == Len(shapes[Outer.function][Outer.pc]) - callee.param_count
      taken  == IF callee.return_type = VOID THEN Outer ELSE [Outer EXCEPT !.slot[depth] = p]
  IN  [taken EXCEPT !.pc = After(container, @)]

(* The callee's component has all the entries its cap allows. *)
Spent(k) == Capped(k) /\ recursion[k] + 1 > CounterCap(k)

-----------------------------------------------------------------------------
(* Where a call that returned p leaves the two: in the caller, or at the host. *)
Returned(p) ==
  IF Len(activations) = 1 THEN Produced(p)
  ELSE \E f : f = Resumed(p) /\ RunsWith(activations, Len(activations) - 2, f)

(* The interpreter has executed the call the C is at. *)
Entering ==
  IF Spent(Called.component) THEN Failed("recursion_limit")
  ELSE \E f : f = Declared(Index, Copied) /\ RunsWith(activations, Len(activations), f)

(* The same of an instruction that neither calls nor returns. *)
Executed(given) ==
  IF Faults(given) # "no_fault" THEN Failed(Faults(given))
  ELSE \E f : /\ f = [Changes(given) EXCEPT !.pc = Following]
              /\ RunsWith(activations, Len(activations) - 1, f)

(* The interpreter has executed the instruction the C is at. *)
Ahead(given) ==
  /\ asked = Asks
  /\ Lowered = "loop.guard" => Decremented \in Int /\ 2 * Decremented >= -M32
  /\ Lowered = "call" => Entering
  /\ Lowered = "ret_v" => \E p : p = Below(1) /\ Returned(p)
  /\ Lowered = "ret" => \E p : p = produced /\ Returned(p)
  /\ Lowered \notin Return \cup {"call"} => Executed(given)

(* The C has yet to enter, to return or to unwind. *)
Between ==
  /\ asked = requested
  /\ label \in {"prologue", "done"}
  /\ label = "prologue" =>
       IF Spent(Component0) THEN Failed("recursion_limit")
       ELSE RunsWith(activations, Len(activations) - 1, Innermost)
  /\ label = "done" /\ ok => Returned(produced)
  /\ label = "done" /\ ~ok => Failed(raised)

(* Both are between two instructions, or between two invocations. *)
Together ==
  /\ asked = requested
  /\ IF status = "running"
     THEN label = "body" /\ RunsWith(activations, Len(activations) - 1, Innermost)
     ELSE /\ label = "idle"
          /\ reported.returned = returned /\ reported.result = result
          /\ ~returned => reported.fault = fault

(* The two in lockstep, as long as the interpreter stays in its own memory. *)
LockInv ==
  status # "stray" =>
    /\ turn \in {"interpreter", "c", "convention"}
    /\ turn = "interpreter" => Together
    /\ turn = "c" => label = "body" /\ \E given : given = answer /\ Ahead(given)
    /\ turn = "convention" => Between
-----------------------------------------------------------------------------
(* Two instructions later: the facts a turn of the interpreter starts from, and
   those it is known to end in. *)
Interpreting ==
  /\ BoundInv /\ ValuesInv /\ NestInv /\ Together /\ status = "running"
  /\ BoundInv' /\ ValuesInv'
  /\ UNCHANGED <<verifyVars, cVars>>

OwnLocals == Len(LocalsOf(current))

(* The C is at the instruction the interpreter is at. *)
LEMMA SamePlace ==
  ASSUME DeviceInv, NestInv, Together, status = "running"
  PROVE  /\ Activation(Innermost) /\ Innermost = activations[Len(activations)]
         /\ Innermost.function = current /\ Innermost.pc = pc
         /\ Lowered = Name /\ Index = Arg /\ Imported = Imp /\ Called = Callee
         /\ Len(activations) \in Nat /\ Len(activations) = Len(frames) + 1
         /\ Len(frames) \in Nat /\ label = "body"
         /\ current \in Functions(container) /\ pc \in DOMAIN shapes[current]
         /\ Depth = Len(shapes[current][pc]) /\ Depth \in Nat
         /\ OwnLocals \in Nat /\ base \in Nat
         /\ sp = base + OwnLocals + Depth
<1>1. /\ label = "body" /\ RunsWith(activations, Len(activations) - 1, Innermost)
  BY DEF Together
<1>2. /\ Activation(Innermost) /\ Innermost = activations[Len(activations)]
      /\ Len(activations) \in Nat /\ Len(activations) >= 1
  BY <1>1, Nested
<1>3. Innermost.function = current /\ Innermost.pc = pc /\ Len(frames) = Len(activations) - 1
  BY <1>1 DEF RunsWith, TopSame
<1>4. /\ current \in Functions(container) /\ pc \in DOMAIN shapes[current] /\ base \in Nat
      /\ Len(LocalsOf(current)) \in Nat /\ Len(shapes[current][pc]) \in Nat
      /\ sp = base + (Len(LocalsOf(current)) + Len(shapes[current][pc]))
  BY RunningFrame
<1>5. Lowered = Name /\ Index = Arg
  BY <1>3 DEF Lowered, Name, Index, Arg
<1>6. Imported = Imp /\ Called = Callee
  BY <1>5 DEF Imported, Imp, Called, Callee
<1>7. Depth = Len(shapes[current][pc])
  BY <1>3 DEF Depth
<1>8. Len(activations) = Len(frames) + 1 /\ Len(frames) \in Nat
  BY <1>2, <1>3
<1>9. OwnLocals = Len(LocalsOf(current))
  BY DEF OwnLocals
<1>10. Depth \in Nat /\ OwnLocals \in Nat /\ sp = base + OwnLocals + Depth
  <2>1. Depth \in Nat /\ OwnLocals \in Nat
    BY <1>4, <1>7, <1>9
  <2>2. sp = base + (OwnLocals + Depth)
    BY <1>4, <1>7, <1>9
  <2>. QED
    BY <1>4, <2>1, <2>2
<1>. QED
  BY <1>1, <1>2, <1>3, <1>4, <1>5, <1>6, <1>7, <1>8, <1>10

(* What a variable is, slot by slot. *)
LEMMA VariableOfTop ==
  ASSUME NEW a, a.function = current, OwnLocals \in Nat
  PROVE  /\ \A k \in 0..OwnLocals - 1 : Variable(a, k) = a.local[k]
         /\ \A d \in Nat : Variable(a, OwnLocals + d) = a.slot[d]
<1>1. ASSUME NEW d \in Nat
      PROVE  ~(OwnLocals + d < OwnLocals) /\ (OwnLocals + d) - OwnLocals = d
  OBVIOUS
<1>. QED
  BY <1>1 DEF Variable, OwnLocals

(* The operands and the locals of the two are the same. *)
LEMMA SameOperands ==
  ASSUME DeviceInv, NestInv, Together, status = "running", NEW j \in 1..Depth
  PROVE  values[sp - j] = Below(j).value /\ states[sp - j] = Below(j).state
<1>1. /\ Innermost.function = current /\ Depth \in Nat /\ OwnLocals \in Nat /\ base \in Nat
      /\ sp = base + OwnLocals + Depth
  BY SamePlace
<1>2. Mirrors(values, states, base, sp, Innermost)
  BY DEF Together, RunsWith, TopSame
<1>3. /\ sp - j \in base..sp - 1 /\ (sp - j) - base = OwnLocals + (Depth - j)
      /\ Depth - j \in Nat
  BY <1>1
<1>4. Variable(Innermost, (sp - j) - base) = Below(j)
  BY <1>1, <1>3, VariableOfTop DEF Below
<1>. QED
  BY <1>2, <1>3, <1>4 DEF Mirrors

LEMMA SameLocals ==
  ASSUME DeviceInv, NestInv, Together, status = "running", NEW k \in 0..OwnLocals - 1
  PROVE  /\ values[base + k] = Innermost.local[k].value
         /\ states[base + k] = Innermost.local[k].state
<1>1. /\ Innermost.function = current /\ Depth \in Nat /\ OwnLocals \in Nat /\ base \in Nat
      /\ sp = base + OwnLocals + Depth
  BY SamePlace
<1>2. Mirrors(values, states, base, sp, Innermost)
  BY DEF Together, RunsWith, TopSame
<1>3. base + k \in base..sp - 1 /\ (base + k) - base = k
  BY <1>1
<1>4. Variable(Innermost, (base + k) - base) = Innermost.local[k]
  BY <1>1, <1>3, VariableOfTop
<1>. QED
  BY <1>2, <1>3, <1>4 DEF Mirrors

(* Slots nobody wrote mirror what they did. *)
LEMMA StillMirrors ==
  ASSUME NEW v, NEW s, NEW w, NEW t, NEW low, NEW high, NEW a,
         Mirrors(v, s, low, high, a),
         \A x \in low..high - 1 : w[x] = v[x] /\ t[x] = s[x]
  PROVE  Mirrors(w, t, low, high, a)
BY DEF Mirrors

(* A caller's part of the buffer ends where the frame above it begins, at or
   below the running one. *)
LEMMA CallersEnd ==
  ASSUME DeviceInv, ValuesInv, status = "running", NEW n \in 1..Len(frames)
  PROVE  /\ frames[n].base \in Nat /\ Above(n) \in Nat
         /\ Above(n) <= base
<1>. DEFINE N == Len(frames)
<1>1. /\ frames \in Seq(Caller) /\ N \in Nat /\ frames[n] \in Caller /\ frames[n].base \in Nat
  BY SuspendedFrames
<1>2. base \in Nat
  BY RunningFrame
<1>3. CASE n = N
  BY <1>1, <1>2, <1>3 DEF Above
<1>4. CASE n # N
  <2>1. n + 1 \in 1..N
    BY <1>1, <1>4
  <2>2. /\ frames[n + 1].base \in Nat /\ Len(Kept(frames[n + 1])) \in Nat
    BY <2>1, SuspendedFrames
  <2>3. EndOf(frames[n + 1]) <= base
    BY <2>1 DEF ValuesInv, CallersHold, Undisturbed
  <2>. QED
    BY <1>1, <1>2, <1>4, <2>2, <2>3 DEF Above, EndOf
<1>. QED
  BY <1>3, <1>4

(* The running frame has changed and the callers are where they were. *)
LEMMA RunsOn ==
  ASSUME Interpreting, status' = "running", UNCHANGED <<base, frames, result>>,
         \A x \in 0..base - 1 : values'[x] = values[x] /\ states'[x] = states[x],
         NEW f, TopSame(f)'
  PROVE  RunsWith(activations, Len(activations) - 1, f)'
<1>. DEFINE m == Len(activations) - 1
<1>1. UNCHANGED <<container, shapes, activations, reported>>
  BY DEF Interpreting, verifyVars, cVars
<1>2. RunsWith(activations, m, Innermost) /\ Len(frames) = m
  BY DEF Interpreting, Together, RunsWith
<1>3. ASSUME NEW n \in 1..m PROVE CallerSame(activations[n], n)'
  <2>1. CallerSame(activations[n], n)
    BY <1>2 DEF RunsWith
  <2>2. frames[n].base \in Nat /\ Above(n) \in Nat /\ Above(n) <= base
    BY <1>2, CallersEnd DEF Interpreting, BoundInv
  <2>3. base \in Nat
    BY RunningFrame DEF Interpreting, BoundInv
  <2>4. Mirrors(values', states', frames[n].base, Above(n), activations[n])
    <3>1. \A x \in frames[n].base..Above(n) - 1 : values'[x] = values[x] /\ states'[x] = states[x]
      BY <2>2, <2>3
    <3>2. Mirrors(values, states, frames[n].base, Above(n), activations[n])
      BY <2>1 DEF CallerSame
    <3>. QED
      BY <3>1, <3>2, StillMirrors
  <2>5. Above(n)' = Above(n)
    BY DEF Above
  <2>. QED
    BY <1>1, <2>1, <2>4, <2>5 DEF CallerSame, Mirrors, Variable, LocalsOf
<1>4. Len(frames') = m /\ result' = reported'.result
  BY <1>1, <1>2 DEF RunsWith
<1>5. m' = m
  BY <1>1
<1>. QED
  BY <1>1, <1>3, <1>4, <1>5 DEF RunsWith

-----------------------------------------------------------------------------
(* _function declares as many operand variables as the walk found needed. *)
LEMMA RoomForOperands ==
  ASSUME BoundInv, verdict = "accepted",
         NEW i \in Functions(container), NEW p \in DOMAIN shapes[i]
  PROVE  /\ Len(shapes[i][p]) \in Nat
         /\ Len(shapes[i][p]) <= Fn(container, i).max_stack
<1>1. Verified /\ VerifyInv /\ AcceptedInv
  BY DEF BoundInv, DeviceInv, Verified
<1>2. i < index
  BY <1>1, AllWalked
<1>3. Len(shapes[i][p]) <= stacks[i]
  BY <1>1, <1>2 DEF VerifyInv, WalkIsSound
<1>4. Fn(container, i).max_stack = stacks[i]
  BY <1>1, DeclaredNumbers
<1>5. Len(shapes[i][p]) \in Nat
  BY <1>1, TypedInstruction
<1>. QED
  BY <1>3, <1>4, <1>5

(* An activation with one variable assigned and at another instruction. *)
WithSlot(a, d, w, q)  == [[a EXCEPT !.slot[d] = w] EXCEPT !.pc = q]
WithLocal(a, l, w, q) == [[a EXCEPT !.local[l] = w] EXCEPT !.pc = q]

OnlySet(f, a, x, w, q) ==
  /\ f.function = a.function /\ f.pc = q
  /\ Variable(f, x) = w
  /\ \A k \in Nat : k # x => Variable(f, k) = Variable(a, k)

LEMMA AfterSlot ==
  ASSUME NEW a, Activation(a), NEW L \in Nat, L = Len(LocalsOf(a.function)),
         NEW d \in Nat, d \in DOMAIN a.slot, NEW w, NEW q
  PROVE  OnlySet(WithSlot(a, d, w, q), a, L + d, w, q)
<1>. DEFINE f == WithSlot(a, d, w, q)
<1>1. f = [function |-> a.function, pc |-> q, local |-> a.local,
           slot |-> [a.slot EXCEPT ![d] = w]]
  <2>1. f = [[a EXCEPT !.slot[d] = w] EXCEPT !.pc = q]
    BY DEF WithSlot
  <2>. HIDE DEF f
  <2>. QED
    BY <2>1 DEF Activation
<1>. HIDE DEF f
<1>2. /\ f.function = a.function /\ f.pc = q /\ f.local = a.local
      /\ f.slot = [a.slot EXCEPT ![d] = w]
  BY <1>1
<1>3. ~(L + d < L) /\ (L + d) - L = d
  OBVIOUS
<1>4. Variable(f, L + d) = w
  BY <1>2, <1>3 DEF Variable
<1>5. ASSUME NEW k \in Nat, k # L + d
      PROVE  Variable(f, k) = Variable(a, k)
  <2>1. CASE k < L
    BY <1>2, <2>1 DEF Variable
  <2>2. CASE ~(k < L)
    <3>1. k - L # d
      BY <1>5
    <3>2. f.slot[k - L] = a.slot[k - L]
      BY <1>2, <3>1
    <3>. QED
      BY <1>2, <2>2, <3>2 DEF Variable
  <2>. QED
    BY <2>1, <2>2
<1>. QED
  BY <1>2, <1>4, <1>5 DEF OnlySet, f

LEMMA AfterLocal ==
  ASSUME NEW a, Activation(a), NEW L \in Nat, L = Len(LocalsOf(a.function)),
         NEW l \in 0..L - 1, NEW w, NEW q
  PROVE  OnlySet(WithLocal(a, l, w, q), a, l, w, q)
<1>. DEFINE f == WithLocal(a, l, w, q)
<1>1. f = [function |-> a.function, pc |-> q, local |-> [a.local EXCEPT ![l] = w],
           slot |-> a.slot]
  <2>1. f = [[a EXCEPT !.local[l] = w] EXCEPT !.pc = q]
    BY DEF WithLocal
  <2>. HIDE DEF f
  <2>. QED
    BY <2>1 DEF Activation
<1>. HIDE DEF f
<1>2. /\ f.function = a.function /\ f.pc = q /\ f.slot = a.slot
      /\ f.local = [a.local EXCEPT ![l] = w]
  BY <1>1
<1>3. DOMAIN a.local = 0..L - 1
  BY DEF Activation
<1>4. Variable(f, l) = w
  BY <1>2, <1>3 DEF Variable
<1>5. ASSUME NEW k \in Nat, k # l
      PROVE  Variable(f, k) = Variable(a, k)
  <2>1. CASE k < L
    <3>1. k \in DOMAIN a.local
      BY <1>3, <2>1
    <3>. QED
      BY <1>2, <1>5, <2>1, <3>1 DEF Variable
  <2>2. CASE ~(k < L)
    BY <1>2, <2>2 DEF Variable
  <2>. QED
    BY <2>1, <2>2
<1>. QED
  BY <1>2, <1>4, <1>5 DEF OnlySet, f

(* One slot written and its variable assigned. *)
OthersKept(v, s, w, t, low, high, end, y, a, f) ==
  \A x \in low..end - 1 : x # y =>
    /\ x < high /\ w[x] = v[x] /\ t[x] = s[x]
    /\ Variable(f, x - low) = Variable(a, x - low)

LEMMA OneSet ==
  ASSUME NEW v, NEW s, NEW w, NEW t, NEW low \in Nat, NEW high \in Int, NEW a,
         Mirrors(v, s, low, high, a),
         NEW y \in Nat, NEW end \in Int, NEW f,
         OthersKept(v, s, w, t, low, high, end, y, a, f),
         w[y] = Variable(f, y - low).value, t[y] = Variable(f, y - low).state
  PROVE  Mirrors(w, t, low, end, f)
<1>1. ASSUME NEW x \in low..end - 1
      PROVE  w[x] = Variable(f, x - low).value /\ t[x] = Variable(f, x - low).state
  <2>1. CASE x = y
    BY <2>1
  <2>2. CASE x # y
    <3>1. x < high /\ x \in low..high - 1
      BY <2>2 DEF OthersKept
    <3>. QED
      BY <2>2, <3>1 DEF Mirrors, OthersKept
  <2>. QED
    BY <2>1, <2>2
<1>. QED
  BY <1>1 DEF Mirrors

(* The shape of the frame after a turn that stays in it. *)
LEMMA ShapeAfter ==
  ASSUME Interpreting, status' = "running", UNCHANGED frameVars
  PROVE  /\ UNCHANGED <<container, shapes, activations, Innermost, Depth, OwnLocals, Lowered>>
         /\ pc' \in DOMAIN shapes[current]
         /\ Len(shapes[current][pc']) \in Nat
         /\ sp' = base + OwnLocals + Len(shapes[current][pc'])
         /\ Len(shapes[current][pc']) <= Fn(container, current).max_stack
         /\ sp' <= MaxSlots /\ MaxSlots \in Nat
<1>1. UNCHANGED <<container, shapes, verdict, activations, current, base>>
  BY DEF Interpreting, verifyVars, cVars, frameVars
<1>2. UNCHANGED <<Innermost, Depth, OwnLocals, Lowered>>
  BY <1>1 DEF Innermost, Depth, OwnLocals, LocalsOf, Lowered
<1>3. /\ pc' \in DOMAIN shapes[current] /\ sp' = base + FrameSize(current, pc)'
      /\ verdict = "accepted"
  BY <1>1 DEF Interpreting, BoundInv, DeviceInv, RunningShape
<1>4. FrameSize(current, pc)' = OwnLocals + Len(shapes[current][pc'])
  BY <1>1 DEF FrameSize, OwnLocals, LocalsOf
<1>5. current \in Functions(container) /\ base \in Nat /\ OwnLocals \in Nat
  BY SamePlace DEF Interpreting, BoundInv
<1>6. /\ Len(shapes[current][pc']) \in Nat
      /\ Len(shapes[current][pc']) <= Fn(container, current).max_stack
  BY <1>3, <1>5, RoomForOperands DEF Interpreting
<1>7. sp' <= MaxSlots /\ MaxSlots \in Nat
  BY VmAssumption DEF Interpreting, ValuesInv
<1>8. sp' = base + OwnLocals + Len(shapes[current][pc'])
  <2>. DEFINE d == Len(shapes[current][pc'])
  <2>1. d \in Nat /\ sp' = base + (OwnLocals + d)
    BY <1>3, <1>4, <1>6
  <2>. HIDE DEF d
  <2>2. sp' = base + OwnLocals + d
    BY <1>5, <2>1
  <2>. QED
    BY <2>2 DEF d
<1>. QED
  BY <1>1, <1>2, <1>3, <1>6, <1>7, <1>8

(* An instruction that pops n operands and pushes one; in the C, an assignment
   to the variable of the lowest. *)
LEMMA ProducedSame ==
  ASSUME Interpreting, NEW n \in Nat, n <= Depth, NEW w, Produce(n, w.value, w.state),
         NEW f, f = [Assign(Depth - n, w) EXCEPT !.pc = After(container, Innermost.pc)]
  PROVE  RunsWith(activations, Len(activations) - 1, f)'
<1>. DEFINE d == Depth - n
            y == sp - n
            g == Fn(container, current).max_stack
            e == Len(shapes[current][pc'])
<1>1. /\ values' = [values EXCEPT ![y] = w.value] /\ states' = [states EXCEPT ![y] = w.state]
      /\ sp' = y + 1 /\ pc' = pc + Size(Name)
      /\ UNCHANGED <<status, report, frameVars>>
  BY DEF Produce, Advance
<1>2. /\ Activation(Innermost) /\ Innermost.function = current /\ Innermost.pc = pc
      /\ Depth \in Nat /\ OwnLocals \in Nat /\ base \in Nat /\ current \in Functions(container)
      /\ sp = base + OwnLocals + Depth /\ status' = "running"
  BY <1>1, SamePlace DEF Interpreting, BoundInv
<1>3. /\ UNCHANGED <<container, current, base>> /\ OwnLocals' = OwnLocals
      /\ e \in Nat /\ sp' = base + OwnLocals + e /\ e <= g
      /\ sp' <= MaxSlots /\ MaxSlots \in Nat
  BY <1>1, <1>2, ShapeAfter DEF frameVars
<1>4. g \in Nat
  <2>1. Decoded(container)
    BY DEF Interpreting, BoundInv, DeviceInv, VerifyInv, VerifyTypeOK
  <2>2. Fn(container, current) \in Function
    BY <1>2, <2>1, FunctionFields
  <2>3. Byte \subseteq Nat
    BY DEF Byte
  <2>. QED
    BY <2>2, <2>3 DEF Function
<1>5. DOMAIN Innermost.slot = 0..g - 1
  BY <1>2 DEF Activation
<1>. DEFINE D == Depth
            L == OwnLocals
<1>6. f = WithSlot(Innermost, d, w, After(container, Innermost.pc))
  BY DEF Assign, WithSlot
<1>7. D \in Nat /\ L \in Nat /\ d = D - n /\ y = sp - n /\ sp = base + L + D /\ n <= D
  BY <1>2
<1>. HIDE DEF d, y, g, e, D, L
<1>8. /\ d \in Nat /\ d \in 0..g - 1 /\ y \in Nat /\ y <= sp
      /\ y \in 0..MaxSlots - 1 /\ y = base + (L + d) /\ y - base = L + d
      /\ base <= y /\ sp \in Nat
  <2>1. sp \in Nat /\ d \in Nat
    BY <1>2, <1>7
  <2>2. y = base + (L + d)
    BY <1>2, <1>7
  <2>3. e = d + 1
    <3>1. sp' = base + L + e
      BY <1>3 DEF L
    <3>. QED
      BY <1>1, <1>2, <1>3, <1>7, <2>1, <2>2, <3>1
  <2>4. d < g /\ y < MaxSlots
    BY <1>1, <1>3, <1>4, <1>2, <1>7, <2>1, <2>2, <2>3
  <2>. QED
    BY <1>2, <1>3, <1>4, <1>7, <2>1, <2>2, <2>4
<1>9. /\ f.function = current /\ f.pc = After(container, Innermost.pc)
      /\ Variable(f, L + d) = w
      /\ \A k \in Nat : k # L + d => Variable(f, k) = Variable(Innermost, k)
  <2>1. d \in DOMAIN Innermost.slot /\ d \in Nat
    BY <1>5, <1>8
  <2>2. OnlySet(WithSlot(Innermost, d, w, After(container, Innermost.pc)), Innermost,
                OwnLocals + d, w, After(container, Innermost.pc))
    BY <1>2, <2>1, AfterSlot DEF OwnLocals
  <2>. QED
    BY <1>2, <1>6, <2>2 DEF L, OnlySet
<1>10. values \in [0..MaxSlots - 1 -> Int] /\ states \in [0..MaxSlots - 1 -> Int]
  BY DEF Interpreting, ValuesInv, SlotsTyped, Slot
<1>11. /\ values'[y] = w.value /\ states'[y] = w.state
       /\ \A x \in 0..MaxSlots - 1 : x # y => values'[x] = values[x] /\ states'[x] = states[x]
  BY <1>1, <1>8, <1>10
<1>12. Mirrors(values', states', base, sp', f)
  <2>1. Mirrors(values, states, base, sp, Innermost)
    BY DEF Interpreting, Together, RunsWith, TopSame
  <2>0. sp' \in Int /\ sp' - 1 = y
    <3>1. sp' = y + 1
      BY <1>1
    <3>. QED
      BY <1>8, <3>1
  <2>2. ASSUME NEW x \in base..y, x # y
        PROVE  /\ x < sp /\ values'[x] = values[x] /\ states'[x] = states[x]
               /\ Variable(f, x - base) = Variable(Innermost, x - base)
    <3>1. x \in 0..MaxSlots - 1 /\ x < y /\ x < sp /\ x - base \in Nat /\ x - base # L + d
      <4>0. base \in Int /\ y \in Int
        BY <1>2, <1>8
      <4>1. x \in Int /\ base <= x /\ x < y
        BY <2>2, <4>0
      <4>2. x - base # y - base
        BY <1>2, <1>8, <4>1
      <4>3. x \in 0..MaxSlots - 1
        BY <1>2, <1>3, <1>8, <4>1
      <4>. QED
        BY <1>2, <1>8, <4>1, <4>2, <4>3
    <3>. QED
      BY <1>9, <1>11, <2>2, <3>1
  <2>3. values'[y] = Variable(f, y - base).value /\ states'[y] = Variable(f, y - base).state
    BY <1>8, <1>9, <1>11
  <2>4. base \in Nat /\ sp \in Int /\ y \in Nat /\ sp' \in Int
    BY <1>1, <1>2, <1>8
  <2>5. OthersKept(values, states, values', states', base, sp, sp', y, Innermost, f)
    BY <2>0, <2>2 DEF OthersKept
  <2>. QED
    BY <2>1, <2>3, <2>4, <2>5, OneSet
<1>13. TopSame(f)'
  <2>1. pc' = After(container, Innermost.pc)
    BY <1>1, <1>2 DEF After, Name
  <2>. QED
    BY <1>3, <1>9, <1>12, <2>1 DEF TopSame, Mirrors, Variable, LocalsOf
<1>14. \A x \in 0..base - 1 : values'[x] = values[x] /\ states'[x] = states[x]
  BY <1>2, <1>3, <1>8, <1>11
<1>15. UNCHANGED <<base, frames, result>>
  BY <1>1 DEF report, frameVars
<1>. QED
  BY <1>2, <1>13, <1>14, <1>15, RunsOn
(* An instruction that pops, and in the C reads the variables it pops. *)
LEMMA PoppedSame ==
  ASSUME Interpreting, status' = "running", UNCHANGED <<frameVars, result, slots>>,
         NEW z \in Int, sp' = z, z <= sp,
         NEW f, f = [Innermost EXCEPT !.pc = pc']
  PROVE  RunsWith(activations, Len(activations) - 1, f)'
<1>1. /\ Activation(Innermost) /\ Innermost.function = current /\ base \in Nat
      /\ Depth \in Nat /\ OwnLocals \in Nat /\ sp = base + OwnLocals + Depth
  BY SamePlace DEF Interpreting, BoundInv
<1>2. f = [function |-> Innermost.function, pc |-> pc', local |-> Innermost.local,
           slot |-> Innermost.slot]
  BY <1>1 DEF Activation
<1>3. /\ f.function = current /\ f.pc = pc' /\ f.local = Innermost.local
      /\ f.slot = Innermost.slot
  BY <1>1, <1>2
<1>4. \A k : Variable(f, k) = Variable(Innermost, k)
  BY <1>1, <1>3 DEF Variable
<1>5. UNCHANGED <<container, base, frames, current, values, states>> /\ Innermost' = Innermost
  BY DEF Interpreting, verifyVars, cVars, frameVars, slots, Innermost
<1>6. Mirrors(values, states, base, z, f)
  <2>1. Mirrors(values, states, base, sp, Innermost)
    BY DEF Interpreting, Together, RunsWith, TopSame
  <2>2. \A x \in base..z - 1 : x \in base..sp - 1
    BY <1>1
  <2>. QED
    BY <1>4, <2>1, <2>2 DEF Mirrors
<1>7. TopSame(f)'
  BY <1>3, <1>5, <1>6 DEF TopSame, Mirrors, Variable, LocalsOf
<1>. QED
  BY <1>5, <1>7, RunsOn

(* An instruction that sets a local of the running frame. *)
LEMMA LocalSetSame ==
  ASSUME Interpreting, status' = "running", UNCHANGED <<frameVars, result>>,
         NEW z \in Int, sp' = z, z <= sp,
         NEW k \in 0..OwnLocals - 1, NEW w,
         values' = [values EXCEPT ![base + k] = w.value],
         states' = [states EXCEPT ![base + k] = w.state],
         NEW f, f = WithLocal(Innermost, k, w, pc')
  PROVE  RunsWith(activations, Len(activations) - 1, f)'
<1>. DEFINE y == base + k
            L == OwnLocals
<1>1. /\ Activation(Innermost) /\ Innermost.function = current /\ base \in Nat
      /\ Depth \in Nat /\ L \in Nat /\ sp = base + L + Depth
      /\ current \in Functions(container)
  BY SamePlace DEF Interpreting, BoundInv
<1>2. OnlySet(f, Innermost, k, w, pc')
  BY <1>1, AfterLocal DEF OwnLocals
<1>3. UNCHANGED <<container, base, frames, current>> /\ Innermost' = Innermost
  BY DEF Interpreting, verifyVars, cVars, frameVars, slots, Innermost
<1>4. y \in 0..MaxSlots - 1 /\ y \in Nat /\ k \in Nat /\ y - base = k
  <2>1. base + k \in Slot
    BY LocalsHold DEF Interpreting, BoundInv, OwnLocals
  <2>. QED
    BY <1>1, <2>1 DEF Slot
<1>5. values \in [0..MaxSlots - 1 -> Int] /\ states \in [0..MaxSlots - 1 -> Int]
  BY DEF Interpreting, ValuesInv, SlotsTyped, Slot
<1>6. values' = [values EXCEPT ![y] = w.value] /\ states' = [states EXCEPT ![y] = w.state]
  OBVIOUS
<1>. HIDE DEF y, L
<1>7. /\ values'[y] = w.value /\ states'[y] = w.state
      /\ \A x \in 0..MaxSlots - 1 : x # y => values'[x] = values[x] /\ states'[x] = states[x]
  BY <1>4, <1>5, <1>6
<1>8. sp \in Int /\ sp <= MaxSlots /\ MaxSlots \in Nat
  BY <1>1, VmAssumption DEF Interpreting, ValuesInv
<1>9. OthersKept(values, states, values', states', base, sp, z, y, Innermost, f)
  <2>1. ASSUME NEW x \in base..z - 1, x # y
        PROVE  /\ x < sp /\ values'[x] = values[x] /\ states'[x] = states[x]
               /\ Variable(f, x - base) = Variable(Innermost, x - base)
    <3>1. x < sp /\ x - base \in Nat /\ x - base # k /\ x \in 0..MaxSlots - 1
      BY <1>1, <1>4, <1>8, <2>1
    <3>. QED
      BY <1>2, <1>7, <2>1, <3>1 DEF OnlySet
  <2>. QED
    BY <2>1 DEF OthersKept
<1>10. Mirrors(values', states', base, z, f)
  <2>1. Mirrors(values, states, base, sp, Innermost)
    BY DEF Interpreting, Together, RunsWith, TopSame
  <2>2. values'[y] = Variable(f, y - base).value /\ states'[y] = Variable(f, y - base).state
    BY <1>2, <1>4, <1>7 DEF OnlySet
  <2>. QED
    BY <1>1, <1>4, <1>8, <1>9, <2>1, <2>2, OneSet
<1>11. TopSame(f)'
  <2>1. f.function = current /\ f.pc = pc'
    BY <1>1, <1>2 DEF OnlySet
  <2>. QED
    BY <1>3, <1>10, <2>1 DEF TopSame, Mirrors, Variable, LocalsOf
<1>12. \A x \in 0..base - 1 : values'[x] = values[x] /\ states'[x] = states[x]
  <2>1. ASSUME NEW x \in 0..base - 1
        PROVE  x \in 0..MaxSlots - 1 /\ x # y
    <3>1. y = base + k
      BY DEF y
    <3>. QED
      BY <1>1, <1>4, <1>8, <2>1, <3>1
  <2>. QED
    BY <1>7, <2>1
<1>. QED
  BY <1>3, <1>11, <1>12, RunsOn

-----------------------------------------------------------------------------
(* What the C would do does not depend on the interpreter. *)
LEMMA UnmovedPlace ==
  ASSUME UNCHANGED <<verifyVars, cVars>>
  PROVE  /\ UNCHANGED <<Innermost, Lowered, Index, Imported, Called, Depth>>
         /\ UNCHANGED <<activations, container, shapes, produced, reported, recursion, label, ok>>
         /\ UNCHANGED <<requested, raised>>
         /\ \A n : Below(n)' = Below(n)
<1>1. /\ UNCHANGED <<activations, container, shapes, produced, reported, recursion, label, ok>>
      /\ UNCHANGED <<requested, raised>>
  BY DEF verifyVars, cVars
<1>2. UNCHANGED Innermost
  BY <1>1 DEF Innermost
<1>3. UNCHANGED <<Lowered, Index>>
  BY <1>1, <1>2 DEF Lowered, Index
<1>4. UNCHANGED <<Imported, Called, Depth>>
  BY <1>1, <1>2, <1>3 DEF Imported, Called, Depth
<1>. QED
  BY <1>1, <1>2, <1>3, <1>4 DEF Below

LEMMA UnmovedValues ==
  ASSUME UNCHANGED <<verifyVars, cVars>>
  PROVE  /\ Literal' = Literal
         /\ \A a : Unary(a)' = Unary(a)
         /\ \A a, b : Binary(a, b)' = Binary(a, b)
<1>1. UNCHANGED <<Lowered, Index, container>>
  BY UnmovedPlace
<1>2. Literal' = Literal
  BY <1>1 DEF Literal
<1>3. ASSUME NEW a PROVE Unary(a)' = Unary(a)
  BY <1>1 DEF Unary
<1>4. ASSUME NEW a, NEW b PROVE Binary(a, b)' = Binary(a, b)
  BY <1>1 DEF Binary
<1>. QED
  BY <1>2, <1>3, <1>4

LEMMA Unmoved ==
  ASSUME UNCHANGED <<verifyVars, cVars>>, NEW given
  PROVE  /\ UNCHANGED <<Following, Decremented, Asks, Copied, Component0>>
         /\ Faults(given)' = Faults(given)
         /\ Changes(given)' = Changes(given)
<1>1. /\ UNCHANGED <<Innermost, Lowered, Index, Imported, Called, Depth>>
      /\ UNCHANGED <<activations, container, shapes, produced, reported, recursion, label, ok>>
      /\ UNCHANGED requested
      /\ \A n : Below(n)' = Below(n)
  BY UnmovedPlace
<1>2. Decremented' = Decremented
  BY <1>1 DEF Decremented
<1>3. Following' = Following
  BY <1>1 DEF Following, Jumps
<1>4. Copied' = Copied /\ Component0' = Component0
  BY <1>1 DEF Copied, Component0
<1>5. Asks' = Asks
  <2>1. \A n : Arguments(n)' = Arguments(n)
    BY <1>1 DEF Arguments
  <2>. QED
    BY <1>1, <2>1 DEF Asks
<1>6. Faults(given)' = Faults(given)
  BY <1>1, <1>2 DEF Faults
<1>7. Changes(given)' = Changes(given)
  <2>1. /\ Literal' = Literal
        /\ \A a : Unary(a)' = Unary(a)
        /\ \A a, b : Binary(a, b)' = Binary(a, b)
    BY UnmovedValues
  <2>2. Heard(given)' = Heard(given)
    BY <1>1 DEF Heard
  <2>3. \A d, p : Assign(d, p)' = Assign(d, p)
    BY <1>1 DEF Assign
  <2>. QED
    BY <1>1, <1>2, <2>1, <2>2, <2>3 DEF Changes
<1>. QED
  BY <1>2, <1>3, <1>4, <1>5, <1>6, <1>7

-----------------------------------------------------------------------------
(* What the C finds when it comes to the instruction the interpreter has
   executed. *)
Answering == \E given : given = answer /\ Ahead(given)

LEMMA AheadBy ==
  ASSUME Interpreting, NEW given, answer' = given, asked' = Asks,
         Lowered \notin Return \cup {"call"},
         Lowered = "loop.guard" => Decremented \in Int /\ 2 * Decremented >= -M32,
         \/ Faults(given) # "no_fault" /\ Failed(Faults(given))'
         \/ /\ Faults(given) = "no_fault"
            /\ \E f : /\ f = [Changes(given) EXCEPT !.pc = Following]
                      /\ RunsWith(activations, Len(activations) - 1, f)'
  PROVE  Answering'
<1>1. UNCHANGED <<verifyVars, cVars>>
  BY DEF Interpreting
<1>2. /\ UNCHANGED <<Following, Decremented, Asks, Lowered>>
      /\ Faults(given)' = Faults(given)
      /\ Changes(given)' = Changes(given)
  BY <1>1, Unmoved, UnmovedPlace
<1>3. Executed(given)'
  <2>1. ASSUME Faults(given) # "no_fault" PROVE Failed(Faults(given))'
    BY <2>1
  <2>2. ASSUME Faults(given) = "no_fault"
        PROVE  (\E f : /\ f = [Changes(given) EXCEPT !.pc = Following]
                       /\ RunsWith(activations, Len(activations) - 1, f))'
    BY <1>2, <2>2
  <2>. QED
    BY <1>2, <2>1, <2>2 DEF Executed
<1>4. Ahead(given)'
  BY <1>2, <1>3 DEF Ahead, Return
<1>. QED
  BY <1>4 DEF Answering

(* An instruction that only computes. *)
LEMMA Plain ==
  ASSUME Lowered \in Literals \cup Unaries \cup Binaries, NEW given
  PROVE  /\ Lowered \notin Return \cup {"call", "loop.guard"}
         /\ Faults(given) = "no_fault" /\ Asks = requested
         /\ Following = After(container, Innermost.pc)
         /\ Lowered \in Literals => Changes(given) = Assign(Depth, Literal)
         /\ Lowered \in Unaries  => Changes(given) = Assign(Depth - 1, Unary(Below(1)))
         /\ Lowered \in Binaries => Changes(given) = Assign(Depth - 2, Binary(Below(2), Below(1)))
<1>1. Lowered \notin Return \cup {"call", "loop.guard", "call.h", "load.h", "store.h", "jmp",
                                  "jmp_if_false", "jmp_if_true"}
  BY DEF Literals, Unaries, Binaries, Pool, ConstState, Predicate, ArithI32, Bitwise32, ArithI64,
     DivRemI32, DivRemI64, Shift32, ArithF32, CompareI32, CompareI64, CompareF32, Return
<1>2. /\ ~(Lowered \in Literals /\ Lowered \in Unaries)
      /\ ~(Lowered \in Literals /\ Lowered \in Binaries)
      /\ ~(Lowered \in Unaries /\ Lowered \in Binaries)
  BY DEF Literals, Unaries, Binaries, Pool, ConstState, Predicate, ArithI32, Bitwise32, ArithI64,
     DivRemI32, DivRemI64, Shift32, ArithF32, CompareI32, CompareI64, CompareF32
<1>3. Faults(given) = "no_fault" /\ Asks = requested /\ Following = After(container, Innermost.pc)
  BY <1>1 DEF Faults, Asks, Following
<1>4. ASSUME Lowered \in Literals PROVE Changes(given) = Assign(Depth, Literal)
  BY <1>1, <1>2, <1>4 DEF Changes
<1>5. ASSUME Lowered \in Unaries PROVE Changes(given) = Assign(Depth - 1, Unary(Below(1)))
  BY <1>1, <1>2, <1>5 DEF Changes
<1>6. ASSUME Lowered \in Binaries
      PROVE  Changes(given) = Assign(Depth - 2, Binary(Below(2), Below(1)))
  BY <1>1, <1>2, <1>6 DEF Changes
<1>. QED
  BY <1>1, <1>3, <1>4, <1>5, <1>6

LEMMA PlainAhead ==
  ASSUME Interpreting, NEW given, answer' = given, asked' = asked,
         Lowered \in Literals \cup Unaries \cup Binaries,
         NEW n \in Nat, n <= Depth, NEW w, Produce(n, w.value, w.state),
         Changes(given) = Assign(Depth - n, w)
  PROVE  Answering'
<1>1. PICK f : f = [Changes(given) EXCEPT !.pc = Following]
  OBVIOUS
<1>2. /\ Lowered \notin Return \cup {"call", "loop.guard"}
      /\ Faults(given) = "no_fault" /\ Asks = requested
      /\ Following = After(container, Innermost.pc)
  BY Plain
<1>3. RunsWith(activations, Len(activations) - 1, f)'
  BY <1>1, <1>2, ProducedSame
<1>4. asked' = Asks
  BY <1>2 DEF Interpreting, Together
<1>. QED
  BY <1>1, <1>2, <1>3, <1>4, AheadBy

-----------------------------------------------------------------------------
(* Literals. *)
LEMMA ConstantsAhead ==
  ASSUME Interpreting, NEW given, answer' = given, Constants
  PROVE  Answering'
<1>1. /\ Lowered = Name /\ Index = Arg /\ Depth \in Nat /\ Depth - 0 = Depth
      /\ 0 \in Nat /\ 0 <= Depth
  BY SamePlace DEF Interpreting, BoundInv
<1>2. ASSUME Name \in Literals, asked' = asked, NEW v, NEW s, Produce(0, v, s),
             Literal = Pair(v, s)
      PROVE  Answering'
  <2>1. /\ Changes(given) = Assign(Depth - 0, Pair(v, s))
        /\ Pair(v, s).value = v /\ Pair(v, s).state = s
    BY <1>1, <1>2, Plain DEF Pair
  <2>. QED
    BY <1>1, <1>2, <2>1, PlainAhead
<1>3. CASE ConstImmediate
  <2>1. /\ Name \in {"const.i32.s8", "const.i32.s16"} /\ asked' = asked
        /\ Produce(0, FromI32(Arg), VALID)
    BY <1>3 DEF ConstImmediate, On
  <2>2. Literal = Pair(FromI32(Arg), VALID) /\ Name \in Literals
    BY <1>1, <2>1 DEF Literal, Literals
  <2>. QED
    BY <1>2, <2>1, <2>2
<1>4. CASE ConstPool
  <2>1. /\ Name \in Pool /\ asked' = asked
        /\ Produce(0, IF Name = "const.i64" THEN FromI64(At(container.constants, Arg).value)
                      ELSE At(container.constants, Arg).value % M32, VALID)
    BY <1>4 DEF ConstPool, On
  <2>2. Literal = Pair(IF Name = "const.i64" THEN FromI64(At(container.constants, Arg).value)
                       ELSE At(container.constants, Arg).value % M32, VALID)
    BY <1>1, <2>1 DEF Literal, Pool
  <2>3. Name \in Literals
    BY <2>1 DEF Literals
  <2>. QED
    BY <1>2, <2>1, <2>2, <2>3
<1>5. CASE ConstBool
  <2>1. /\ Name \in {"const.true", "const.false"} /\ asked' = asked
        /\ Produce(0, FromBool(Name = "const.true"), VALID)
    BY <1>5 DEF ConstBool, On
  <2>2. Literal = Pair(FromBool(Name = "const.true"), VALID) /\ Name \in Literals
    BY <1>1, <2>1 DEF Literal, Literals
  <2>. QED
    BY <1>2, <2>1, <2>2
<1>6. CASE ConstAbsent
  <2>1. /\ Name \in ConstState /\ asked' = asked
        /\ Produce(0, 0, IF Name = "const.invalid" THEN INVALID ELSE UNAVAILABLE)
    BY <1>6 DEF ConstAbsent, On
  <2>2. Literal = Pair(0, IF Name = "const.invalid" THEN INVALID ELSE UNAVAILABLE)
    BY <1>1, <2>1 DEF Literal, ConstState
  <2>3. Name \in Literals
    BY <2>1 DEF Literals
  <2>. QED
    BY <1>2, <2>1, <2>2, <2>3
<1>. QED
  BY <1>3, <1>4, <1>5, <1>6 DEF Constants

(* How many operands there are at least. *)
LEMMA Operands ==
  ASSUME Interpreting
  PROVE  /\ Depth \in Nat /\ sp \in Int
         /\ Name \in OneToOne \cup Predicate \cup {"store.l", "store.h", "drop", "dup",
                                                   "jmp_if_false", "jmp_if_true"} =>
              1 <= Depth /\ Operand1 = Below(1).value /\ State1 = Below(1).state
         /\ Name \in TwoToOne \cup {"else"} =>
              /\ 2 <= Depth /\ Operand1 = Below(1).value /\ State1 = Below(1).state
              /\ Operand2 = Below(2).value /\ states[sp - 2] = Below(2).state
<1>. DEFINE stack == shapes[current][pc]
            n == Len(Takes(container, current, pc, stack))
<1>1. /\ Depth \in Nat /\ Depth = Len(stack) /\ current \in Functions(container)
      /\ pc \in DOMAIN shapes[current] /\ base \in Nat /\ OwnLocals \in Nat
      /\ sp = base + OwnLocals + Depth
  BY SamePlace DEF Interpreting, BoundInv
<1>2. n \in 0..Len(stack) /\ stack \in Seq(ValueType)
  BY <1>1, TypedInstruction DEF Interpreting, BoundInv, DeviceInv
<1>3. Name = NameAt(container, pc)
  BY DEF Name
<1>4. /\ Name \in TwoToOne => n = 2
      /\ Name \in OneToOne => n = 1
      /\ Name \in {"jmp_if_false", "jmp_if_true"} => n = 1
  BY <1>3, FixedCounts
<1>5. /\ Name \in {"store.l", "store.h", "drop"} => n = 1
      /\ Name \in Predicate => n = 1
      /\ Name = "dup" => n = 1
      /\ Name = "else" => n = 2
  BY <1>2, <1>3, TableCounts
<1>6. ASSUME 1 <= Depth PROVE Operand1 = Below(1).value /\ State1 = Below(1).state
  <2>1. 1 \in 1..Depth
    BY <1>1, <1>6
  <2>. QED
    BY <2>1, SameOperands DEF Interpreting, BoundInv, Operand1, State1
<1>7. ASSUME 2 <= Depth
      PROVE  Operand2 = Below(2).value /\ states[sp - 2] = Below(2).state
  <2>1. 2 \in 1..Depth
    BY <1>1, <1>7
  <2>. QED
    BY <2>1, SameOperands DEF Interpreting, BoundInv, Operand2
<1>. HIDE DEF n, stack
<1>8. /\ n = 1 => 1 <= Depth
      /\ n = 2 => 1 <= Depth /\ 2 <= Depth
  BY <1>1, <1>2
<1>9. sp \in Int
  BY <1>1
<1>. QED
  BY <1>1, <1>4, <1>5, <1>6, <1>7, <1>8, <1>9

-----------------------------------------------------------------------------
(* Operations on one operand. *)
LEMMA WideOperand ==
  ASSUME Interpreting, Name = "wrap.i64_i32"
  PROVE  Operand1 \in 0..M64 - 1
<1>. DEFINE stack == shapes[current][pc]
            takes == Takes(container, current, pc, stack)
<1>1. Name = NameAt(container, pc) /\ takes = Pops(Name)
  BY DEF Name, Takes, Predicate
<1>2. takes = <<I64>>
  BY <1>1 DEF Pops
<1>3. \A j \in 1..Len(takes) : stack[Len(stack) - Len(takes) + j] = takes[j]
  BY LookedUp DEF TypedAs, Interpreting, BoundInv
<1>4. Len(takes) = 1 /\ takes[1] = I64 /\ 1 \in 1..1
  BY <1>2
<1>5. Depth = Len(stack) /\ Depth \in Nat /\ 1 <= Depth
  BY Operands, SamePlace DEF Interpreting, BoundInv, OneToOne
<1>6. 1 \in 1..Len(stack) /\ Len(stack) - 1 + 1 = Len(stack)
  BY <1>5
<1>7. stack[Len(stack)] = I64
  BY <1>3, <1>4, <1>6
<1>8. Canonical(stack[Len(stack) - 1 + 1], values[sp - 1])
  BY <1>6, OperandsHold DEF Interpreting, BoundInv
<1>9. Canonical(I64, Operand1)
  BY <1>6, <1>7, <1>8 DEF Operand1
<1>. QED
  BY <1>9 DEF Canonical, I64, BOOL, I32, F32

UnaryTurns ==
  NegI32 \/ BitNotI32 \/ Not \/ NegI64 \/ ExtendI32I64 \/ WrapI64I32 \/ NegF32
    \/ ConvertToF32 \/ TruncToI32 \/ TruncToI64 \/ IsState

LEMMA UnariesAhead ==
  ASSUME Interpreting, NEW given, answer' = given, UnaryTurns
  PROVE  Answering'
<1>1. /\ Lowered = Name /\ Index = Arg /\ Depth \in Nat /\ 1 \in Nat
  BY SamePlace DEF Interpreting, BoundInv
<1>2. ASSUME Name \in OneToOne \cup Predicate, asked' = asked, NEW v, NEW s, Produce(1, v, s),
             Unary(Below(1)) = Pair(v, s)
      PROVE  Answering'
  <2>1. Name \in Unaries
    BY <1>2 DEF OneToOne, UnaryI32, Unaries
  <2>2. /\ Changes(given) = Assign(Depth - 1, Pair(v, s))
        /\ Pair(v, s).value = v /\ Pair(v, s).state = s
    BY <1>1, <1>2, <2>1, Plain DEF Pair
  <2>3. 1 <= Depth
    BY <1>2, Operands
  <2>. QED
    BY <1>1, <1>2, <2>1, <2>2, <2>3, PlainAhead
<1>3. ASSUME Name \in OneToOne \cup Predicate
      PROVE  Operand1 = Below(1).value /\ State1 = Below(1).state
  BY <1>3, Operands
<1>4. CASE NegI32
  <2>1. /\ Name = "neg.i32" /\ asked' = asked
        /\ Produce(1, FromI32(Neg(AsI32(Operand1), M32)), State1)
    BY <1>4 DEF NegI32, On, Operate
  <2>2. Name \in OneToOne
    BY <2>1 DEF OneToOne, UnaryI32
  <2>3. Unary(Below(1)) = Pair(FromI32(Neg(AsI32(Operand1), M32)), State1)
    BY <1>1, <1>3, <2>1, <2>2 DEF Unary
  <2>. QED
    BY <1>2, <2>1, <2>2, <2>3
<1>5. CASE BitNotI32
  <2>1. /\ Name = "bitnot.i32" /\ asked' = asked
        /\ Produce(1, FromI32(BitNot(AsI32(Operand1))), State1)
    BY <1>5 DEF BitNotI32, On, Operate
  <2>2. Name \in OneToOne
    BY <2>1 DEF OneToOne, UnaryI32
  <2>3. Unary(Below(1)) = Pair(FromI32(BitNot(AsI32(Operand1))), State1)
    BY <1>1, <1>3, <2>1, <2>2 DEF Unary
  <2>. QED
    BY <1>2, <2>1, <2>2, <2>3
<1>6. CASE Not
  <2>1. /\ Name = "not" /\ asked' = asked
        /\ Produce(1, FromBool(Operand1 = 0), State1)
    BY <1>6 DEF Not, On, Operate
  <2>2. Name \in OneToOne
    BY <2>1 DEF OneToOne
  <2>3. Unary(Below(1)) = Pair(FromBool(Operand1 = 0), State1)
    BY <1>1, <1>3, <2>1, <2>2 DEF Unary
  <2>. QED
    BY <1>2, <2>1, <2>2, <2>3
<1>7. CASE NegI64
  <2>1. /\ Name = "neg.i64" /\ asked' = asked
        /\ Produce(1, FromI64(Neg(AsI64(Operand1), M64)), State1)
    BY <1>7 DEF NegI64, On, Operate
  <2>2. Name \in OneToOne
    BY <2>1 DEF OneToOne
  <2>3. Unary(Below(1)) = Pair(FromI64(Neg(AsI64(Operand1), M64)), State1)
    BY <1>1, <1>3, <2>1, <2>2 DEF Unary
  <2>. QED
    BY <1>2, <2>1, <2>2, <2>3
<1>8. CASE ExtendI32I64
  <2>1. /\ Name = "extend.i32_i64" /\ asked' = asked
        /\ Produce(1, FromI64(AsI32(Operand1)), State1)
    BY <1>8 DEF ExtendI32I64, On, Operate
  <2>2. Name \in OneToOne
    BY <2>1 DEF OneToOne
  <2>3. Unary(Below(1)) = Pair(FromI64(AsI32(Operand1)), State1)
    BY <1>1, <1>3, <2>1, <2>2 DEF Unary
  <2>. QED
    BY <1>2, <2>1, <2>2, <2>3
<1>9. CASE WrapI64I32
  <2>1. /\ Name = "wrap.i64_i32" /\ asked' = asked
        /\ Produce(1, FromI32(AsI64(Operand1)), State1)
    BY <1>9 DEF WrapI64I32, On, Operate
  <2>2. Name \in OneToOne
    BY <2>1 DEF OneToOne
  <2>3. Unary(Below(1)) = Pair(FromI32(Operand1), State1)
    BY <1>1, <1>3, <2>1, <2>2 DEF Unary
  <2>4. FromI32(AsI64(Operand1)) = FromI32(Operand1)
    BY <2>1, WideOperand, LowHalf
  <2>. QED
    BY <1>2, <2>1, <2>2, <2>3, <2>4
<1>10. CASE NegF32
  <2>1. /\ Name = "neg.f32" /\ asked' = asked
        /\ Produce(1, AsF32(F32Neg(AsF32(Operand1))), State1)
    BY <1>10 DEF NegF32, On, Operate
  <2>2. Name \in OneToOne
    BY <2>1 DEF OneToOne
  <2>3. Unary(Below(1)) = Pair(F32Neg(AsF32(Operand1)), State1)
    BY <1>1, <1>3, <2>1, <2>2 DEF Unary
  <2>4. AsF32(F32Neg(AsF32(Operand1))) = F32Neg(AsF32(Operand1))
    <3>1. Operand1 \in Int
      <4>1. 1 = Len(Takes(container, current, pc, shapes[current][pc]))
        BY <2>2, FixedCounts DEF Name
      <4>. QED
        BY <4>1, TakenOperands DEF Interpreting, BoundInv
    <3>2. F32Neg(AsF32(Operand1)) \in 0..M32 - 1
      BY <3>1, OperandsRead, FloatAssumption
    <3>. QED
      BY <3>2, WordItself, WordAssumption DEF AsF32
  <2>. QED
    BY <1>2, <2>1, <2>2, <2>3, <2>4
<1>11. CASE ConvertToF32
  <2>. DEFINE n == IF Name = "convert.i32_f32" THEN AsI32(Operand1) ELSE AsI64(Operand1)
  <2>1. /\ Name \in {"convert.i32_f32", "convert.i64_f32"} /\ asked' = asked
        /\ Produce(1, AsF32(F32FromInt(n)), State1)
    BY <1>11 DEF ConvertToF32, On, Operate
  <2>2. Name \in OneToOne
    BY <2>1 DEF OneToOne
  <2>3. Unary(Below(1)) = Pair(AsF32(F32FromInt(n)), State1)
    BY <1>1, <1>3, <2>1, <2>2 DEF Unary
  <2>. QED
    BY <1>2, <2>1, <2>2, <2>3
<1>12. CASE TruncToI32
  <2>. DEFINE o == TruncF32(AsF32(Operand1), State1, M32)
  <2>1. /\ Name = "trunc.f32_i32" /\ asked' = asked
        /\ Produce(1, FromI32(o[1]), o[2])
    BY <1>12 DEF TruncToI32, On, Operate
  <2>2. Name \in OneToOne
    BY <2>1 DEF OneToOne
  <2>3. Unary(Below(1)) = Pair(FromI32(o[1]), o[2])
    BY <1>1, <1>3, <2>1, <2>2 DEF Unary, Encoded32
  <2>. QED
    BY <1>2, <2>1, <2>2, <2>3
<1>13. CASE TruncToI64
  <2>. DEFINE o == TruncF32(AsF32(Operand1), State1, M64)
  <2>1. /\ Name = "trunc.f32_i64" /\ asked' = asked
        /\ Produce(1, FromI64(o[1]), o[2])
    BY <1>13 DEF TruncToI64, On, Operate
  <2>2. Name \in OneToOne
    BY <2>1 DEF OneToOne
  <2>3. Unary(Below(1)) = Pair(FromI64(o[1]), o[2])
    BY <1>1, <1>3, <2>1, <2>2 DEF Unary, Encoded64
  <2>. QED
    BY <1>2, <2>1, <2>2, <2>3
<1>14. CASE IsState
  <2>. DEFINE wanted == CASE Name = "is_valid" -> VALID
                          [] Name = "is_unavailable" -> UNAVAILABLE
                          [] Name = "is_invalid" -> INVALID
  <2>1. /\ Name \in Predicate /\ asked' = asked
        /\ Produce(1, FromBool(State1 = wanted), VALID)
    BY <1>14 DEF IsState, On, Operate
  <2>2. Unary(Below(1)) = Pair(FromBool(State1 = wanted), VALID)
    BY <1>1, <1>3, <2>1 DEF Unary, Predicate
  <2>. QED
    BY <1>2, <2>1, <2>2
<1>. QED
  BY <1>4, <1>5, <1>6, <1>7, <1>8, <1>9, <1>10, <1>11, <1>12, <1>13, <1>14 DEF UnaryTurns

-----------------------------------------------------------------------------
(* Operations on two operands. *)
BinaryTurns ==
  BinaryI32 \/ DivideI32 \/ OrderI32 \/ BitwiseI32 \/ ShiftI32 \/ AndOr \/ Else
    \/ BinaryI64 \/ DivideI64 \/ OrderI64 \/ BinaryF32 \/ OrderF32

LEMMA BinariesAhead ==
  ASSUME Interpreting, NEW given, answer' = given, BinaryTurns
  PROVE  Answering'
<1>. DEFINE both == Binary(Below(2), Below(1))
            names == TwoToOne \cup {"else"}
<1>1. /\ Lowered = Name /\ Index = Arg /\ Depth \in Nat /\ 2 \in Nat
  BY SamePlace DEF Interpreting, BoundInv
<1>2. ASSUME Name \in names, asked' = asked, Produce(2, both.value, both.state)
      PROVE  Answering'
  <2>1. Name \in Binaries
    BY <1>2 DEF TwoToOne, Binaries
  <2>2. Changes(given) = Assign(Depth - 2, both)
    BY <1>1, <1>2, <2>1, Plain
  <2>3. 2 <= Depth
    BY <1>2, Operands
  <2>. QED
    BY <1>1, <1>2, <2>1, <2>2, <2>3, PlainAhead
<1>3. ASSUME Name \in names
      PROVE  /\ Operand1 = Below(1).value /\ State1 = Below(1).state
             /\ Operand2 = Below(2).value /\ states[sp - 2] = Below(2).state
             /\ State12 = Worse(Below(2).state, Below(1).state)
  BY <1>3, Operands DEF State12, State1
<1>4. ASSUME Name \in names, asked' = asked, NEW v, NEW s, both = Pair(v, s), Produce(2, v, s)
      PROVE  Answering'
  BY <1>2, <1>4 DEF Pair
<1>5. CASE BinaryI32
  <2>1. /\ Name \in ArithI32 /\ asked' = asked
        /\ Produce(2, FromI32(Wrapped(Name, AsI32(Operand2), AsI32(Operand1), M32)), State12)
    BY <1>5 DEF BinaryI32, On, Operate
  <2>2. Name \in names
    BY <2>1 DEF TwoToOne
  <2>3. both = Pair(FromI32(Wrapped(Name, AsI32(Operand2), AsI32(Operand1), M32)), State12)
    BY <1>1, <1>3, <2>1, <2>2
    DEF Binary, ArithI32, Bitwise32, ArithI64, DivRemI32, DivRemI64, CompareI32, CompareI64, CompareF32,
        ArithF32
  <2>. QED
    BY <1>4, <2>1, <2>2, <2>3
<1>6. CASE OrderI32
  <2>1. /\ Name \in CompareI32 /\ asked' = asked
        /\ Produce(2, FromBool(Compared(Name, AsI32(Operand2), AsI32(Operand1))), State12)
    BY <1>6 DEF OrderI32, On, Operate
  <2>2. Name \in names
    BY <2>1 DEF TwoToOne
  <2>3. both = Pair(FromBool(Compared(Name, AsI32(Operand2), AsI32(Operand1))), State12)
    BY <1>1, <1>3, <2>1, <2>2
    DEF Binary, ArithI32, Bitwise32, ArithI64, DivRemI32, DivRemI64, CompareI32, CompareI64, CompareF32,
        ArithF32
  <2>. QED
    BY <1>4, <2>1, <2>2, <2>3
<1>7. CASE BitwiseI32
  <2>1. /\ Name \in Bitwise32 /\ asked' = asked
        /\ Produce(2, FromI32(Bits(Name, AsI32(Operand2), AsI32(Operand1))), State12)
    BY <1>7 DEF BitwiseI32, On, Operate
  <2>2. Name \in names
    BY <2>1 DEF TwoToOne
  <2>3. both = Pair(FromI32(Bits(Name, AsI32(Operand2), AsI32(Operand1))), State12)
    BY <1>1, <1>3, <2>1, <2>2
    DEF Binary, ArithI32, Bitwise32, ArithI64, DivRemI32, DivRemI64, CompareI32, CompareI64, CompareF32,
        ArithF32
  <2>. QED
    BY <1>4, <2>1, <2>2, <2>3
<1>8. CASE BinaryI64
  <2>1. /\ Name \in ArithI64 /\ asked' = asked
        /\ Produce(2, FromI64(Wrapped(Name, AsI64(Operand2), AsI64(Operand1), M64)), State12)
    BY <1>8 DEF BinaryI64, On, Operate
  <2>2. Name \in names
    BY <2>1 DEF TwoToOne
  <2>3. both = Pair(FromI64(Wrapped(Name, AsI64(Operand2), AsI64(Operand1), M64)), State12)
    BY <1>1, <1>3, <2>1, <2>2
    DEF Binary, ArithI32, Bitwise32, ArithI64, DivRemI32, DivRemI64, CompareI32, CompareI64, CompareF32,
        ArithF32
  <2>. QED
    BY <1>4, <2>1, <2>2, <2>3
<1>9. CASE OrderI64
  <2>1. /\ Name \in CompareI64 /\ asked' = asked
        /\ Produce(2, FromBool(Compared(Name, AsI64(Operand2), AsI64(Operand1))), State12)
    BY <1>9 DEF OrderI64, On, Operate
  <2>2. Name \in names
    BY <2>1 DEF TwoToOne
  <2>3. both = Pair(FromBool(Compared(Name, AsI64(Operand2), AsI64(Operand1))), State12)
    BY <1>1, <1>3, <2>1, <2>2
    DEF Binary, ArithI32, Bitwise32, ArithI64, DivRemI32, DivRemI64, CompareI32, CompareI64, CompareF32,
        ArithF32
  <2>. QED
    BY <1>4, <2>1, <2>2, <2>3
<1>10. CASE BinaryF32
  <2>1. /\ Name \in ArithF32 /\ asked' = asked
        /\ Produce(2, AsF32(F32Arith(Name, AsF32(Operand2), AsF32(Operand1))), State12)
    BY <1>10 DEF BinaryF32, On, Operate
  <2>2. Name \in names
    BY <2>1 DEF TwoToOne
  <2>3. both = Pair(AsF32(F32Arith(Name, AsF32(Operand2), AsF32(Operand1))), State12)
    BY <1>1, <1>3, <2>1, <2>2
    DEF Binary, ArithI32, Bitwise32, ArithI64, DivRemI32, DivRemI64, CompareI32, CompareI64, CompareF32,
        ArithF32
  <2>. QED
    BY <1>4, <2>1, <2>2, <2>3
<1>11. CASE OrderF32
  <2>1. /\ Name \in CompareF32 /\ asked' = asked
        /\ Produce(2, FromBool(ComparedF32(Name, AsF32(Operand2), AsF32(Operand1))), State12)
    BY <1>11 DEF OrderF32, On, Operate
  <2>2. Name \in names
    BY <2>1 DEF TwoToOne
  <2>3. both = Pair(FromBool(ComparedF32(Name, AsF32(Operand2), AsF32(Operand1))), State12)
    BY <1>1, <1>3, <2>1, <2>2
    DEF Binary, ArithI32, Bitwise32, ArithI64, DivRemI32, DivRemI64, CompareI32, CompareI64, CompareF32,
        ArithF32
  <2>. QED
    BY <1>4, <2>1, <2>2, <2>3
<1>12. CASE DivideI32
  <2>. DEFINE o == DivRem(Name, AsI32(Operand2), AsI32(Operand1), State12, M32)
  <2>1. /\ Name \in DivRemI32 /\ asked' = asked
        /\ Produce(2, FromI32(o[1]), o[2])
    BY <1>12 DEF DivideI32, On, Operate
  <2>2. Name \in names
    BY <2>1 DEF TwoToOne
  <2>3. both = Pair(FromI32(o[1]), o[2])
    BY <1>1, <1>3, <2>1, <2>2
    DEF Binary, ArithI32, Bitwise32, ArithI64, DivRemI32, DivRemI64, CompareI32, CompareI64, CompareF32,
        ArithF32, Encoded32, Encoded64
  <2>. QED
    BY <1>4, <2>1, <2>2, <2>3
<1>13. CASE DivideI64
  <2>. DEFINE o == DivRem(Name, AsI64(Operand2), AsI64(Operand1), State12, M64)
  <2>1. /\ Name \in DivRemI64 /\ asked' = asked
        /\ Produce(2, FromI64(o[1]), o[2])
    BY <1>13 DEF DivideI64, On, Operate
  <2>2. Name \in names
    BY <2>1 DEF TwoToOne
  <2>3. both = Pair(FromI64(o[1]), o[2])
    BY <1>1, <1>3, <2>1, <2>2
    DEF Binary, ArithI32, Bitwise32, ArithI64, DivRemI32, DivRemI64, CompareI32, CompareI64, CompareF32,
        ArithF32, Encoded32, Encoded64
  <2>. QED
    BY <1>4, <2>1, <2>2, <2>3
<1>14. CASE ShiftI32
  <2>. DEFINE o == IF Name = "shl.i32" THEN Shl(AsI32(Operand2), AsI32(Operand1), State12)
                   ELSE Shr(AsI32(Operand2), AsI32(Operand1), State12)
  <2>1. /\ Name \in Shift32 /\ asked' = asked
        /\ Produce(2, FromI32(o[1]), o[2])
    BY <1>14 DEF ShiftI32, On, Operate
  <2>2. Name \in names
    BY <2>1 DEF TwoToOne
  <2>3. both = Pair(FromI32(o[1]), o[2])
    BY <1>1, <1>3, <2>1, <2>2
    DEF Binary, Encoded32, Shift32, ArithI32, Bitwise32, ArithI64, DivRemI32, DivRemI64, CompareI32, CompareI64, CompareF32,
        ArithF32
  <2>. QED
    BY <1>4, <2>1, <2>2, <2>3
<1>15. CASE AndOr
  <2>. DEFINE v == FromBool(IF Name = "and" THEN Operand2 # 0 /\ Operand1 # 0
                            ELSE Operand2 # 0 \/ Operand1 # 0)
  <2>1. /\ Name \in {"and", "or"} /\ asked' = asked
        /\ Produce(2, v, State12)
    BY <1>15 DEF AndOr, On, Operate
  <2>2. Name \in names
    BY <2>1 DEF TwoToOne
  <2>3. both = Pair(v, State12)
    BY <1>1, <1>3, <2>1, <2>2
    DEF Binary, Shift32, ArithI32, Bitwise32, ArithI64, DivRemI32, DivRemI64, CompareI32, CompareI64, CompareF32,
        ArithF32
  <2>. QED
    BY <1>4, <2>1, <2>2, <2>3
<1>16. CASE Else
  <2>1. /\ Name = "else" /\ asked' = asked
        /\ IF states[sp - 2] # VALID THEN Produce(2, Operand1, State1)
           ELSE Produce(2, Operand2, VALID)
    BY <1>16 DEF Else, On
  <2>2. Name \in names
    BY <2>1
  <2>3. both = IF Below(2).state # VALID THEN Below(1) ELSE Below(2)
    BY <1>1, <2>1
    DEF Binary, Shift32, ArithI32, Bitwise32, ArithI64, DivRemI32, DivRemI64, CompareI32, CompareI64, CompareF32,
        ArithF32
  <2>4. CASE states[sp - 2] # VALID
    BY <1>2, <1>3, <2>1, <2>2, <2>3, <2>4
  <2>5. CASE states[sp - 2] = VALID
    BY <1>2, <1>3, <2>1, <2>2, <2>3, <2>5
  <2>. QED
    BY <2>4, <2>5
<1>. QED
  BY <1>5, <1>6, <1>7, <1>8, <1>9, <1>10, <1>11, <1>12, <1>13, <1>14, <1>15, <1>16 DEF BinaryTurns

-----------------------------------------------------------------------------
(* A fault of the interpreter that the C meets too. *)
LEMMA FailsAhead ==
  ASSUME Interpreting, NEW kind, FaultWith(kind)
  PROVE  Failed(kind)'
<1>1. result = reported.result
  BY DEF Interpreting, Together, RunsWith
<1>2. status' = "idle" /\ returned' = FALSE /\ fault' = kind /\ result' = result
  BY DEF FaultWith, Leave
<1>3. reported' = reported
  BY DEF Interpreting, cVars
<1>. QED
  BY <1>1, <1>2, <1>3 DEF Failed

(* The interpreter at an instruction that moves values or goes on elsewhere. *)
LEMMA Moving ==
  ASSUME NEW given
  PROVE  /\ Lowered \in {"load.l", "store.l", "dup", "drop", "load.h", "store.h", "jmp"} =>
              Faults(given) = "no_fault"
         /\ Lowered \in {"load.l", "store.l", "dup", "drop", "load.h", "store.h", "call.h",
                         "loop.guard"} => Following = After(container, Innermost.pc)
         /\ Lowered \in {"load.l", "store.l", "dup", "drop", "loop.guard", "jmp",
                         "jmp_if_false", "jmp_if_true"} => Asks = requested
         /\ Lowered \in {"drop", "store.h", "jmp", "jmp_if_false", "jmp_if_true"} =>
              Changes(given) = Innermost
         /\ Lowered = "load.l" => Changes(given) = Assign(Depth, Innermost.local[Index])
         /\ Lowered = "dup" => Changes(given) = Assign(Depth, Below(1))
         /\ Lowered = "store.l" => Changes(given) = [Innermost EXCEPT !.local[Index] = Below(1)]
         /\ Lowered = "load.h" => Changes(given) = Assign(Depth, Heard(given))
         /\ Lowered = "call.h" =>
              Changes(given) = IF Imported.type # VOID
                               THEN Assign(Depth - Len(Imported.param_types), Heard(given))
                               ELSE Innermost
         /\ Lowered = "loop.guard" =>
              Changes(given) =
                [Innermost EXCEPT !.local[Index] = Pair(FromI32(Decremented), @.state)]
<1>1. Lowered \in {"load.l", "store.l", "dup", "drop", "load.h", "store.h", "call.h",
                   "loop.guard", "jmp", "jmp_if_false", "jmp_if_true"} =>
        /\ Lowered \notin Literals
        /\ Lowered \notin Unaries
        /\ Lowered \notin Binaries
  BY DEF Literals, Unaries, Binaries, Pool, ConstState, Predicate, ArithI32, Bitwise32, ArithI64,
     DivRemI32, DivRemI64, Shift32, ArithF32, CompareI32, CompareI64, CompareF32
<1>2. Lowered \in {"load.l", "store.l", "dup", "drop", "load.h", "store.h", "jmp"} =>
        Faults(given) = "no_fault"
  BY DEF Faults
<1>3. Lowered \in {"load.l", "store.l", "dup", "drop", "load.h", "store.h", "call.h",
                   "loop.guard"} => Following = After(container, Innermost.pc)
  BY DEF Following
<1>4. Lowered \in {"load.l", "store.l", "dup", "drop", "loop.guard", "jmp",
                   "jmp_if_false", "jmp_if_true"} => Asks = requested
  BY DEF Asks
<1>5. Lowered \in {"drop", "store.h", "jmp", "jmp_if_false", "jmp_if_true"} =>
        Changes(given) = Innermost
  BY <1>1 DEF Changes
<1>6. /\ Lowered = "load.l" => Changes(given) = Assign(Depth, Innermost.local[Index])
      /\ Lowered = "dup" => Changes(given) = Assign(Depth, Below(1))
      /\ Lowered = "store.l" => Changes(given) = [Innermost EXCEPT !.local[Index] = Below(1)]
      /\ Lowered = "load.h" => Changes(given) = Assign(Depth, Heard(given))
  BY <1>1 DEF Changes
<1>7. Lowered = "call.h" =>
        Changes(given) = IF Imported.type # VOID
                         THEN Assign(Depth - Len(Imported.param_types), Heard(given))
                         ELSE Innermost
  BY <1>1 DEF Changes
<1>8. Lowered = "loop.guard" =>
        Changes(given) =
          [Innermost EXCEPT !.local[Index] = Pair(FromI32(Decremented), @.state)]
  BY <1>1 DEF Changes
<1>. QED
  BY <1>2, <1>3, <1>4, <1>5, <1>6, <1>7, <1>8

LEMMA PushesAhead ==
  ASSUME Interpreting, NEW given, answer' = given, asked' = Asks,
         Lowered \notin Return \cup {"call", "loop.guard"}, Faults(given) = "no_fault",
         Following = After(container, Innermost.pc),
         NEW n \in Nat, n <= Depth, NEW w, Produce(n, w.value, w.state),
         Changes(given) = Assign(Depth - n, w)
  PROVE  Answering'
<1>1. PICK f : f = [Changes(given) EXCEPT !.pc = Following]
  OBVIOUS
<1>2. RunsWith(activations, Len(activations) - 1, f)'
  BY <1>1, ProducedSame
<1>. QED
  BY <1>1, <1>2, AheadBy

LEMMA PopsAhead ==
  ASSUME Interpreting, NEW given, answer' = given, asked' = Asks,
         Lowered \notin Return \cup {"call", "loop.guard"}, Faults(given) = "no_fault",
         Changes(given) = Innermost, pc' = Following, status' = "running",
         UNCHANGED <<frameVars, result, slots>>, NEW z \in Int, sp' = z, z <= sp
  PROVE  Answering'
<1>1. PICK f : f = [Innermost EXCEPT !.pc = Following]
  OBVIOUS
<1>2. RunsWith(activations, Len(activations) - 1, f)'
  BY <1>1, PoppedSame
<1>. QED
  BY <1>1, <1>2, AheadBy

LEMMA LocalsAhead ==
  ASSUME Interpreting, NEW given, answer' = given, LoadL \/ StoreL
  PROVE  Answering'
<1>1. /\ Lowered = Name /\ Index = Arg /\ Depth \in Nat /\ OwnLocals \in Nat /\ sp \in Int
      /\ Innermost.pc = pc /\ status = "running"
  BY SamePlace, Operands DEF Interpreting, BoundInv
<1>2. Name \in {"load.l", "store.l"} => Arg \in 0..OwnLocals - 1
  BY LookedUp DEF Interpreting, BoundInv, OwnLocals
<1>3. asked = requested
  BY DEF Interpreting, Together
<1>4. CASE LoadL
  <2>1. /\ Name = "load.l" /\ asked' = asked
        /\ Produce(0, values[base + Arg], states[base + Arg])
    BY <1>4 DEF LoadL, On
  <2>. DEFINE w == Innermost.local[Index]
  <2>2. values[base + Arg] = w.value /\ states[base + Arg] = w.state
    BY <1>1, <1>2, <2>1, SameLocals DEF Interpreting, BoundInv
  <2>. HIDE DEF w
  <2>3. Produce(0, w.value, w.state)
    BY <2>1, <2>2
  <2>4. /\ Faults(given) = "no_fault" /\ Following = After(container, Innermost.pc)
        /\ Asks = requested /\ Changes(given) = Assign(Depth, w)
    BY <1>1, <2>1, Moving DEF w
  <2>5. 0 \in Nat /\ 0 <= Depth /\ Depth - 0 = Depth
    BY <1>1
  <2>6. Lowered \notin Return \cup {"call", "loop.guard"}
    BY <1>1, <2>1 DEF Return
  <2>. QED
    BY <1>3, <2>1, <2>3, <2>4, <2>5, <2>6, PushesAhead
<1>5. CASE StoreL
  <2>1. /\ Name = "store.l" /\ asked' = asked /\ sp' = sp - 1 /\ Advance
        /\ values' = [values EXCEPT ![base + Arg] = Operand1]
        /\ states' = [states EXCEPT ![base + Arg] = State1]
    BY <1>5 DEF StoreL, On
  <2>2. Operand1 = Below(1).value /\ State1 = Below(1).state
    BY <2>1, Operands
  <2>3. /\ status' = "running" /\ UNCHANGED <<frameVars, result>>
        /\ pc' = After(container, Innermost.pc)
    BY <1>1, <2>1 DEF Advance, report, After, Name
  <2>4. /\ Faults(given) = "no_fault" /\ Following = After(container, Innermost.pc)
        /\ Asks = requested /\ Changes(given) = [Innermost EXCEPT !.local[Index] = Below(1)]
    BY <1>1, <2>1, Moving
  <2>5. PICK f : f = [Changes(given) EXCEPT !.pc = Following]
    OBVIOUS
  <2>6. f = WithLocal(Innermost, Arg, Below(1), pc')
    BY <1>1, <2>3, <2>4, <2>5 DEF WithLocal
  <2>7. PICK z \in Int : sp' = z /\ z <= sp
    BY <1>1, <2>1
  <2>8. RunsWith(activations, Len(activations) - 1, f)'
    <3>1. Arg \in 0..OwnLocals - 1
      BY <1>2, <2>1
    <3>. QED
      BY <2>1, <2>2, <2>3, <2>6, <2>7, <3>1, LocalSetSame
  <2>9. Lowered \notin Return \cup {"call", "loop.guard"}
    BY <1>1, <2>1 DEF Return
  <2>. QED
    BY <1>3, <2>1, <2>4, <2>5, <2>8, <2>9, AheadBy
<1>. QED
  BY <1>4, <1>5

LEMMA StackAhead ==
  ASSUME Interpreting, NEW given, answer' = given, Drop \/ Dup \/ Jmp
  PROVE  Answering'
<1>1. /\ Lowered = Name /\ Index = Arg /\ Depth \in Nat /\ sp \in Int
      /\ Innermost.pc = pc /\ status = "running"
  BY SamePlace, Operands DEF Interpreting, BoundInv
<1>2. asked = requested
  BY DEF Interpreting, Together
<1>3. CASE Drop
  <2>1. /\ Name = "drop" /\ asked' = asked /\ sp' = sp - 1 /\ Advance
        /\ UNCHANGED slots
    BY <1>3 DEF Drop, On
  <2>2. /\ status' = "running" /\ UNCHANGED <<frameVars, result, slots>>
        /\ pc' = After(container, Innermost.pc)
    BY <1>1, <2>1 DEF Advance, report, After, Name
  <2>3. /\ Faults(given) = "no_fault" /\ Following = After(container, Innermost.pc)
        /\ Asks = requested /\ Changes(given) = Innermost
    BY <1>1, <2>1, Moving
  <2>4. PICK z \in Int : sp' = z /\ z <= sp
    BY <1>1, <2>1
  <2>5. Lowered \notin Return \cup {"call", "loop.guard"}
    BY <1>1, <2>1 DEF Return
  <2>. QED
    BY <1>2, <2>1, <2>2, <2>3, <2>4, <2>5, PopsAhead
<1>4. CASE Dup
  <2>1. Name = "dup" /\ asked' = asked /\ Produce(0, Operand1, State1)
    BY <1>4 DEF Dup, On
  <2>2. Operand1 = Below(1).value /\ State1 = Below(1).state
    BY <2>1, Operands
  <2>3. /\ Faults(given) = "no_fault" /\ Following = After(container, Innermost.pc)
        /\ Asks = requested /\ Changes(given) = Assign(Depth, Below(1))
    BY <1>1, <2>1, Moving
  <2>4. 0 \in Nat /\ 0 <= Depth /\ Depth - 0 = Depth
    BY <1>1
  <2>5. Lowered \notin Return \cup {"call", "loop.guard"}
    BY <1>1, <2>1 DEF Return
  <2>6. Produce(0, Below(1).value, Below(1).state)
    BY <2>1, <2>2
  <2>. QED
    BY <1>2, <2>1, <2>3, <2>4, <2>5, <2>6, PushesAhead
<1>5. CASE Jmp
  <2>1. /\ Name = "jmp" /\ asked' = asked /\ sp' = sp /\ UNCHANGED <<status, result, frameVars>>
        /\ UNCHANGED slots /\ pc' = Target(container, pc)
    BY <1>5 DEF Jmp, On, report
  <2>2. /\ Faults(given) = "no_fault" /\ Asks = requested /\ Changes(given) = Innermost
    BY <1>1, <2>1, Moving
  <2>3. Following = Target(container, Innermost.pc)
    BY <1>1, <2>1 DEF Following, Jumps
  <2>4. PICK z \in Int : sp' = z /\ z <= sp
    BY <1>1, <2>1
  <2>5. Lowered \notin Return \cup {"call", "loop.guard"}
    BY <1>1, <2>1 DEF Return
  <2>. QED
    BY <1>1, <1>2, <2>1, <2>2, <2>3, <2>4, <2>5, PopsAhead
<1>. QED
  BY <1>3, <1>4, <1>5

LEMMA JmpIfAhead ==
  ASSUME Interpreting, NEW given, answer' = given, JmpIf
  PROVE  Answering'
<1>1. /\ Lowered = Name /\ Index = Arg /\ Depth \in Nat /\ sp \in Int
      /\ Innermost.pc = pc /\ status = "running"
  BY SamePlace, Operands DEF Interpreting, BoundInv
<1>2. /\ Name \in {"jmp_if_false", "jmp_if_true"} /\ asked' = asked /\ asked = requested
  BY DEF JmpIf, On, Interpreting, Together
<1>3. Operand1 = Below(1).value /\ State1 = Below(1).state
  BY <1>2, Operands
<1>4. /\ Asks = requested /\ Changes(given) = Innermost
      /\ Lowered \notin Return \cup {"call", "loop.guard"}
  BY <1>1, <1>2, Moving DEF Return
<1>5. CASE State1 # VALID
  <2>1. FaultWith("absent_condition")
    BY <1>5 DEF JmpIf
  <2>2. Faults(given) = "absent_condition"
    BY <1>1, <1>2, <1>3, <1>5 DEF Faults
  <2>3. Failed("absent_condition")'
    BY <2>1, FailsAhead
  <2>4. Faults(given)' = "absent_condition"
    <3>1. UNCHANGED <<verifyVars, cVars>>
      BY DEF Interpreting
    <3>. QED
      BY <2>2, <3>1, Unmoved
  <2>5. Faults(given) # "no_fault" /\ Failed(Faults(given))'
    BY <2>2, <2>3, <2>4
  <2>. QED
    BY <1>2, <1>4, <2>5, AheadBy
<1>6. CASE State1 = VALID
  <2>1. /\ pc' = IF (Name = "jmp_if_false") = (Operand1 = 0)
                 THEN Target(container, pc) ELSE After(container, pc)
        /\ sp' = sp - 1 /\ UNCHANGED <<status, result, frameVars, slots>>
    BY <1>6 DEF JmpIf, report
  <2>2. Faults(given) = "no_fault"
    BY <1>1, <1>2, <1>3, <1>6 DEF Faults
  <2>3. pc' = Following
    BY <1>1, <1>2, <1>3, <2>1 DEF Following, Jumps
  <2>4. PICK z \in Int : sp' = z /\ z <= sp
    BY <1>1, <2>1
  <2>. QED
    BY <1>1, <1>2, <1>4, <2>1, <2>2, <2>3, <2>4, PopsAhead
<1>. QED
  BY <1>5, <1>6

-----------------------------------------------------------------------------
(* What crosses to the host and back.  The C reads a slot as the interpreter
   does, and writes back the word the interpreter's slot holds. *)
LEMMA SameCrossing ==
  ASSUME NEW type \in ValueType, NEW raw, NEW state
  PROVE  SlotToValue(type, raw, state) = Crossing(type, raw, state)
<1>1. type \in {I32, I64, F32, BOOL}
  BY DEF ValueType, I32, I64, F32, BOOL
<1>. QED
  BY <1>1 DEF SlotToValue, Crossing, ReadSlot, I32, I64, F32, BOOL

LEMMA WrittenBack ==
  ASSUME NEW type \in ValueType, NEW value \in HostValue, NEW state
  PROVE  LET raw == ValueToSlot(type, value)
         IN  WriteSlot(type, SlotToValue(type, raw, state).as) = raw
<1>. DEFINE raw  == ValueToSlot(type, value)
            back == SlotToValue(type, raw, state).as
<1>1. type \in {I32, I64, F32, BOOL}
  BY DEF ValueType, I32, I64, F32, BOOL
<1>2. value.as \in Int
  BY VmAssumption DEF HostValue
<1>3. /\ M32 \in Nat \ {0} /\ M64 \in Nat \ {0}
      /\ value.as % M32 \in 0..M32 - 1 /\ value.as % M64 \in 0..M64 - 1
  <2>1. M32 \in Nat \ {0} /\ M64 \in Nat \ {0}
    BY WordAssumption
  <2>. HIDE DEF M32, M64
  <2>2. value.as % M32 \in 0..M32 - 1 /\ value.as % M64 \in 0..M64 - 1
    BY <1>2, <2>1, Division
  <2>. QED
    BY <2>1, <2>2
<1>4. CASE type = I32
  <2>1. raw = value.as % M32 /\ back = Signed(raw, M32)
    BY <1>4 DEF ValueToSlot, SlotToValue, FromI32, AsI32, I32, I64, F32, BOOL
  <2>2. WriteSlot(type, back) = back % M32
    BY <1>4 DEF WriteSlot, FromI32, I32, I64, F32, BOOL
  <2>. HIDE DEF raw, back
  <2>3. raw \in 0..M32 - 1 /\ raw \in Int
    BY <1>3, <2>1
  <2>. QED
    BY <1>3, <2>1, <2>2, <2>3, SignedBack, WordItself DEF raw, back
<1>5. CASE type = I64
  <2>1. raw = value.as % M64 /\ back = Signed(raw, M64)
    BY <1>5 DEF ValueToSlot, SlotToValue, FromI64, AsI64, I32, I64, F32, BOOL
  <2>2. WriteSlot(type, back) = back % M64
    BY <1>5 DEF WriteSlot, FromI64, I32, I64, F32, BOOL
  <2>. HIDE DEF raw, back
  <2>3. raw \in 0..M64 - 1 /\ raw \in Int
    BY <1>3, <2>1
  <2>. QED
    BY <1>3, <2>1, <2>2, <2>3, SignedBack, WordItself DEF raw, back
<1>6. CASE type = F32
  <2>1. raw = value.as % M32 /\ back = raw % M32
    BY <1>6 DEF ValueToSlot, SlotToValue, AsF32, I32, I64, F32, BOOL
  <2>2. WriteSlot(type, back) = back % M32
    BY <1>6 DEF WriteSlot, AsF32, I32, I64, F32, BOOL
  <2>. HIDE DEF raw, back
  <2>3. raw \in 0..M32 - 1
    BY <1>3, <2>1
  <2>. QED
    BY <1>3, <2>1, <2>2, <2>3, WordItself DEF raw, back
<1>7. CASE type = BOOL
  <2>1. raw = FromBool(value.as # 0) /\ back = FromBool(raw # 0)
    BY <1>7 DEF ValueToSlot, SlotToValue, I32, I64, F32, BOOL
  <2>2. WriteSlot(type, back) = FromBool(back # 0)
    BY <1>7 DEF WriteSlot, I32, I64, F32, BOOL
  <2>. QED
    BY <2>1, <2>2 DEF FromBool
<1>. QED
  BY <1>1, <1>4, <1>5, <1>6, <1>7

(* The host's answer, as the C hears it, is what the interpreter's slot took. *)
LEMMA Hears ==
  ASSUME Interpreting, NEW given, given = Answered, Name \in {"load.h", "call.h"},
         Imp.type \in ValueType, NEW n \in Nat, sp - n \in Slot, NEW value \in HostValue,
         Produce(n, ValueToSlot(Imp.type, value), value.validity)
  PROVE  /\ given.accepted
         /\ Heard(given) = Pair(ValueToSlot(Imp.type, value), value.validity)
<1>. DEFINE raw == ValueToSlot(Imp.type, value)
            y   == sp - n
<1>1. /\ values' = [values EXCEPT ![y] = raw] /\ states' = [states EXCEPT ![y] = value.validity]
      /\ sp' = y + 1 /\ status' = status
  BY DEF Produce, Advance
<1>2. status = "running" /\ y \in Int /\ Imported = Imp
  BY SamePlace DEF Interpreting, BoundInv, Slot
<1>3. values'[y] = raw /\ states'[y] = value.validity
  BY <1>1 DEF Interpreting, ValuesInv, SlotsTyped
<1>. HIDE DEF y, raw
<1>4. sp' - 1 = y
  BY <1>1, <1>2
<1>5. Imp.type # VOID
  BY DEF ValueType, VOID, I32, BOOL
<1>6. given = [accepted |-> TRUE, value |-> SlotToValue(Imp.type, values'[y], states'[y])]
  BY <1>1, <1>2, <1>4, <1>5 DEF Answered
<1>7. given.value = SlotToValue(Imp.type, raw, value.validity) /\ given.accepted
  BY <1>3, <1>6
<1>8. given.value.validity = value.validity
  BY <1>7 DEF SlotToValue
<1>9. WriteSlot(Imp.type, given.value.as) = raw
  BY <1>7, WrittenBack DEF raw
<1>. QED
  BY <1>2, <1>7, <1>8, <1>9 DEF Heard, raw

LEMMA EntitiesAhead ==
  ASSUME Interpreting, NEW given, answer' = given, given = Answered, LoadH \/ StoreH
  PROVE  Answering'
<1>1. /\ Lowered = Name /\ Index = Arg /\ Imported = Imp /\ Depth \in Nat /\ sp \in Int
      /\ Innermost.pc = pc /\ status = "running"
  BY SamePlace, Operands DEF Interpreting, BoundInv
<1>2. Name \in {"load.h", "store.h"} => Imp.type \in ValueType
  BY LookedUp DEF Interpreting, BoundInv
<1>3. CASE LoadH
  <2>1. Name = "load.h" /\ asked' = <<"read", Arg>> /\ InBounds
    BY <1>3 DEF LoadH, On
  <2>2. PICK value \in HostValue : Produce(0, ValueToSlot(Imp.type, value), value.validity)
    BY <1>3 DEF LoadH
  <2>. DEFINE w == Pair(ValueToSlot(Imp.type, value), value.validity)
  <2>3. sp - 0 \in Slot
    BY <1>1, <2>1 DEF InBounds, Touched, Polymorphic, Predicate, ConstState
  <2>4. Heard(given) = w
    BY <1>2, <2>1, <2>2, <2>3, Hears
  <2>5. w.value = ValueToSlot(Imp.type, value) /\ w.state = value.validity
    BY DEF Pair
  <2>. HIDE DEF w
  <2>6. Produce(0, w.value, w.state)
    BY <2>2, <2>5
  <2>7. /\ Faults(given) = "no_fault" /\ Following = After(container, Innermost.pc)
        /\ Changes(given) = Assign(Depth, w)
    BY <1>1, <2>1, <2>4, Moving
  <2>8. Asks = <<"read", Index>>
    BY <1>1, <2>1 DEF Asks
  <2>9. Lowered \notin Return \cup {"call", "loop.guard"}
    BY <1>1, <2>1 DEF Return
  <2>10. 0 \in Nat /\ 0 <= Depth /\ Depth - 0 = Depth
    BY <1>1
  <2>. QED
    BY <1>1, <2>1, <2>6, <2>7, <2>8, <2>9, <2>10, PushesAhead
<1>4. CASE StoreH
  <2>1. /\ Name = "store.h" /\ sp' = sp - 1 /\ Advance /\ UNCHANGED slots
        /\ asked' = <<"write", Arg, SlotToValue(Imp.type, Operand1, State1)>>
    BY <1>4 DEF StoreH, On
  <2>2. Operand1 = Below(1).value /\ State1 = Below(1).state
    BY <2>1, Operands
  <2>3. SlotToValue(Imp.type, Operand1, State1) = Crossing(Imp.type, Operand1, State1)
    BY <1>2, <2>1, SameCrossing
  <2>4. asked' = Asks
    BY <1>1, <2>1, <2>2, <2>3 DEF Asks
  <2>5. /\ status' = "running" /\ UNCHANGED <<frameVars, result, slots>>
        /\ pc' = After(container, Innermost.pc)
    BY <1>1, <2>1 DEF Advance, report, After, Name
  <2>6. /\ Faults(given) = "no_fault" /\ Following = After(container, Innermost.pc)
        /\ Changes(given) = Innermost
    BY <1>1, <2>1, Moving
  <2>7. PICK z \in Int : sp' = z /\ z <= sp
    BY <1>1, <2>1
  <2>8. Lowered \notin Return \cup {"call", "loop.guard"}
    BY <1>1, <2>1 DEF Return
  <2>. QED
    BY <2>4, <2>5, <2>6, <2>7, <2>8, PopsAhead
<1>. QED
  BY <1>3, <1>4

LEMMA HostCallAhead ==
  ASSUME Interpreting, NEW given, answer' = given, given = Answered, CallH
  PROVE  Answering'
<1>. DEFINE count == Len(Imp.param_types)
            stack == shapes[current][pc]
<1>1. /\ Lowered = Name /\ Index = Arg /\ Imported = Imp /\ Depth \in Nat /\ sp \in Int
      /\ Depth = Len(stack) /\ Innermost.pc = pc /\ status = "running"
      /\ current \in Functions(container) /\ pc \in DOMAIN shapes[current]
  BY SamePlace, Operands DEF Interpreting, BoundInv
<1>2. Name = "call.h" /\ InBounds
  BY DEF CallH, On
<1>3. Imp.param_types \in Seq(ValueType) /\ Imp.type \in ValType
  BY <1>2, LookedUp DEF Interpreting, BoundInv
<1>4. count \in Nat /\ count <= Depth
  <2>1. Takes(container, current, pc, stack) = Imp.param_types
    BY <1>2 DEF Takes, Name, Imp, Arg, Predicate, ConstState
  <2>. QED
    BY <1>1, <2>1, TypedInstruction DEF Interpreting, BoundInv, DeviceInv
<1>5. asked' = Asks
  <2>. DEFINE told == [p \in 1..count |->
                         SlotToValue(Imp.param_types[p], values[sp - count + p - 1],
                                     states[sp - count + p - 1])]
  <2>1. asked' = <<"call", Arg, told>>
    BY DEF CallH
  <2>2. ASSUME NEW p \in 1..count
        PROVE  told[p] = Crossing(Imported.param_types[p], Innermost.slot[Depth - count + p - 1].value,
                                  Innermost.slot[Depth - count + p - 1].state)
    <3>1. PICK j : j = count - p + 1
      OBVIOUS
    <3>2. /\ j \in 1..Depth /\ sp - j = sp - count + p - 1 /\ Depth - j = Depth - count + p - 1
      BY <1>1, <1>4, <3>1
    <3>3. values[sp - j] = Below(j).value /\ states[sp - j] = Below(j).state
      BY <3>2, SameOperands DEF Interpreting, BoundInv
    <3>4. Imp.param_types[p] \in ValueType
      BY <1>3, ElementOfSeq
    <3>5. told[p] = SlotToValue(Imp.param_types[p], values[sp - j], states[sp - j])
      BY <3>2
    <3>6. Below(j) = Innermost.slot[Depth - count + p - 1]
      BY <3>2 DEF Below
    <3>. HIDE DEF told, count
    <3>7. told[p] = Crossing(Imp.param_types[p], Below(j).value, Below(j).state)
      BY <3>3, <3>4, <3>5, SameCrossing
    <3>. QED
      BY <1>1, <3>6, <3>7
  <2>3. told = Arguments(count)
    BY <2>2 DEF Arguments
  <2>. HIDE DEF told
  <2>4. Asks = <<"call", Index, Arguments(count)>>
    BY <1>1, <1>2 DEF Asks
  <2>. QED
    BY <1>1, <2>1, <2>3, <2>4
<1>6. Lowered \notin Return \cup {"call", "loop.guard"}
  BY <1>1, <1>2 DEF Return
<1>7. /\ Following = After(container, Innermost.pc)
      /\ Changes(given) = IF Imp.type # VOID THEN Assign(Depth - count, Heard(given))
                          ELSE Innermost
      /\ Faults(given) = IF given.accepted THEN "no_fault" ELSE "host_fault"
  <2>1. Lowered = "call.h"
    BY <1>1, <1>2
  <2>2. Faults(given) = IF given.accepted THEN "no_fault" ELSE "host_fault"
    BY <2>1 DEF Faults
  <2>. QED
    BY <1>1, <2>1, <2>2, Moving
<1>. HIDE DEF count
<1>8. CASE FaultWith("host_fault")
  <2>1. status' = "idle"
    BY <1>8 DEF FaultWith, Leave
  <2>2. ~given.accepted
    BY <2>1 DEF Answered, NoAnswer
  <2>3. Failed("host_fault")'
    BY <1>8, FailsAhead
  <2>4. UNCHANGED <<verifyVars, cVars>>
    BY DEF Interpreting
  <2>5. Faults(given)' = "host_fault"
    BY <1>7, <2>2, <2>4, Unmoved
  <2>6. Faults(given) # "no_fault" /\ Failed(Faults(given))'
    BY <1>7, <2>2, <2>3, <2>5
  <2>. QED
    BY <1>5, <1>6, <2>6, AheadBy
<1>9. CASE Imp.type = VOID /\ sp' = sp - count /\ Advance /\ UNCHANGED slots
  <2>1. /\ status' = "running" /\ UNCHANGED <<frameVars, result, slots>>
        /\ pc' = After(container, Innermost.pc)
    BY <1>1, <1>9 DEF Advance, report, After, Name
  <2>2. given.accepted
    BY <1>2, <2>1 DEF Answered
  <2>3. PICK z \in Int : sp' = z /\ z <= sp
    BY <1>1, <1>4, <1>9
  <2>4. Faults(given) = "no_fault" /\ Changes(given) = Innermost /\ pc' = Following
    BY <1>7, <1>9, <2>1, <2>2
  <2>. QED
    BY <1>5, <1>6, <2>1, <2>3, <2>4, PopsAhead
<1>10. ASSUME Imp.type # VOID, NEW value \in HostValue,
              Produce(count, ValueToSlot(Imp.type, value), value.validity)
       PROVE  Answering'
  <2>1. Imp.type \in ValueType
    BY <1>3, <1>10 DEF ValType, ValueType, VOID, I32, BOOL
  <2>2. sp - count \in Slot
    <3>1. Touched = sp - count..sp - 1 \cup {sp - count}
      BY <1>2, <1>10 DEF Touched, Polymorphic, Predicate, ConstState, count
    <3>. QED
      BY <1>2, <3>1 DEF InBounds
  <2>. DEFINE w == Pair(ValueToSlot(Imp.type, value), value.validity)
  <2>3. given.accepted /\ Heard(given) = w
    BY <1>2, <1>4, <1>10, <2>1, <2>2, Hears
  <2>4. w.value = ValueToSlot(Imp.type, value) /\ w.state = value.validity
    BY DEF Pair
  <2>. HIDE DEF w
  <2>5. Produce(count, w.value, w.state)
    BY <1>10, <2>4
  <2>6. Faults(given) = "no_fault" /\ Changes(given) = Assign(Depth - count, w)
    BY <1>7, <1>10, <2>3
  <2>. QED
    BY <1>4, <1>5, <1>6, <1>7, <2>5, <2>6, PushesAhead
<1>11. \/ FaultWith("host_fault")
       \/ Imp.type = VOID /\ sp' = sp - count /\ Advance /\ UNCHANGED slots
       \/ /\ Imp.type # VOID
          /\ \E value \in HostValue :
               Produce(count, ValueToSlot(Imp.type, value), value.validity)
  BY DEF CallH, count
<1>. QED
  BY <1>8, <1>9, <1>10, <1>11

LEMMA GuardAhead ==
  ASSUME Interpreting, NEW given, answer' = given, LoopGuard,
         2 * (AsI32(values[base + Arg]) - 1) >= -M32
  PROVE  Answering'
<1>. DEFINE left == AsI32(values[base + Arg]) - 1
            w == Pair(FromI32(left), Innermost.local[Arg].state)
<1>1. /\ Lowered = Name /\ Index = Arg /\ Depth \in Nat /\ OwnLocals \in Nat /\ sp \in Int
      /\ Innermost.pc = pc /\ status = "running"
  BY SamePlace, Operands DEF Interpreting, BoundInv
<1>2. Name = "loop.guard" /\ asked' = asked /\ asked = requested
  BY DEF LoopGuard, On, Interpreting, Together
<1>3. Arg \in 0..OwnLocals - 1
  BY <1>2, LookedUp DEF Interpreting, BoundInv, OwnLocals
<1>4. /\ values[base + Arg] = Innermost.local[Arg].value
      /\ states[base + Arg] = Innermost.local[Arg].state
  BY <1>3, SameLocals DEF Interpreting, BoundInv
<1>5. Decremented = left
  BY <1>1, <1>4 DEF Decremented
<1>6. /\ Following = After(container, Innermost.pc) /\ Asks = requested
      /\ Changes(given) = [Innermost EXCEPT !.local[Arg] = w]
      /\ Faults(given) = IF left < 0 THEN "iteration_limit" ELSE "no_fault"
  <2>1. Lowered = "loop.guard"
    BY <1>1, <1>2
  <2>2. Faults(given) = IF Decremented < 0 THEN "iteration_limit" ELSE "no_fault"
    BY <2>1 DEF Faults
  <2>. HIDE DEF left
  <2>3. Changes(given) = [Innermost EXCEPT !.local[Arg] = Pair(FromI32(left), @.state)]
    BY <1>1, <1>5, <2>1, Moving
  <2>. QED
    BY <1>5, <2>1, <2>2, <2>3, Moving
<1>7. left \in Int /\ M32 \in Nat
  <2>1. values[base + Arg] \in Int
    BY <1>3, LocalsHold DEF Interpreting, BoundInv, OwnLocals
  <2>2. AsI32(values[base + Arg]) \in Int
    BY <2>1, OperandsRead
  <2>. QED
    BY <2>2, WordAssumption
<1>8. Lowered \notin Return \cup {"call"} /\ Decremented \in Int /\ 2 * Decremented >= -M32
  BY <1>1, <1>2, <1>5, <1>7 DEF Return
<1>9. CASE left < 0 /\ FaultWith("iteration_limit")
  <2>1. Failed("iteration_limit")'
    BY <1>9, FailsAhead
  <2>2. UNCHANGED <<verifyVars, cVars>>
    BY DEF Interpreting
  <2>3. Faults(given)' = "iteration_limit"
    BY <1>6, <1>9, <2>2, Unmoved
  <2>4. Faults(given) # "no_fault" /\ Failed(Faults(given))'
    BY <1>6, <1>9, <2>1, <2>3
  <2>. QED
    BY <1>2, <1>6, <1>8, <2>4, AheadBy
<1>10. CASE /\ left >= 0 \/ 2 * left < -M32
            /\ values' = [values EXCEPT ![base + Arg] = FromI32(left)]
            /\ Advance
            /\ UNCHANGED <<states, sp>>
  <2>1. left >= 0
    <3>1. 2 * left >= -M32 /\ (left >= 0 \/ 2 * left < -M32)
      BY <1>10
    <3>. HIDE DEF left
    <3>. QED
      BY <1>7, <3>1
  <2>2. Faults(given) = "no_fault"
    BY <1>6, <1>7, <2>1
  <2>3. /\ status' = "running" /\ UNCHANGED <<frameVars, result>>
        /\ pc' = After(container, Innermost.pc)
    BY <1>1, <1>10 DEF Advance, report, After, Name
  <2>4. /\ w.value = FromI32(left) /\ w.state = states[base + Arg]
    BY <1>4 DEF Pair
  <2>5. states' = [states EXCEPT ![base + Arg] = w.state]
    BY <1>10, <2>4 DEF Interpreting, ValuesInv, SlotsTyped
  <2>. HIDE DEF w
  <2>6. PICK f : f = [Changes(given) EXCEPT !.pc = Following]
    OBVIOUS
  <2>7. f = WithLocal(Innermost, Arg, w, pc')
    BY <1>6, <2>3, <2>6 DEF WithLocal
  <2>8. PICK z \in Int : sp' = z /\ z <= sp
    BY <1>1, <1>10
  <2>9. values' = [values EXCEPT ![base + Arg] = w.value]
    BY <1>10, <2>4
  <2>. HIDE DEF left
  <2>10. RunsWith(activations, Len(activations) - 1, f)'
    BY <1>3, <2>3, <2>5, <2>7, <2>8, <2>9, LocalSetSame
  <2>. QED
    BY <1>2, <1>6, <1>8, <2>2, <2>6, <2>10, AheadBy
<1>. QED
  BY <1>9, <1>10 DEF LoopGuard
-----------------------------------------------------------------------------
(* The caps and the counters of the two: verify compared what the records of a
   component declare, so it does not matter which of them is read. *)
LEMMA SameCap ==
  ASSUME Verified, NEW i \in Functions(container), NEW k, k = ComponentOf(i)
  PROVE  /\ k \in Functions(container) /\ CapOf(i) \in Nat /\ ComponentCap(k) = CapOf(i)
         /\ Capped(k) <=> CapOf(i) # 0
         /\ Capped(k) => CounterCap(k) = CapOf(i)
<1>. DEFINE capped == {j \in Functions(container) :
                         Fn(container, j).component = k /\ Fn(container, j).recursion_cap # 0}
<1>1. /\ k \in Functions(container) /\ ComponentCap(k) = CapOf(i)
      /\ \A j \in Functions(container) : ComponentOf(j) = k <=> j \in Component(graph, i)
  BY ComponentNumbers
<1>2. \A j \in Component(graph, i) : CapOf(j) = CapOf(i)
  BY CapsOfComponents
<1>3. \A j \in Functions(container) : ComponentOf(j) = k => CapOf(j) = CapOf(i)
  BY <1>1, <1>2
<1>4. CapOf(i) \in Nat
  BY FunctionLocals DEF Verified, CapOf
<1>5. Capped(k) <=> CapOf(i) # 0
  BY <1>3 DEF Capped, CapOf, ComponentOf
<1>6. ASSUME Capped(k) PROVE CounterCap(k) = CapOf(i)
  <2>1. capped # {} /\ capped \in SUBSET Nat
    BY <1>6 DEF Capped, Functions
  <2>2. Min(capped) \in capped
    <3>. HIDE DEF capped
    <3>. QED
      BY <2>1, MinOfNaturals
  <2>3. CounterCap(k) = CapOf(Min(capped))
    BY DEF CounterCap, CapOf
  <2>. QED
    BY <1>3, <2>2, <2>3 DEF ComponentOf
<1>. QED
  BY <1>1, <1>4, <1>5, <1>6

(* Between two instructions the counters agree. *)
LEMMA SameCount ==
  ASSUME BoundInv, NestInv, CountedInv, Together, status = "running",
         NEW k \in Functions(container), Capped(k), ComponentCap(k) # 0
  PROVE  counters[k] = recursion[k] /\ counters[k] \in Nat
<1>. DEFINE N == Len(frames)
<1>1. /\ RunsWith(activations, Len(activations) - 1, Innermost) /\ label = "body"
      /\ Len(activations) = N + 1 /\ N \in Nat
      /\ Innermost = activations[Len(activations)] /\ Innermost.function = current
  BY SamePlace DEF Together, BoundInv
<1>2. ASSUME NEW n \in 1..N + 1 PROVE FunctionOf(n) = activations[n].function
  <2>1. CASE n = N + 1
    BY <1>1, <2>1 DEF FunctionOf
  <2>2. CASE n # N + 1
    <3>1. n \in 1..N /\ n <= N
      BY <1>1, <2>2
    <3>2. n \in 1..Len(activations) - 1
      BY <1>1, <3>1
    <3>. QED
      BY <1>1, <3>1, <3>2 DEF FunctionOf, RunsWith, CallerSame
  <2>. QED
    BY <2>1, <2>2
<1>3. FramesOf(k) = Members(container, activations, Past, k)
  BY <1>1, <1>2 DEF FramesOf, Members, ComponentAt, Past
<1>4. recursion[k] = Cardinality(FramesOf(k))
  BY <1>3 DEF CountedInv
<1>. QED
  BY <1>4, RunningCounted

LEMMA SameCaps ==
  ASSUME Interpreting, CountedInv, NEW i \in Functions(container), i = Arg
  PROVE  OverCap <=> Spent(ComponentOf(i))
<1>. DEFINE k == ComponentOf(i)
<1>1. Verified
  BY RunningFrame DEF Interpreting, BoundInv, DeviceInv, Verified
<1>2. /\ k \in Functions(container) /\ CapOf(i) \in Nat /\ ComponentCap(k) = CapOf(i)
      /\ Capped(k) <=> CapOf(i) # 0
      /\ Capped(k) => CounterCap(k) = CapOf(i)
  BY <1>1, SameCap
<1>3. OverCap <=> ComponentCap(k) # 0 /\ counters[k] + 1 > ComponentCap(k)
  BY DEF OverCap, Callee, ComponentOf
<1>4. Spent(k) <=> Capped(k) /\ recursion[k] + 1 > CounterCap(k)
  BY DEF Spent
<1>. HIDE DEF k
<1>5. Capped(k) /\ ComponentCap(k) # 0 => counters[k] = recursion[k]
  BY <1>2, SameCount DEF Interpreting
<1>6. OverCap <=> Spent(k)
  BY <1>2, <1>3, <1>4, <1>5
<1>. QED
  BY <1>6 DEF k
-----------------------------------------------------------------------------
(* A call, as the verifier typed it. *)
LEMMA CallTyped ==
  ASSUME Interpreting, Name = "call"
  PROVE  LET params == Callee.param_count
         IN  /\ Arg \in Functions(container) /\ params \in Nat /\ params <= Depth
             /\ params <= Len(LocalsOf(Arg)) /\ Len(LocalsOf(Arg)) \in Nat
<1>. DEFINE stack == shapes[current][pc]
<1>1. /\ Depth = Len(stack) /\ current \in Functions(container) /\ pc \in DOMAIN shapes[current]
      /\ Depth \in Nat
  BY SamePlace DEF Interpreting, BoundInv
<1>2. Arg \in Functions(container) /\ Callee = Fn(container, Arg)
  BY LookedUp DEF Interpreting, BoundInv, Callee
<1>3. /\ Callee.param_count \in 0..Len(LocalsOf(Arg)) /\ Len(LocalsOf(Arg)) \in Nat
      /\ Len(ParamTypes(Callee)) = Callee.param_count
  BY <1>2, FunctionLocals DEF Interpreting, BoundInv, DeviceInv, LocalsOf
<1>4. Takes(container, current, pc, stack) = ParamTypes(Callee)
  BY <1>2 DEF Takes, Name, Arg, Predicate
<1>5. Len(Takes(container, current, pc, stack)) \in 0..Len(stack)
  BY <1>1, TypedInstruction DEF Interpreting, BoundInv, DeviceInv
<1>. QED
  BY <1>1, <1>2, <1>3, <1>4, <1>5

(* The variables a call declares: its parameters are copies of the arguments. *)
LEMMA DeclaredLocals ==
  ASSUME NEW i, NEW arguments, NEW f, f = Declared(i, arguments),
         NEW k \in 0..Len(LocalsOf(i)) - 1
  PROVE  Variable(f, k) = IF k < Fn(container, i).param_count THEN arguments[k]
                          ELSE Pair(0, UNAVAILABLE)
<1>. DEFINE local == [l \in 0..Len(LocalsOf(i)) - 1 |->
                        IF l < Fn(container, i).param_count THEN arguments[l]
                        ELSE Pair(0, UNAVAILABLE)]
<1>1. f.function = i /\ f.local = local
  BY DEF Declared, LocalsOf
<1>2. Variable(f, k) = f.local[k]
  <2>1. k < Len(LocalsOf(i))
    OBVIOUS
  <2>. QED
    BY <1>1, <2>1 DEF Variable
<1>3. local[k] = IF k < Fn(container, i).param_count THEN arguments[k] ELSE Pair(0, UNAVAILABLE)
  OBVIOUS
<1>. HIDE DEF local
<1>. QED
  BY <1>1, <1>2, <1>3

LEMMA ClearsLocals ==
  ASSUME Interpreting, NEW top \in Int, top <= MaxSlots,
         values' = Cleared(values, sp, top, 0),
         states' = Cleared(states, sp, top, UNAVAILABLE)
  PROVE  \A x \in 0..MaxSlots - 1 :
           /\ x < sp => values'[x] = values[x] /\ states'[x] = states[x]
           /\ sp <= x /\ x < top => values'[x] = 0 /\ states'[x] = UNAVAILABLE
<1>1. sp \in Int /\ MaxSlots \in Nat
  BY Operands, VmAssumption
<1>2. ASSUME NEW x \in 0..MaxSlots - 1
      PROVE  /\ x \in Slot
             /\ x \in sp..top - 1 <=> sp <= x /\ x < top
  BY <1>1 DEF Slot
<1>3. ASSUME NEW x \in 0..MaxSlots - 1
      PROVE  /\ values'[x] = IF x \in sp..top - 1 THEN 0 ELSE values[x]
             /\ states'[x] = IF x \in sp..top - 1 THEN UNAVAILABLE ELSE states[x]
  BY <1>2 DEF Cleared
<1>4. ASSUME NEW x \in 0..MaxSlots - 1, x < sp PROVE ~(sp <= x)
  BY <1>1, <1>4
<1>. QED
  BY <1>2, <1>3, <1>4
(* The frame the interpreter enters holds what the callee's variables do. *)
LEMMA EnteredTop ==
  ASSUME Interpreting, Name = "call",
         NEW low \in Int, low = sp - Callee.param_count,
         NEW top \in Int, top = low + Len(LocalsOf(Arg)), top <= MaxSlots,
         values' = Cleared(values, sp, top, 0),
         states' = Cleared(states, sp, top, UNAVAILABLE),
         NEW f, f = Declared(Index, Copied)
  PROVE  Mirrors(values', states', low, top, f)
<1>. DEFINE L == Len(LocalsOf(Arg))
            params == Callee.param_count
<1>1. /\ Arg \in Functions(container) /\ params \in Nat /\ params <= Depth
      /\ params <= L /\ L \in Nat
  BY CallTyped
<1>2. /\ Index = Arg /\ Called = Callee /\ Depth \in Nat /\ OwnLocals \in Nat /\ base \in Nat
      /\ sp = base + OwnLocals + Depth
  BY SamePlace DEF Interpreting, BoundInv
<1>3. MaxSlots \in Nat
  BY VmAssumption
<1>4. params = Fn(container, Arg).param_count
  BY DEF Callee
<1>5. ASSUME NEW k \in 0..params - 1
      PROVE  Copied[k] = Innermost.slot[(Depth - params) + k]
  BY <1>2 DEF Copied
<1>. HIDE DEF params, L
<1>7. top = low + L /\ low = sp - params
  BY DEF L, params
<1>8. low >= 0 /\ low <= sp /\ sp \in Nat
  BY <1>1, <1>2, <1>7
<1>9. PICK m \in Nat, d \in Nat, s \in Nat :
        m = params /\ d = Depth /\ s = sp /\ low = s - m /\ m <= d
  BY <1>1, <1>2, <1>7, <1>8
<1>6. ASSUME NEW x \in low..top - 1
      PROVE  /\ values'[x] = Variable(f, x - low).value
             /\ states'[x] = Variable(f, x - low).state
  <2>1. x \in 0..MaxSlots - 1 /\ x - low \in 0..L - 1 /\ x \in Int
    <3>1. x \in Int /\ low <= x /\ x < top
      OBVIOUS
    <3>2. 0 <= x /\ x < MaxSlots
      BY <1>3, <1>8, <3>1
    <3>3. 0 <= x - low /\ x - low < L
      BY <1>1, <1>7, <3>1
    <3>4. x \in 0..MaxSlots - 1
      BY ONLY <1>3, <3>1, <3>2
    <3>5. PICK y \in Int : y = x - low
      BY <1>9, <3>1
    <3>6. y \in 0..L - 1
      BY ONLY <1>1, <3>3, <3>5
    <3>. QED
      BY <3>1, <3>4, <3>5, <3>6
  <2>2. Variable(f, x - low) = IF x - low < params THEN Copied[x - low] ELSE Pair(0, UNAVAILABLE)
    BY <1>2, <1>4, <2>1, DeclaredLocals DEF L
  <2>3. CASE x < sp
    <3>1. PICK j : j = sp - x
      OBVIOUS
    <3>2. /\ j \in 1..Depth /\ sp - j = x /\ x - low < params /\ x - low \in 0..params - 1
          /\ (Depth - params) + (x - low) = Depth - j
      <4>1. j >= 1 /\ x >= low /\ x \in Int
        BY <1>8, <2>1, <2>3, <3>1
      <4>2. j <= params /\ x - low < params /\ sp - j = x /\ x - low >= 0
        <5>1. x < s /\ j = s - x
          BY <1>9, <2>3, <3>1
        <5>2. j <= m /\ x - low < m /\ s - j = x /\ x - low >= 0
          BY <1>9, <4>1, <5>1
        <5>. QED
          BY <1>9, <5>2
      <4>3. (Depth - params) + (x - low) = Depth - j
        <5>1. j = s - x /\ low = s - m
          BY <1>9, <3>1
        <5>2. (d - m) + (x - (s - m)) = d - (s - x)
          BY ONLY <1>9, <4>1
        <5>. QED
          BY <1>9, <5>1, <5>2
      <4>4. j \in 1..d /\ x - low \in 0..m - 1
        <5>1. PICK y \in Int : y = x - low
          BY <1>9, <4>1
        <5>2. j \in Int /\ j <= m /\ y < m /\ y >= 0
          BY <1>9, <3>1, <4>1, <4>2, <5>1
        <5>3. j \in 1..d /\ y \in 0..m - 1
          BY ONLY <1>9, <4>1, <5>2
        <5>. QED
          BY <5>1, <5>3
      <4>. QED
        BY <1>9, <4>2, <4>3, <4>4
    <3>3. values[sp - j] = Below(j).value /\ states[sp - j] = Below(j).state
      BY <3>2, SameOperands DEF Interpreting, BoundInv
    <3>4. Copied[x - low] = Below(j)
      BY <1>5, <3>2 DEF Below
    <3>5. values'[x] = values[x] /\ states'[x] = states[x]
      BY <2>1, <2>3, ClearsLocals
    <3>. QED
      BY <2>2, <3>2, <3>3, <3>4, <3>5
  <2>4. CASE sp <= x
    <3>1. ~(x - low < params) /\ x < top
      <4>1. x \in Int /\ x < top /\ s <= x
        BY <1>9, <2>1, <2>4
      <4>2. ~(x - low < m)
        BY <1>9, <4>1
      <4>. QED
        BY <1>9, <4>1, <4>2
    <3>2. values'[x] = 0 /\ states'[x] = UNAVAILABLE
      BY <2>1, <2>4, <3>1, ClearsLocals
    <3>. QED
      BY <2>2, <3>1, <3>2 DEF Pair
  <2>. QED
    BY <1>8, <2>1, <2>3, <2>4
<1>. QED
  BY <1>6 DEF Mirrors

LEMMA EntersSame ==
  ASSUME Interpreting, Call, ~OverCap, NEW f, f = Declared(Index, Copied)
  PROVE  RunsWith(activations, Len(activations), f)'
<1>. PICK N : N = Len(frames)
  OBVIOUS
<1>. DEFINE F == [return_pc |-> pc + 2, base |-> base, function |-> current]
<1>1. PICK low, top : /\ low = sp - Callee.param_count /\ top = low + Len(LocalsOf(Arg))
                      /\ base' = low /\ sp' = top
  <2>1. base' = sp - Callee.param_count /\ sp' = sp - Callee.param_count + Len(LocalsOf(Arg))
    BY DEF Call, Callee, LocalsOf
  <2>. QED
    BY <2>1
<1>2. /\ Name = "call" /\ frames' = Append(frames, F) /\ current' = Arg
      /\ values' = Cleared(values, sp, top, 0)
      /\ states' = Cleared(states, sp, top, UNAVAILABLE)
      /\ pc' = Fn(container, Arg).code_offset /\ status' = "running" /\ result' = result
  BY <1>1 DEF Call, Callee, LocalsOf, On, report
<1>3. /\ Index = Arg /\ Called = Callee /\ Depth \in Nat /\ OwnLocals \in Nat /\ base \in Nat
      /\ sp = base + OwnLocals + Depth /\ Innermost = activations[Len(activations)]
      /\ Len(activations) = N + 1 /\ N \in Nat /\ Innermost.function = current
      /\ Innermost.pc = pc
  BY SamePlace DEF Interpreting, BoundInv
<1>4. /\ Callee.param_count \in Nat /\ Callee.param_count <= Depth
      /\ Len(LocalsOf(Arg)) \in Nat
  BY <1>2, CallTyped
<1>5. low \in Int /\ top \in Int /\ low <= sp /\ sp \in Nat /\ MaxSlots \in Nat
  BY <1>1, <1>3, <1>4, VmAssumption
<1>6. top <= MaxSlots /\ sp <= MaxSlots
  BY <1>1, <1>2 DEF Interpreting, ValuesInv
<1>7. \A x \in 0..sp - 1 : values'[x] = values[x] /\ states'[x] = states[x]
  <2>1. \A x \in 0..sp - 1 : x \in 0..MaxSlots - 1 /\ x < sp
    BY <1>5, <1>6
  <2>. QED
    BY <1>2, <1>5, <1>6, <2>1, ClearsLocals
<1>8. Mirrors(values', states', low, top, f)
  BY <1>1, <1>2, <1>5, <1>6, EnteredTop
<1>9. UNCHANGED <<container, shapes, activations, reported>>
  BY DEF Interpreting, verifyVars, cVars
<1>10. TopSame(f)'
  <2>1. f.function = Arg /\ f.pc = Fn(container, Arg).code_offset
    BY <1>3, Declares
  <2>. QED
    BY <1>1, <1>2, <1>8, <1>9, <2>1 DEF TopSame, Mirrors, Variable, LocalsOf
<1>11. /\ Len(frames') = N + 1 /\ frames'[N + 1] = F
       /\ \A n \in 1..N : frames'[n] = frames[n]
  <2>1. frames \in Seq(Caller)
    BY DEF Interpreting, BoundInv, DeviceInv, CallersShape
  <2>2. frames \in Seq(Caller \cup {F}) /\ F \in Caller \cup {F}
    BY <2>1
  <2>. HIDE DEF F
  <2>. QED
    BY <1>2, <1>3, <2>2, AppendProperties
<1>12. RunsWith(activations, N, Innermost)
  BY <1>3 DEF Interpreting, Together
<1>13. ASSUME NEW n \in 1..N PROVE CallerSame(activations[n], n)'
  <2>1. CallerSame(activations[n], n)
    BY <1>12 DEF RunsWith
  <2>2. frames[n].base \in Nat /\ Above(n) \in Nat /\ Above(n) <= base
    BY CallersEnd DEF Interpreting, BoundInv
  <2>3. Mirrors(values', states', frames[n].base, Above(n), activations[n])
    <3>1. \A x \in frames[n].base..Above(n) - 1 : values'[x] = values[x] /\ states'[x] = states[x]
      <4>1. \A x \in frames[n].base..Above(n) - 1 : x \in 0..sp - 1
        BY <1>3, <2>2
      <4>. QED
        BY <1>7, <4>1
    <3>2. Mirrors(values, states, frames[n].base, Above(n), activations[n])
      BY <2>1 DEF CallerSame
    <3>. QED
      BY <3>1, <3>2, StillMirrors
  <2>4. Above(n)' = Above(n)
    <3>1. n # N + 1 /\ (n # N => n + 1 \in 1..N)
      BY <1>3
    <3>2. frames'[N + 1].base = base
      BY <1>11
    <3>. QED
      BY <1>11, <3>1, <3>2 DEF Above
  <2>. QED
    BY <1>9, <1>11, <2>1, <2>3, <2>4 DEF CallerSame, Mirrors, Variable, LocalsOf
<1>14. CallerSame(activations[N + 1], N + 1)'
  <2>1. pc \in Nat
    BY RunningTypes DEF Interpreting, BoundInv
  <2>2. F.function = current /\ F.return_pc - 2 = pc /\ F.base = base
    BY <2>1
  <2>3. Above(N + 1)' = low
    BY <1>1, <1>11 DEF Above
  <2>4. Mirrors(values', states', base, low, Innermost)
    <3>1. Mirrors(values, states, base, sp, Innermost)
      BY <1>12 DEF RunsWith, TopSame
    <3>2. \A x \in base..low - 1 : x \in 0..sp - 1 /\ x \in base..sp - 1
      BY <1>3, <1>5
    <3>. QED
      BY <1>7, <3>1, <3>2 DEF Mirrors
  <2>5. activations'[N + 1] = Innermost /\ frames'[N + 1] = F
    BY <1>3, <1>9, <1>11
  <2>. HIDE DEF F
  <2>6. /\ frames'[N + 1].base = base /\ frames'[N + 1].function = current
        /\ frames'[N + 1].return_pc - 2 = pc
    BY <2>2, <2>5
  <2>7. (Mirrors(values, states, frames[N + 1].base, Above(N + 1), activations[N + 1]))'
    BY <1>9, <2>3, <2>4, <2>5, <2>6 DEF Mirrors, Variable, LocalsOf
  <2>. QED
    BY <1>3, <2>5, <2>6, <2>7 DEF CallerSame
<1>15. \A n \in 1..Len(activations') : CallerSame(activations[n], n)'
  <2>1. \A n \in 1..N + 1 : n \in 1..N \/ n = N + 1
    BY <1>3
  <2>. QED
    BY <1>3, <1>9, <1>13, <1>14, <2>1
<1>16. Len(frames') = Len(activations') /\ result' = reported'.result
  BY <1>2, <1>3, <1>9, <1>11, <1>12 DEF RunsWith
<1>. QED
  BY <1>2, <1>9, <1>10, <1>15, <1>16 DEF RunsWith

LEMMA CallAhead ==
  ASSUME Interpreting, CountedInv, NEW given, answer' = given, Call
  PROVE  Answering'
<1>1. Lowered = Name /\ Index = Arg /\ Called = Callee
  BY SamePlace DEF Interpreting, BoundInv
<1>2. Name = "call" /\ asked' = asked /\ asked = requested
  BY DEF Call, On, Interpreting, Together
<1>3. Arg \in Functions(container) /\ Called.component = ComponentOf(Arg)
  BY <1>1, <1>2, CallTyped DEF Callee, ComponentOf
<1>4. OverCap <=> Spent(Called.component)
  BY <1>3, SameCaps
<1>5. UNCHANGED <<verifyVars, cVars>>
  BY DEF Interpreting
<1>6. /\ UNCHANGED <<Index, Copied, Lowered, Called, Asks, container, activations>>
      /\ \A k : Spent(k)' <=> Spent(k)
  <2>1. UNCHANGED <<recursion, container>>
    BY <1>5, UnmovedPlace
  <2>. QED
    BY <1>5, <2>1, Unmoved, UnmovedPlace DEF Spent, Capped, CounterCap
<1>7. Entering'
  <2>1. CASE OverCap
    <3>1. FaultWith("recursion_limit")
      BY <2>1 DEF Call
    <3>. QED
      BY <1>4, <1>6, <2>1, <3>1, FailsAhead DEF Entering
  <2>2. CASE ~OverCap
    <3>1. PICK f : f = Declared(Index, Copied)
      OBVIOUS
    <3>2. RunsWith(activations, Len(activations), f)'
      BY <2>2, <3>1, EntersSame
    <3>3. f = (Declared(Index, Copied))'
      BY <1>6, <3>1 DEF Declared
    <3>. QED
      BY <1>4, <1>6, <2>2, <3>2, <3>3 DEF Entering
  <2>. QED
    BY <2>1, <2>2
<1>8. Asks = requested
  BY <1>1, <1>2 DEF Asks
<1>. QED
  BY <1>1, <1>2, <1>6, <1>7, <1>8 DEF Answering, Ahead, Return
-----------------------------------------------------------------------------
(* The interpreter leaves a frame for the caller the C has below it. *)
LEMMA BackInFrame ==
  ASSUME Interpreting, ReturnToCaller, NEW c, c = frames[Len(frames)]
  PROVE  /\ Len(frames) \in Nat \ {0} /\ Len(frames) = Len(activations) - 1
         /\ c.base \in Nat /\ c.function \in Functions(container)
         /\ Outer = activations[Len(frames)] /\ Activation(Outer)
         /\ Outer.function = c.function /\ Outer.pc = c.return_pc - 2
         /\ After(container, Outer.pc) = c.return_pc
         /\ Mirrors(values, states, c.base, base, Outer)
         /\ Len(frames') = Len(frames) - 1
         /\ \A n \in 1..Len(frames) - 1 : frames'[n] = frames[n]
         /\ base' = c.base /\ pc' = c.return_pc /\ current' = c.function
         /\ status' = "running" /\ result' = result /\ asked' = asked
<1>. PICK N : N = Len(frames)
  OBVIOUS
<1>1. /\ frames # <<>> /\ frames' = Front(frames)
      /\ base' = Last(frames).base /\ pc' = Last(frames).return_pc
      /\ current' = Last(frames).function
      /\ status' = "running" /\ result' = result /\ asked' = asked
  BY DEF ReturnToCaller, report, On
<1>2. frames \in Seq(Caller) /\ Waits(frames[Len(frames)], current, base)
  BY <1>1 DEF Interpreting, BoundInv, DeviceInv, CallersShape
<1>3. /\ N \in Nat \ {0} /\ Last(frames) = c /\ c \in Caller /\ Len(frames') = N - 1
      /\ \A n \in 1..N - 1 : frames'[n] = frames[n]
  <2>1. /\ Len(frames) \in Nat \ {0} /\ Last(frames) = frames[Len(frames)]
        /\ Last(frames) \in Caller /\ Len(Front(frames)) = Len(frames) - 1
        /\ \A n \in 1..Len(frames) - 1 : Front(frames)[n] = frames[n]
    BY ONLY <1>1, <1>2, FrontLast
  <2>. QED
    BY <1>1, <2>1
<1>4. c.base \in Nat /\ c.function \in Functions(container) /\ c.return_pc \in Int
  BY <1>3 DEF Caller
<1>5. /\ Len(activations) = N + 1 /\ N \in 1..N /\ N \in 1..Len(activations)
      /\ RunsWith(activations, N, Innermost)
  <2>1. Len(activations) = N + 1
    BY SamePlace DEF Interpreting, BoundInv
  <2>2. RunsWith(activations, Len(activations) - 1, Innermost)
    BY DEF Interpreting, Together
  <2>. QED
    BY <1>3, <2>1, <2>2
<1>6. Outer = activations[N] /\ Activation(Outer)
  <2>1. Len(activations) - 1 = N
    BY <1>3, <1>5
  <2>. QED
    BY <1>5, <2>1 DEF Outer, Interpreting, NestInv
<1>7. CallerSame(Outer, N) /\ Above(N) = base
  BY <1>5, <1>6 DEF RunsWith, Above
<1>8. Outer.function = c.function /\ Outer.pc = c.return_pc - 2
      /\ Mirrors(values, states, c.base, base, Outer)
  BY <1>7 DEF CallerSame
<1>9. NameAt(container, Outer.pc) = "call"
  BY <1>2, <1>8 DEF Waits
<1>10. After(container, Outer.pc) = c.return_pc
  BY <1>4, <1>8, <1>9 DEF After, Size, Branch, Indexed, Pool
<1>. QED
  BY <1>1, <1>3, <1>4, <1>5, <1>6, <1>8, <1>10

(* Where its operands end once the arguments are gone, which is where the C
   puts the result. *)
BackDepth == Len(shapes[Outer.function][Outer.pc])
               - Fn(container, Innermost.function).param_count

LocalsCount(c) == Len(LocalsOf(c.function))
DepthAfter(c)  == Len(shapes[c.function][c.return_pc])

LEMMA BackAt ==
  ASSUME Interpreting, ReturnToCaller, NEW c, c = frames[Len(frames)]
  PROVE  /\ LocalsCount(c) \in Nat /\ BackDepth \in Nat /\ DepthAfter(c) \in Nat
         /\ base = c.base + (LocalsCount(c) + BackDepth)
         /\ sp' = c.base + (LocalsCount(c) + DepthAfter(c))
         /\ DepthAfter(c) <= Fn(container, c.function).max_stack
         /\ sp' <= MaxSlots
<1>. PICK L, d, e : L = LocalsCount(c) /\ d = BackDepth /\ e = DepthAfter(c)
  OBVIOUS
<1>. DEFINE stack == shapes[c.function][Outer.pc]
            params == Fn(container, current).param_count
            s == Len(stack)
<1>1. /\ Outer.function = c.function /\ Outer.pc = c.return_pc - 2
      /\ c.base \in Nat /\ c.function \in Functions(container)
      /\ base' = c.base /\ pc' = c.return_pc /\ current' = c.function
      /\ status' = "running"
  BY BackInFrame
<1>2. frames # <<>> /\ Waits(c, current, base)
  BY DEF ReturnToCaller, Interpreting, BoundInv, DeviceInv, CallersShape
<1>3. /\ Outer.pc \in DOMAIN shapes[c.function] /\ NameAt(container, Outer.pc) = "call"
      /\ OperandAt(container, Outer.pc) = current
      /\ base = c.base + (L + s) - params
  BY <1>1, <1>2 DEF Waits, FrameSize, LocalsOf, LocalsCount
<1>4. Innermost.function = current /\ current \in Functions(container)
  BY SamePlace DEF Interpreting, BoundInv
<1>5. VerifyInv /\ AcceptedInv /\ verdict = "accepted"
  BY RunningFrame DEF Interpreting, BoundInv, DeviceInv
<1>6. L \in Nat /\ params \in Nat /\ Len(ParamTypes(Fn(container, current))) = params
  BY <1>1, <1>4, <1>5, FunctionLocals DEF LocalsOf, LocalsCount
<1>7. s \in Nat /\ params <= s
  <2>1. Takes(container, c.function, Outer.pc, stack) = ParamTypes(Fn(container, current))
    BY <1>3 DEF Takes, Predicate
  <2>2. s \in Nat /\ Len(Takes(container, c.function, Outer.pc, stack)) \in 0..s
    BY <1>1, <1>3, <1>5, TypedInstruction
  <2>. QED
    BY <1>6, <2>1, <2>2
<1>8. d = s - params
  BY <1>1, <1>4 DEF BackDepth
<1>9. UNCHANGED <<container, shapes>>
  BY DEF Interpreting, verifyVars
<1>10. sp' = c.base + (L + e) /\ c.return_pc \in DOMAIN shapes[c.function]
  <2>1. RunningShape'
    BY <1>1 DEF Interpreting, BoundInv, DeviceInv
  <2>. QED
    BY <1>1, <1>9, <2>1 DEF RunningShape, FrameSize, LocalsOf, LocalsCount, DepthAfter
<1>11. e \in Nat /\ e <= Fn(container, c.function).max_stack
  BY <1>1, <1>5, <1>10, RoomForOperands DEF Interpreting, DepthAfter
<1>12. sp' <= MaxSlots
  BY <1>1 DEF Interpreting, ValuesInv
<1>. HIDE DEF s, params
<1>13. d \in Nat /\ base = c.base + (L + d)
  BY <1>1, <1>3, <1>6, <1>7, <1>8
<1>. QED
  BY <1>6, <1>10, <1>11, <1>12, <1>13
-----------------------------------------------------------------------------
(* The frame the interpreter comes back to holds what the C's caller does. *)
ResumedBy(f, p) == f = Resumed(p) /\ (Name = "ret_v" => p = Below(1))

LEMMA BackOnTop ==
  ASSUME Interpreting, ReturnToCaller, NEW c, c = frames[Len(frames)],
         NEW f, NEW p, ResumedBy(f, p)
  PROVE  /\ f.function = c.function /\ f.pc = c.return_pc
         /\ Mirrors(values', states', c.base, sp', f)
         /\ \A x \in 0..base - 1 : values'[x] = values[x] /\ states'[x] = states[x]
<1>1. /\ c.base \in Nat /\ c.function \in Functions(container) /\ Activation(Outer)
      /\ Outer.function = c.function /\ Outer.pc = c.return_pc - 2
      /\ After(container, Outer.pc) = c.return_pc
      /\ Mirrors(values, states, c.base, base, Outer)
  BY BackInFrame
<1>2. PICK L, d, e : L = LocalsCount(c) /\ d = BackDepth /\ e = DepthAfter(c)
  OBVIOUS
<1>3. /\ L \in Nat /\ d \in Nat /\ e \in Nat /\ base = c.base + (L + d)
      /\ sp' = c.base + (L + e) /\ e <= Fn(container, c.function).max_stack
      /\ sp' <= MaxSlots
  BY <1>2, BackAt
<1>4. /\ Innermost.function = current /\ current \in Functions(container)
      /\ Name \in Return /\ base \in Nat
  BY SamePlace DEF Interpreting, BoundInv, ReturnToCaller, On
<1>5. Fn(container, current).return_type = VOID <=> Name = "ret"
  <2>1. StepRefusal(container, current, pc, shapes[current][pc]) = "none"
    BY RunningTypes DEF Interpreting, BoundInv
  <2>2. NameAt(container, pc) \in Return
    BY <1>4 DEF Name
  <2>. QED
    BY <2>1, <2>2, ReturnMatches DEF Name
<1>6. CASE Name = "ret"
  <2>1. sp' = base /\ values' = values /\ states' = states
    BY <1>6 DEF ReturnToCaller, slots
  <2>2. f = [Outer EXCEPT !.pc = c.return_pc]
    BY <1>1, <1>4, <1>5, <1>6 DEF ResumedBy, Resumed
  <2>3. /\ f.function = Outer.function /\ f.pc = c.return_pc /\ f.local = Outer.local
        /\ f.slot = Outer.slot
    BY <1>1, <2>2 DEF Activation
  <2>4. Mirrors(values', states', c.base, sp', f)
    BY <1>1, <2>1, <2>3 DEF Mirrors, Variable
  <2>. QED
    BY <1>1, <2>1, <2>3, <2>4
<1>7. CASE Name = "ret_v"
  <2>1. /\ values' = [values EXCEPT ![base] = Operand1]
        /\ states' = [states EXCEPT ![base] = State1]
        /\ sp' = base + 1
    BY <1>7 DEF ReturnToCaller
  <2>2. Operand1 = Below(1).value /\ State1 = Below(1).state
    <3>. DEFINE stack == shapes[current][pc]
                takes == Takes(container, current, pc, stack)
    <3>1. takes = <<Fn(container, current).return_type>>
      BY <1>7 DEF Takes, Name, Predicate, ConstState
    <3>2. Len(takes) = 1
      BY <3>1
    <3>3. Len(takes) \in 0..Len(stack) /\ Len(stack) \in Nat /\ Depth = Len(stack)
      BY SamePlace, TypedInstruction, RunningFrame DEF Interpreting, BoundInv, DeviceInv
    <3>4. 1 \in 1..Depth
      BY <3>2, <3>3
    <3>. QED
      BY <3>4, SameOperands DEF Interpreting, BoundInv, Operand1, State1
  <2>3. p = Below(1) /\ f = WithSlot(Outer, d, p, c.return_pc)
    <3>1. p = Below(1) /\ f = Resumed(p)
      BY <1>7 DEF ResumedBy
    <3>2. Fn(container, Innermost.function).return_type # VOID
      BY <1>4, <1>5, <1>7
    <3>3. f = [[Outer EXCEPT !.slot[d] = p] EXCEPT !.pc = After(container, @)]
      BY <1>2, <3>1, <3>2 DEF Resumed, BackDepth
    <3>4. [Outer EXCEPT !.slot[d] = p].pc = Outer.pc
      BY <1>1 DEF Activation
    <3>. QED
      BY <1>1, <3>1, <3>3, <3>4 DEF WithSlot
  <2>4. d < Fn(container, c.function).max_stack /\ base < MaxSlots /\ MaxSlots \in Nat
        /\ Fn(container, c.function).max_stack \in Int
    <3>1. MaxSlots \in Nat
      BY VmAssumption
    <3>2. base + 1 <= MaxSlots
      BY <1>3, <2>1
    <3>3. e = d + 1
      <4>1. base + 1 = c.base + (L + e)
        BY <1>3, <2>1
      <4>. QED
        BY <1>1, <1>3, <1>4, <4>1
    <3>4. Fn(container, c.function).max_stack \in Int
      <4>1. Decoded(container)
        BY DEF Interpreting, BoundInv, DeviceInv, VerifyInv, VerifyTypeOK
      <4>2. Fn(container, c.function) \in Function
        BY <1>1, <4>1, FunctionFields
      <4>3. Byte \subseteq Nat
        BY DEF Byte
      <4>. DEFINE fn == Fn(container, c.function)
      <4>4. fn \in Function
        BY <4>2
      <4>. HIDE DEF fn
      <4>5. fn.max_stack \in Nat
        BY <4>3, <4>4 DEF Function
      <4>. QED
        BY <4>5 DEF fn
    <3>5. base < MaxSlots
      BY <1>4, <3>1, <3>2
    <3>. QED
      BY <1>3, <3>1, <3>3, <3>4, <3>5
  <2>5. OnlySet(f, Outer, L + d, p, c.return_pc)
    <3>1. d \in DOMAIN Outer.slot
      BY <1>1, <1>3, <2>4 DEF Activation
    <3>. QED
      BY <1>1, <1>2, <1>3, <2>3, <3>1, AfterSlot DEF LocalsCount
  <2>6. values \in [0..MaxSlots - 1 -> Int] /\ states \in [0..MaxSlots - 1 -> Int]
    BY DEF Interpreting, ValuesInv, SlotsTyped, Slot
  <2>7. /\ values'[base] = p.value /\ states'[base] = p.state
        /\ \A x \in 0..base - 1 : values'[x] = values[x] /\ states'[x] = states[x]
    <3>1. base \in 0..MaxSlots - 1 /\ \A x \in 0..base - 1 : x \in 0..MaxSlots - 1 /\ x # base
      BY <1>4, <2>4
    <3>. QED
      BY <2>1, <2>2, <2>3, <2>6, <3>1
  <2>8. base - c.base = L + d /\ L + d \in Nat
    BY <1>1, <1>3, <1>4
  <2>9. OthersKept(values, states, values', states', c.base, base, base + 1, base, Outer, f)
    <3>1. ASSUME NEW x \in c.base..(base + 1) - 1, x # base
          PROVE  /\ x < base /\ values'[x] = values[x] /\ states'[x] = states[x]
                 /\ Variable(f, x - c.base) = Variable(Outer, x - c.base)
      <4>1. x \in Int /\ c.base <= x /\ x < base
        BY <1>1, <1>4, <3>1
      <4>2. x \in 0..base - 1 /\ x - c.base \in Nat /\ x - c.base # L + d
        BY <1>1, <1>4, <2>8, <4>1
      <4>. QED
        BY <2>5, <2>7, <4>1, <4>2 DEF OnlySet
    <3>. QED
      BY <3>1 DEF OthersKept
  <2>10. /\ values'[base] = Variable(f, base - c.base).value
         /\ states'[base] = Variable(f, base - c.base).state
    BY <2>5, <2>7, <2>8 DEF OnlySet
  <2>11. Mirrors(values', states', c.base, base + 1, f)
    <3>1. base \in Int /\ base + 1 \in Int
      BY <1>4
    <3>. QED
      BY <1>1, <1>4, <2>9, <2>10, <3>1, OneSet
  <2>. QED
    BY <1>1, <2>1, <2>5, <2>7, <2>11 DEF OnlySet
<1>. QED
  BY <1>4, <1>6, <1>7 DEF Return

LEMMA ReturnsSame ==
  ASSUME Interpreting, ReturnToCaller, NEW f, NEW p, ResumedBy(f, p)
  PROVE  RunsWith(activations, Len(activations) - 2, f)'
<1>. PICK N, c : N = Len(frames) /\ c = frames[Len(frames)]
  OBVIOUS
<1>1. /\ N \in Nat \ {0} /\ N = Len(activations) - 1 /\ c.base \in Nat
      /\ Len(frames') = N - 1 /\ \A n \in 1..N - 1 : frames'[n] = frames[n]
      /\ base' = c.base /\ pc' = c.return_pc /\ current' = c.function
      /\ status' = "running" /\ result' = result
  BY BackInFrame
<1>2. /\ f.function = c.function /\ f.pc = c.return_pc
      /\ Mirrors(values', states', c.base, sp', f)
      /\ \A x \in 0..base - 1 : values'[x] = values[x] /\ states'[x] = states[x]
  BY BackOnTop
<1>3. UNCHANGED <<container, shapes, activations, reported>>
  BY DEF Interpreting, verifyVars, cVars
<1>4. /\ RunsWith(activations, N, Innermost) /\ base \in Nat /\ Len(activations) \in Nat
  BY <1>1, SamePlace DEF Interpreting, Together, BoundInv
<1>5. TopSame(f)'
  BY <1>1, <1>2, <1>3 DEF TopSame, Mirrors, Variable, LocalsOf
<1>6. ASSUME NEW n \in 1..N - 1 PROVE CallerSame(activations[n], n)'
  <2>1. n \in 1..N /\ n # N /\ n + 1 \in 1..N /\ (n # N - 1 => n + 1 \in 1..N - 1)
        /\ (n = N - 1 => n + 1 = N)
    BY <1>1
  <2>2. CallerSame(activations[n], n)
    BY <1>4, <2>1 DEF RunsWith
  <2>3. frames[n].base \in Nat /\ Above(n) \in Nat /\ Above(n) <= base
    BY <2>1, CallersEnd DEF Interpreting, BoundInv
  <2>4. Above(n)' = Above(n)
    <3>1. Above(n) = frames[n + 1].base
      BY <2>1 DEF Above
    <3>2. CASE n = N - 1
      BY <1>1, <2>1, <3>1, <3>2 DEF Above
    <3>3. CASE n # N - 1
      <4>1. frames'[n + 1] = frames[n + 1]
        BY <1>1, <2>1, <3>3
      <4>. QED
        BY <1>1, <3>1, <3>3, <4>1 DEF Above
    <3>. QED
      BY <3>2, <3>3
  <2>5. Mirrors(values', states', frames[n].base, Above(n), activations[n])
    <3>1. \A x \in frames[n].base..Above(n) - 1 : values'[x] = values[x] /\ states'[x] = states[x]
      <4>1. \A x \in frames[n].base..Above(n) - 1 : x \in 0..base - 1
        BY <1>4, <2>3
      <4>. QED
        BY <1>2, <4>1
    <3>2. Mirrors(values, states, frames[n].base, Above(n), activations[n])
      BY <2>2 DEF CallerSame
    <3>. QED
      BY <3>1, <3>2, StillMirrors
  <2>. QED
    BY <1>1, <1>3, <2>2, <2>4, <2>5 DEF CallerSame, Mirrors, Variable, LocalsOf
<1>7. Len(activations') - 2 = N - 1
  BY <1>1, <1>3, <1>4
<1>8. result' = reported'.result
  BY <1>1, <1>3, <1>4 DEF RunsWith
<1>. QED
  BY <1>1, <1>3, <1>5, <1>6, <1>7, <1>8 DEF RunsWith
(* A return leaves the two where the C will be once it has gone through its
   label and its caller has taken the result. *)
LEMMA ReturnTyped ==
  ASSUME Interpreting, Name \in Return
  PROVE  LET type == Fn(container, Innermost.function).return_type
         IN  /\ Innermost.function = current
             /\ type = VOID <=> Name = "ret"
             /\ Name = "ret_v" => /\ type \in ValueType
                                  /\ Operand1 = Below(1).value /\ State1 = Below(1).state
<1>. DEFINE stack == shapes[current][pc]
            takes == Takes(container, current, pc, stack)
            type  == Fn(container, current).return_type
<1>1. /\ Innermost.function = current /\ current \in Functions(container)
      /\ Depth = Len(stack) /\ Depth \in Nat /\ pc \in DOMAIN shapes[current]
  BY SamePlace DEF Interpreting, BoundInv
<1>2. VerifyInv /\ AcceptedInv /\ verdict = "accepted"
  BY RunningFrame DEF Interpreting, BoundInv, DeviceInv
<1>3. type = VOID <=> Name = "ret"
  <2>1. StepRefusal(container, current, pc, stack) = "none"
    BY RunningTypes DEF Interpreting, BoundInv
  <2>2. NameAt(container, pc) \in Return
    BY DEF Name
  <2>. QED
    BY <2>1, <2>2, ReturnMatches DEF Name
<1>4. type # VOID => type \in ValueType
  <2>1. type \in ValType
    BY <1>1, <1>2, FunctionLocals
  <2>. QED
    BY <2>1 DEF ValType, ValueType, VOID, I32, BOOL
<1>5. ASSUME Name = "ret_v"
      PROVE  /\ type \in ValueType
             /\ Operand1 = Below(1).value /\ State1 = Below(1).state
  <2>1. Len(takes) = 1
    BY <1>5 DEF Takes, Name, Predicate, ConstState
  <2>2. Len(takes) \in 0..Len(stack) /\ Len(stack) \in Nat
    BY <1>1, <1>2, TypedInstruction
  <2>3. 1 \in 1..Depth
    BY <1>1, <2>1, <2>2
  <2>4. type # VOID
    BY <1>3, <1>5
  <2>5. Operand1 = Below(1).value /\ State1 = Below(1).state
    BY <2>3, SameOperands DEF Interpreting, BoundInv, Operand1, State1
  <2>. QED
    BY <1>4, <2>4, <2>5
<1>. QED
  BY <1>1, <1>3, <1>5

LEMMA HostReturns ==
  ASSUME Interpreting, ReturnToHost, NEW p, Name = "ret_v" => p = Below(1)
  PROVE  Returned(p)'
<1>. DEFINE type == Fn(container, Innermost.function).return_type
<1>1. /\ Name \in Return /\ frames = <<>> /\ returned' = TRUE /\ status' = "idle"
      /\ result' = IF Name = "ret" THEN result
                   ELSE SlotToValue(Fn(container, current).return_type, Operand1, State1)
  BY DEF ReturnToHost, On, Leave
<1>2. /\ Innermost.function = current
      /\ type = VOID <=> Name = "ret"
      /\ Name = "ret_v" => /\ type \in ValueType
                           /\ Operand1 = Below(1).value /\ State1 = Below(1).state
  BY <1>1, ReturnTyped
<1>3. Len(activations) = 1
  <2>1. Len(activations) = Len(frames) + 1
    BY SamePlace DEF Interpreting, BoundInv
  <2>2. Len(frames) = 0
    BY <1>1
  <2>. QED
    BY <2>1, <2>2
<1>4. result = reported.result
  BY DEF Interpreting, Together, RunsWith
<1>5. UNCHANGED <<container, activations, reported, Innermost>>
  BY UnmovedPlace DEF Interpreting
<1>6. result' = IF type # VOID THEN Crossing(type, p.value, p.state) ELSE reported.result
  <2>1. CASE Name = "ret"
    BY <1>1, <1>2, <1>4, <2>1
  <2>2. CASE Name = "ret_v"
    <3>1. /\ type # VOID /\ type \in ValueType /\ p = Below(1)
          /\ result' = SlotToValue(type, p.value, p.state)
      BY <1>1, <1>2, <2>2
    <3>. QED
      BY <3>1, SameCrossing
  <2>. QED
    BY <1>1, <2>1, <2>2 DEF Return
<1>7. Produced(p)'
  BY <1>1, <1>5, <1>6 DEF Produced
<1>. QED
  BY <1>3, <1>5, <1>7 DEF Returned

LEMMA CallerReturns ==
  ASSUME Interpreting, ReturnToCaller, NEW p, Name = "ret_v" => p = Below(1)
  PROVE  Returned(p)'
<1>1. PICK f : f = Resumed(p)
  OBVIOUS
<1>2. RunsWith(activations, Len(activations) - 2, f)'
  BY <1>1, ReturnsSame DEF ResumedBy
<1>3. Len(activations) # 1
  <2>1. Len(frames) \in Nat \ {0} /\ Len(frames) = Len(activations) - 1
    BY BackInFrame
  <2>. QED
    BY <2>1
<1>4. UNCHANGED <<container, shapes, activations, Innermost>>
  BY UnmovedPlace DEF Interpreting
<1>5. UNCHANGED Outer
  BY <1>4 DEF Outer
<1>6. f = Resumed(p)'
  BY <1>1, <1>4, <1>5 DEF Resumed
<1>. QED
  BY <1>2, <1>3, <1>4, <1>6 DEF Returned

LEMMA ReturnsAhead ==
  ASSUME Interpreting, NEW given, answer' = given, ReturnToHost \/ ReturnToCaller
  PROVE  Answering'
<1>1. /\ Lowered = Name /\ Name \in Return /\ asked' = asked
  BY SamePlace DEF Interpreting, BoundInv, ReturnToHost, ReturnToCaller, On
<1>2. asked = requested
  BY DEF Interpreting, Together
<1>3. UNCHANGED <<verifyVars, cVars>>
  BY DEF Interpreting
<1>4. /\ UNCHANGED <<Lowered, Asks, produced>> /\ Below(1)' = Below(1)
  BY <1>3, Unmoved, UnmovedPlace
<1>5. Asks = requested
  BY <1>1 DEF Asks, Return
<1>6. ASSUME NEW p, Name = "ret_v" => p = Below(1) PROVE Returned(p)'
  BY <1>6, HostReturns, CallerReturns
<1>7. Lowered = "ret_v" => (\E p : p = Below(1) /\ Returned(p))'
  BY <1>1, <1>4, <1>6
<1>8. Lowered = "ret" => (\E p : p = produced /\ Returned(p))'
  BY <1>1, <1>4, <1>6
<1>9. Ahead(given)'
  BY <1>1, <1>2, <1>4, <1>5, <1>7, <1>8 DEF Ahead, Return
<1>. QED
  BY <1>9 DEF Answering
-----------------------------------------------------------------------------
(* Whatever the instruction, the C has an answer to it.  A counter of a loop at
   the most negative i32 is left out: its decrement is an overflow in both
   lowerings, which a compiler may settle differently in each. *)
GuardsDefined ==
  status = "running" /\ Name = "loop.guard" =>
    2 * (AsI32(values[base + Arg]) - 1) >= -M32

LEMMA StepAhead ==
  ASSUME Interpreting, CountedInv, GroupsDeclared, GuardsDefined, Step,
         NEW given, answer' = given, given = Answered
  PROVE  status' = "stray" \/ Answering'
<1>1. CASE Constants
  BY <1>1, ConstantsAhead
<1>2. CASE Movement
  BY <1>2, LocalsAhead, StackAhead, EntitiesAhead, HostCallAhead DEF Movement
<1>3. CASE UnaryTurns
  BY <1>3, UnariesAhead
<1>4. CASE BinaryTurns
  BY <1>4, BinariesAhead
<1>5. CASE Control
  <2>1. CASE LoopGuard
    <3>1. Name = "loop.guard" /\ status = "running"
      BY <2>1 DEF LoopGuard, On
    <3>. QED
      BY <2>1, <3>1, GuardAhead DEF GuardsDefined
  <2>2. CASE Jmp
    BY <2>2, StackAhead
  <2>3. CASE JmpIf
    BY <2>3, JmpIfAhead
  <2>4. CASE Call
    BY <2>4, CallAhead
  <2>5. CASE ReturnToHost \/ ReturnToCaller
    BY <2>5, ReturnsAhead
  <2>. QED
    BY <1>5, <2>1, <2>2, <2>3, <2>4, <2>5 DEF Control
<1>6. CASE Default
  BY <1>6, TypedIsDispatched DEF Default, Interpreting, BoundInv
<1>7. CASE Stray
  BY <1>7 DEF Stray
<1>8. Core32 \/ Core64 \/ Floating \/ Logic => UnaryTurns \/ BinaryTurns
  BY DEF Core32, Core64, Floating, Logic, UnaryTurns, BinaryTurns
<1>. QED
  BY <1>1, <1>2, <1>3, <1>4, <1>5, <1>6, <1>7, <1>8 DEF Step

LEMMA InterpretAhead ==
  ASSUME BoundInv, ValuesInv, NestInv, CountedInv, LockInv, GroupsDeclared, GuardsDefined,
         Interpret
  PROVE  LockInv'
<1>1. /\ turn = "interpreter" /\ Step /\ turn' = "c" /\ answer' = Answered
      /\ UNCHANGED <<verifyVars, cVars>>
  BY DEF Interpret
<1>2. status = "running"
  BY <1>1, StepRuns
<1>3. Together
  BY <1>1, <1>2 DEF LockInv
<1>4. [DeviceNext]_deviceVars
  <2>1. verdict = "accepted"
    BY <1>2, RunningFrame DEF BoundInv
  <2>. QED
    BY <1>1, <2>1 DEF DeviceNext, Running, VmNext
<1>5. BoundInv' /\ ValuesInv'
  BY <1>4, BoundNext, ValuesNext DEF BoundInv
<1>6. Interpreting
  BY <1>1, <1>2, <1>3, <1>5 DEF Interpreting
<1>7. status' = "stray" \/ Answering'
  <2>1. PICK given : given = Answered
    OBVIOUS
  <2>. QED
    BY <1>1, <1>6, <2>1, StepAhead
<1>8. label' = "body"
  BY <1>1, <1>2, <1>3 DEF Together, cVars
<1>. QED
  BY <1>1, <1>7, <1>8 DEF LockInv, Answering
-----------------------------------------------------------------------------
(* The host invokes the same entry point of both. *)
LEMMA FreshCounters ==
  ASSUME BoundInv, CountedInv, verdict = "accepted", activations = <<>>, label = "idle",
         NEW entry \in Functions(container)
  PROVE  ~Spent(Fn(container, entry).component)
<1>. DEFINE k == ComponentOf(entry)
<1>1. Verified
  BY DEF BoundInv, DeviceInv, Verified
<1>2. /\ k \in Functions(container) /\ CapOf(entry) \in Nat
      /\ Capped(k) <=> CapOf(entry) # 0
      /\ Capped(k) => CounterCap(k) = CapOf(entry)
  BY <1>1, SameCap
<1>. HIDE DEF k
<1>3. Capped(k) => recursion[k] = 0
  <2>1. Past = 0
    BY EmptySeq DEF Past
  <2>2. Members(container, activations, Past, k) = {}
    BY <2>1 DEF Members
  <2>3. Cardinality({}) = 0
    BY FS_EmptySet
  <2>. QED
    BY <1>2, <2>2, <2>3 DEF CountedInv
<1>4. ~Spent(k)
  BY <1>2, <1>3 DEF Spent
<1>. QED
  BY <1>4 DEF k, ComponentOf

LEMMA InvokesSame ==
  ASSUME BoundInv, ValuesInv, NestInv, CountedInv, Together, UNCHANGED verifyVars,
         NEW entry \in Functions(container), Invoke(entry), CallEntry(entry),
         status' = "running"
  PROVE  Between'
<1>. DEFINE fn == Fn(container, entry)
            count == Len(LocalsOf(entry))
<1>. PICK f : f = Declared(entry, <<>>)
  OBVIOUS
<1>1. /\ status = "idle" /\ fn.invocable /\ count <= MaxSlots
      /\ current' = entry /\ base' = 0 /\ pc' = fn.code_offset /\ sp' = count
      /\ values' = Cleared(values, 0, count, 0)
      /\ states' = Cleared(states, 0, count, UNAVAILABLE)
      /\ asked' = <<>> /\ UNCHANGED <<result, frames>>
  <2>1. count \in Nat /\ MaxSlots \in Nat
    BY FunctionLocals, VmAssumption DEF BoundInv, DeviceInv, LocalsOf
  <2>2. Len(fn.local_types) = count /\ status' # "stray"
    BY DEF LocalsOf
  <2>. HIDE DEF count
  <2>. QED
    BY <2>1, <2>2 DEF Invoke
<1>2. /\ label = "idle" /\ activations' = <<f>> /\ label' = "prologue"
      /\ requested' = <<>> /\ UNCHANGED <<recursion, reported>>
  BY DEF CallEntry
<1>3. UNCHANGED <<container, shapes, verdict>> /\ frames = <<>> /\ verdict = "accepted"
  BY <1>1 DEF verifyVars, BoundInv, DeviceInv
<1>4. Len(activations') = 1 /\ Innermost' = f
  <2>1. <<f>> \in Seq({f}) /\ <<f>> # <<>> /\ Len(<<f>>) = 1 /\ <<f>>[1] = f
    OBVIOUS
  <2>2. Last(<<f>>) = f
    BY <2>1, FrontLast
  <2>. QED
    BY <1>2, <2>1, <2>2 DEF Innermost
<1>5. f.function = entry /\ f.pc = fn.code_offset
  BY Declares
<1>6. ~Spent(Component0)'
  <2>1. ~Spent(fn.component)
    BY <1>2, <1>3, FreshCounters DEF NestInv
  <2>2. Component0' = fn.component
    BY <1>3, <1>4, <1>5 DEF Component0
  <2>3. \A k : Spent(k)' <=> Spent(k)
    BY <1>2, <1>3 DEF Spent, Capped, CounterCap
  <2>4. PICK k : k = fn.component
    OBVIOUS
  <2>. QED
    BY <2>1, <2>2, <2>3, <2>4 DEF Spent
<1>7. fn.param_count = 0 /\ count \in Nat /\ MaxSlots \in Nat
  <2>1. Decoded(container) /\ entry + 1 \in DOMAIN container.functions
    BY LenProperties
    DEF BoundInv, DeviceInv, VerifyInv, VerifyTypeOK, Decoded, DecodedContainer, Functions
  <2>2. fn = container.functions[entry + 1]
    BY DEF Fn, At
  <2>3. fn.invocable => fn.param_count = 0
    BY <2>1, <2>2 DEF Decoded
  <2>4. count \in Nat
    BY FunctionLocals DEF BoundInv, DeviceInv, LocalsOf
  <2>. QED
    BY <1>1, <2>3, <2>4, VmAssumption
<1>8. Mirrors(values', states', 0, count, f)
  <2>. SUFFICES ASSUME NEW x \in 0..count - 1
                PROVE  /\ values'[x] = Variable(f, x - 0).value
                       /\ states'[x] = Variable(f, x - 0).state
    BY DEF Mirrors
  <2>. HIDE DEF count, fn
  <2>1. x \in Slot /\ x \in 0..count - 1 /\ x - 0 = x /\ ~(x < fn.param_count)
    BY <1>1, <1>7 DEF Slot
  <2>2. values'[x] = 0 /\ states'[x] = UNAVAILABLE
    BY <1>1, <2>1 DEF Cleared
  <2>3. Variable(f, x) = Pair(0, UNAVAILABLE)
    BY <2>1, DeclaredLocals DEF count, fn
  <2>. QED
    BY <2>1, <2>2, <2>3 DEF Pair
<1>9. TopSame(f)'
  BY <1>1, <1>3, <1>5, <1>8 DEF TopSame, Mirrors, Variable, LocalsOf
<1>10. RunsWith(activations, Len(activations) - 1, Innermost)'
  <2>1. Len(frames') = 0 /\ \A n \in 1..0 : FALSE
    BY <1>1, <1>3, EmptySeq
  <2>2. result' = reported'.result
    BY <1>1, <1>2 DEF Together
  <2>3. TopSame(Innermost)'
    BY <1>4, <1>9
  <2>. QED
    BY <1>4, <2>1, <2>2, <2>3 DEF RunsWith
<1>. QED
  BY <1>1, <1>2, <1>6, <1>10 DEF Between

LEMMA InvokeBothAhead ==
  ASSUME BoundInv, ValuesInv, NestInv, CountedInv, LockInv, InvokeBoth
  PROVE  LockInv'
<1>1. PICK entry \in Functions(container) : Invoke(entry) /\ CallEntry(entry)
  BY DEF InvokeBoth
<1>2. turn = "interpreter" /\ turn' = "convention" /\ UNCHANGED verifyVars
  BY DEF InvokeBoth
<1>3. status = "idle" /\ status' \in {"running", "stray"}
  BY <1>1 DEF Invoke
<1>4. Together
  BY <1>2, <1>3 DEF LockInv
<1>5. status' = "running" => Between'
  BY <1>1, <1>2, <1>4, InvokesSame
<1>. QED
  BY <1>2, <1>3, <1>5 DEF LockInv
-----------------------------------------------------------------------------
(* What the C does at an instruction, in one piece. *)
Stays(given) ==
  /\ Faults(given) = "no_fault"
  /\ \E f : f = [Changes(given) EXCEPT !.pc = Following] /\ Becomes(f)
  /\ UNCHANGED <<label, ok, produced, raised>>

Raises(given) ==
  /\ Faults(given) # "no_fault" /\ raised' = Faults(given) /\ label' = "done"
  /\ UNCHANGED <<activations, ok, produced>>

Does(given) ==
  /\ requested' = Asks /\ label = "body" /\ reported' = reported /\ recursion' = recursion
  /\ Stays(given) \/ Raises(given)

LEMMA GoesOn ==
  ASSUME NEW given, NEW f, NEW q, OnTo(f, q), f = Changes(given), q = Following,
         Faults(given) = "no_fault", requested' = Asks, label = "body"
  PROVE  Does(given)
<1>1. PICK g : g = [f EXCEPT !.pc = q]
  OBVIOUS
<1>2. Becomes(g) /\ UNCHANGED <<label, ok, produced, raised, recursion, reported>>
  BY <1>1 DEF OnTo
<1>3. g = [Changes(given) EXCEPT !.pc = Following]
  BY <1>1
<1>. QED
  BY <1>2, <1>3 DEF Does, Stays

LEMMA FaultsThere ==
  ASSUME NEW given, NEW kind, Raise(kind), Faults(given) = kind, kind # "no_fault",
         requested' = Asks, label = "body"
  PROVE  Does(given)
BY DEF Raise, Does, Raises

LEMMA ComputeDoes ==
  ASSUME NEW given, Compute
  PROVE  Does(given) /\ Lowered \notin Return \cup {"call"}
<1>1. Lowered \in Literals \cup Unaries \cup Binaries /\ label = "body"
  BY DEF Compute, Executing
<1>2. /\ Lowered \notin Return \cup {"call", "loop.guard"}
      /\ Faults(given) = "no_fault" /\ Asks = requested
      /\ Following = After(container, Innermost.pc)
  BY <1>1, Plain
<1>3. PICK f : OnTo(f, After(container, Innermost.pc)) /\ f = Changes(given)
  BY <1>1, Plain DEF Compute, Executing, Then
<1>4. requested' = Asks
  BY <1>2 DEF Compute
<1>. QED
  BY <1>1, <1>2, <1>3, <1>4, GoesOn

LEMMA MoveDoes ==
  ASSUME NEW given, Move
  PROVE  Does(given) /\ Lowered \notin Return \cup {"call"}
<1>1. Lowered \in {"load.l", "store.l", "dup", "drop"} /\ label = "body"
  BY DEF Move, Executing
<1>2. /\ Faults(given) = "no_fault" /\ Asks = requested
      /\ Following = After(container, Innermost.pc)
  BY <1>1, Moving
<1>3. PICK f : OnTo(f, After(container, Innermost.pc)) /\ f = Changes(given)
  BY <1>1, Moving DEF Move, Executing, Then
<1>4. requested' = Asks
  BY <1>2 DEF Move
<1>5. Lowered \notin Return \cup {"call"}
  BY <1>1 DEF Return
<1>. QED
  BY <1>1, <1>2, <1>3, <1>4, <1>5, GoesOn

LEMMA EntityDoes ==
  ASSUME NEW given, ReadHost(given) \/ WriteHost
  PROVE  Does(given) /\ Lowered \notin Return \cup {"call"}
<1>1. Lowered \in {"load.h", "store.h"} /\ label = "body"
  BY DEF ReadHost, WriteHost, Executing
<1>2. /\ Faults(given) = "no_fault"
      /\ Following = After(container, Innermost.pc)
  BY <1>1, Moving
<1>3. CASE ReadHost(given)
  <2>1. Lowered = "load.h" /\ requested' = Asks
    BY <1>3 DEF ReadHost, Executing, Asks
  <2>2. OnTo(Changes(given), Following)
    BY <1>2, <1>3, <2>1, Moving DEF ReadHost, Then, Heard
  <2>. QED
    BY <1>1, <1>2, <2>1, <2>2, GoesOn DEF Return
<1>4. CASE WriteHost
  <2>1. Lowered = "store.h" /\ requested' = Asks
    BY <1>4 DEF WriteHost, Executing, Asks
  <2>2. OnTo(Changes(given), Following)
    BY <1>2, <1>4, <2>1, Moving DEF WriteHost, Then
  <2>. QED
    BY <1>1, <1>2, <2>1, <2>2, GoesOn DEF Return
<1>. QED
  BY <1>3, <1>4

LEMMA CallHostDoes ==
  ASSUME NEW given, CallHost(given)
  PROVE  Does(given) /\ Lowered \notin Return \cup {"call"}
<1>. DEFINE n == Len(Imported.param_types)
<1>1. /\ Lowered = "call.h" /\ label = "body"
      /\ requested' = <<"call", Index, Arguments(n)>>
      /\ \/ ~given.accepted /\ Raise("host_fault")
         \/ /\ given.accepted /\ Imported.type = VOID
            /\ Then(Innermost)
         \/ /\ given.accepted /\ Imported.type # VOID
            /\ Then(Assign(Depth - n, Heard(given)))
  BY DEF CallHost, Executing, Heard
<1>2. /\ Following = After(container, Innermost.pc) /\ requested' = Asks
      /\ Changes(given) = IF Imported.type # VOID THEN Assign(Depth - n, Heard(given))
                          ELSE Innermost
  BY <1>1, Moving DEF Asks
<1>3. Faults(given) = IF given.accepted THEN "no_fault" ELSE "host_fault"
  BY <1>1 DEF Faults
<1>4. CASE ~given.accepted
  BY <1>1, <1>2, <1>3, <1>4, FaultsThere DEF Return
<1>5. CASE given.accepted
  <2>1. OnTo(Changes(given), Following)
    BY <1>1, <1>2, <1>5 DEF Then
  <2>. QED
    BY <1>1, <1>2, <1>3, <1>5, <2>1, GoesOn DEF Return
<1>. QED
  BY <1>4, <1>5

LEMMA GuardDoes ==
  ASSUME NEW given, Guard, Decremented \in Int, 2 * Decremented >= -M32
  PROVE  Does(given) /\ Lowered \notin Return \cup {"call"}
<1>1. /\ Lowered = "loop.guard" /\ label = "body" /\ requested' = requested
      /\ \/ Decremented < 0 /\ Raise("iteration_limit")
         \/ /\ Decremented >= 0 \/ 2 * Decremented < -M32
            /\ Then([Innermost EXCEPT !.local[Index] = Pair(FromI32(Decremented), @.state)])
  BY DEF Guard, Executing, Decremented
<1>2. /\ Following = After(container, Innermost.pc) /\ requested' = Asks
      /\ Changes(given) = [Innermost EXCEPT !.local[Index] = Pair(FromI32(Decremented), @.state)]
  BY <1>1, Moving
<1>3. Faults(given) = IF Decremented < 0 THEN "iteration_limit" ELSE "no_fault"
  BY <1>1 DEF Faults
<1>4. CASE Decremented < 0 /\ Raise("iteration_limit")
  BY <1>1, <1>2, <1>3, <1>4, FaultsThere DEF Return
<1>5. CASE /\ Decremented >= 0 \/ 2 * Decremented < -M32
           /\ Then([Innermost EXCEPT !.local[Index] = Pair(FromI32(Decremented), @.state)])
  <2>1. ~(Decremented < 0)
    <3>1. M32 \in Int
      BY WordAssumption
    <3>2. Decremented >= 0
      BY <1>5, <3>1
    <3>. QED
      BY <3>2
  <2>2. OnTo(Changes(given), Following)
    BY <1>2, <1>5 DEF Then
  <2>. QED
    BY <1>1, <1>2, <1>3, <2>1, <2>2, GoesOn DEF Return
<1>. QED
  BY <1>1, <1>4, <1>5

LEMMA GotoDoes ==
  ASSUME NEW given, Goto
  PROVE  Does(given) /\ Lowered \notin Return \cup {"call"}
<1>1. /\ Lowered \in {"jmp", "jmp_if_false", "jmp_if_true"} /\ label = "body"
      /\ requested' = requested
  BY DEF Goto, Executing
<1>2. /\ requested' = Asks /\ Changes(given) = Innermost
      /\ Lowered \notin Return \cup {"call"}
  BY <1>1, Moving DEF Return
<1>3. CASE Lowered = "jmp"
  <2>1. Faults(given) = "no_fault" /\ Following = Target(container, Innermost.pc)
    BY <1>3 DEF Faults, Following, Jumps
  <2>2. OnTo(Innermost, Target(container, Innermost.pc))
    BY <1>3 DEF Goto, Executing
  <2>. QED
    BY <1>1, <1>2, <2>1, <2>2, GoesOn
<1>4. CASE Lowered # "jmp"
  <2>1. /\ Lowered \in {"jmp_if_false", "jmp_if_true"}
        /\ IF Below(1).state # VALID THEN Raise("absent_condition")
           ELSE IF (Lowered = "jmp_if_false") = (Below(1).value = 0)
           THEN OnTo(Innermost, Target(container, Innermost.pc))
           ELSE Then(Innermost)
    BY <1>4 DEF Goto, Executing
  <2>2. Faults(given) = IF Below(1).state # VALID THEN "absent_condition" ELSE "no_fault"
    BY <2>1 DEF Faults
  <2>3. CASE Below(1).state # VALID
    BY <1>1, <1>2, <2>1, <2>2, <2>3, FaultsThere
  <2>4. CASE Below(1).state = VALID
    <3>1. OnTo(Innermost, Following)
      BY <2>1, <2>4 DEF Following, Jumps, Then
    <3>. QED
      BY <1>1, <1>2, <2>2, <2>4, <3>1, GoesOn
  <2>. QED
    BY <2>3, <2>4
<1>. QED
  BY <1>3, <1>4
-----------------------------------------------------------------------------
(* The interpreter waits while the C catches up. *)
LEMMA WaitingVm ==
  ASSUME UNCHANGED deviceVars
  PROVE  /\ UNCHANGED <<container, shapes, verdict, values, states, base, sp, pc, current>>
         /\ UNCHANGED <<status, frames, result, returned, fault, asked>>
         /\ UNCHANGED <<verifyVars, vmVars>>
BY DEF deviceVars, verifyVars, vmVars, frameVars, slots, report

LEMMA SameMirror ==
  ASSUME UNCHANGED deviceVars
  PROVE  /\ \A a, low, high : Mirrors(values, states, low, high, a) =>
                                (Mirrors(values, states, low, high, a))'
         /\ \A n : Above(n)' = Above(n)
         /\ \A a, n : CallerSame(a, n) => CallerSame(a, n)'
         /\ \A a : TopSame(a) => TopSame(a)'
<1>1. UNCHANGED <<container, values, states, base, sp, pc, current, frames>>
  BY WaitingVm
<1>2. \A a, low, high : Mirrors(values, states, low, high, a) =>
                          (Mirrors(values, states, low, high, a))'
  BY <1>1 DEF Mirrors, Variable, LocalsOf
<1>3. \A n : Above(n)' = Above(n)
  BY <1>1 DEF Above
<1>4. \A a, n : CallerSame(a, n) => CallerSame(a, n)'
  BY <1>1, <1>3 DEF CallerSame, Mirrors, Variable, LocalsOf
<1>5. \A a : TopSame(a) => TopSame(a)'
  BY <1>1 DEF TopSame, Mirrors, Variable, LocalsOf
<1>. QED
  BY <1>2, <1>3, <1>4, <1>5

LEMMA RunsStill ==
  ASSUME UNCHANGED <<deviceVars, reported>>, NEW outer, NEW m, NEW top,
         RunsWith(outer, m, top), \A n \in 1..m : activations'[n] = outer[n],
         m = Len(activations') - 1, Innermost' = top
  PROVE  RunsWith(activations, Len(activations) - 1, Innermost)'
<1>1. UNCHANGED <<status, frames, result>>
  BY WaitingVm
<1>2. ASSUME NEW n \in 1..m PROVE CallerSame(activations[n], n)'
  <2>1. PICK a : a = activations'[n]
    OBVIOUS
  <2>2. CallerSame(a, n)
    BY <1>2, <2>1 DEF RunsWith
  <2>3. CallerSame(a, n)'
    BY <2>2, SameMirror
  <2>. QED
    BY <2>1, <2>3 DEF CallerSame
<1>3. TopSame(Innermost)'
  <2>1. TopSame(top)'
    BY SameMirror DEF RunsWith
  <2>. QED
    BY <2>1 DEF TopSame
<1>. QED
  BY <1>1, <1>2, <1>3 DEF RunsWith

LEMMA RunsSame ==
  ASSUME UNCHANGED <<deviceVars, reported, activations>>, NEW m, NEW f,
         RunsWith(activations, m, f)
  PROVE  RunsWith(activations, m, f)'
<1>1. UNCHANGED <<status, frames, result>>
  BY WaitingVm
<1>2. ASSUME NEW n \in 1..m PROVE CallerSame(activations[n], n)'
  <2>1. PICK a : a = activations[n]
    OBVIOUS
  <2>2. CallerSame(a, n)'
    BY <1>2, <2>1, SameMirror DEF RunsWith
  <2>. QED
    BY <2>1, <2>2 DEF CallerSame
<1>3. TopSame(f)'
  BY SameMirror DEF RunsWith
<1>. QED
  BY <1>1, <1>2, <1>3 DEF RunsWith

LEMMA EndsSame ==
  ASSUME UNCHANGED <<deviceVars, reported>>
  PROVE  /\ \A kind : Failed(kind) => Failed(kind)'
         /\ Innermost' = Innermost => \A p : Produced(p) => Produced(p)'
<1>1. UNCHANGED <<container, status, returned, fault, result>>
  BY WaitingVm
<1>. QED
  BY <1>1 DEF Failed, Produced

LEMMA ReturnedSame ==
  ASSUME UNCHANGED <<deviceVars, reported, activations>>, NEW p, Returned(p)
  PROVE  Returned(p)'
<1>1. UNCHANGED <<container, shapes, Innermost>>
  BY WaitingVm DEF Innermost
<1>2. UNCHANGED Outer
  BY DEF Outer
<1>3. CASE Len(activations) = 1
  BY <1>1, <1>3, EndsSame DEF Returned
<1>4. CASE Len(activations) # 1
  <2>1. PICK f : f = Resumed(p) /\ RunsWith(activations, Len(activations) - 2, f)
    BY <1>4 DEF Returned
  <2>2. PICK m : m = Len(activations) - 2
    OBVIOUS
  <2>3. RunsWith(activations, m, f)'
    BY <2>1, <2>2, RunsSame
  <2>4. f = Resumed(p)'
    BY <1>1, <1>2, <2>1 DEF Resumed
  <2>5. Len(activations)' # 1 /\ RunsWith(activations, Len(activations) - 2, f)'
    BY <1>4, <2>2, <2>3
  <2>. QED
    BY <2>4, <2>5 DEF Returned
<1>. QED
  BY <1>3, <1>4
-----------------------------------------------------------------------------
(* The C executes the instruction and is where the interpreter is, or on its
   way there. *)
Arrives ==
  /\ label' \in {"body", "idle"} => Together'
  /\ label' \notin {"body", "idle"} => Between'

LEMMA DoneArrives ==
  ASSUME NestInv, UNCHANGED deviceVars, NEW given, Does(given), asked = Asks, Executed(given)
  PROVE  Arrives
<1>1. /\ requested' = Asks /\ label = "body" /\ reported' = reported /\ asked' = Asks
      /\ ~ok /\ UNCHANGED status
  BY WaitingVm DEF Does, NestInv
<1>2. CASE Stays(given)
  <2>1. PICK f : f = [Changes(given) EXCEPT !.pc = Following] /\ Becomes(f)
    BY <1>2 DEF Stays
  <2>2. RunsWith(activations, Len(activations) - 1, f)
    BY <1>2, <2>1 DEF Executed, Stays
  <2>3. /\ Len(activations') = Len(activations) /\ Innermost' = f
        /\ \A n \in 1..Len(activations) - 1 : activations'[n] = activations[n]
        /\ label' = "body"
    <3>1. /\ \E S : activations' \in Seq(S)
          /\ Len(activations') = Len(activations)
          /\ activations'[Len(activations)] = f
          /\ \A n \in 1..Len(activations) - 1 : activations'[n] = activations[n]
      BY <1>1, <2>1, Changed
    <3>2. Len(activations) \in Nat /\ Len(activations) >= 1
      BY <1>1, Nested
    <3>3. PICK S : activations' \in Seq(S)
      BY <3>1
    <3>4. activations' # <<>>
      BY <3>1, <3>2, EmptySeq
    <3>5. Last(activations') = activations'[Len(activations')]
      BY <3>3, <3>4, FrontLast
    <3>. QED
      BY <1>1, <1>2, <3>1, <3>5 DEF Innermost, Stays
  <2>4. RunsWith(activations, Len(activations) - 1, Innermost)'
    <3>1. PICK m : m = Len(activations) - 1
      OBVIOUS
    <3>. QED
      BY <1>1, <2>2, <2>3, <3>1, RunsStill
  <2>5. status' = "running"
    BY <1>1, <2>2 DEF RunsWith
  <2>. QED
    BY <1>1, <2>3, <2>4, <2>5 DEF Arrives, Together
<1>3. CASE Raises(given)
  <2>1. /\ raised' = Faults(given) /\ label' = "done" /\ ok' = FALSE
        /\ Failed(Faults(given))
    BY <1>1, <1>3 DEF Raises, Executed
  <2>2. PICK kind : kind = Faults(given)
    OBVIOUS
  <2>3. Failed(kind)'
    BY <1>1, <2>1, <2>2, EndsSame
  <2>4. Failed(raised)'
    BY <2>1, <2>2, <2>3 DEF Failed
  <2>. QED
    BY <1>1, <2>1, <2>4 DEF Arrives, Between
<1>. QED
  BY <1>2, <1>3 DEF Does

LEMMA CallArrives ==
  ASSUME NestInv, UNCHANGED deviceVars, CallFunction, asked = Asks, Entering
  PROVE  Arrives
<1>1. /\ Lowered = "call" /\ label = "body" /\ label' = "prologue"
      /\ UNCHANGED <<ok, raised, recursion, reported, requested>>
      /\ activations' = Append(activations, Declared(Index, Copied))
  BY DEF CallFunction, Executing, Copied
<1>2. asked' = requested'
  <2>1. Asks = requested
    BY <1>1 DEF Asks
  <2>. QED
    BY <1>1, <2>1, WaitingVm
<1>3. PICK f : f = Declared(Index, Copied)
  OBVIOUS
<1>4. /\ Len(activations') = Len(activations) + 1 /\ Innermost' = f
      /\ \A n \in 1..Len(activations) : activations'[n] = activations[n]
      /\ Len(activations) \in Nat
  <2>1. PICK next : next = Append(activations, f)
    OBVIOUS
  <2>2. /\ \E S : next \in Seq(S)
        /\ Len(next) = Len(activations) + 1
        /\ next[Len(activations) + 1] = f
        /\ \A n \in 1..Len(activations) : next[n] = activations[n]
    BY <2>1, Appended
  <2>3. Len(activations) \in Nat
    BY Nested
  <2>4. PICK S : next \in Seq(S)
    BY <2>2
  <2>5. next # <<>>
    BY <2>2, <2>3, EmptySeq
  <2>6. Last(next) = next[Len(next)]
    BY <2>4, <2>5, FrontLast
  <2>. QED
    BY <1>1, <1>3, <2>1, <2>2, <2>3, <2>6 DEF Innermost
<1>5. Component0' = Called.component
  <2>1. f.function = Index
    BY <1>3, Declares
  <2>. QED
    BY <1>4, <2>1, WaitingVm DEF Component0, Called
<1>6. \A k : Spent(k)' <=> Spent(k)
  BY <1>1, WaitingVm DEF Spent, Capped, CounterCap
<1>7. PICK k : k = Called.component
  OBVIOUS
<1>8. Spent(Component0)' <=> Spent(k)
  BY <1>5, <1>6, <1>7 DEF Spent
<1>9. CASE Spent(k)
  <2>1. Failed("recursion_limit")
    BY <1>7, <1>9 DEF Entering
  <2>2. Failed("recursion_limit")'
    BY <1>1, <2>1, EndsSame
  <2>. QED
    BY <1>1, <1>2, <1>8, <1>9, <2>2 DEF Arrives, Between
<1>10. CASE ~Spent(k)
  <2>1. RunsWith(activations, Len(activations), f)
    BY <1>3, <1>7, <1>10 DEF Entering
  <2>2. PICK m : m = Len(activations)
    OBVIOUS
  <2>3. RunsWith(activations, Len(activations) - 1, Innermost)'
    <3>1. m = Len(activations') - 1
      BY <1>4, <2>2
    <3>. QED
      BY <1>1, <1>4, <2>1, <2>2, <3>1, RunsStill
  <2>. QED
    BY <1>1, <1>2, <1>8, <1>10, <2>3 DEF Arrives, Between
<1>. QED
  BY <1>9, <1>10

LEMMA ReturnArrives ==
  ASSUME NestInv, UNCHANGED deviceVars, ReturnFrom, asked = Asks,
         Lowered = "ret_v" => \E p : p = Below(1) /\ Returned(p),
         Lowered = "ret" => \E p : p = produced /\ Returned(p)
  PROVE  Arrives
<1>1. /\ Lowered \in Return /\ label' = "done" /\ ok' = TRUE
      /\ produced' = IF Lowered = "ret_v" THEN Below(1) ELSE produced
      /\ UNCHANGED <<activations, raised, recursion, reported, requested>>
  BY DEF ReturnFrom, Executing
<1>2. asked' = requested'
  <2>1. Asks = requested
    BY <1>1 DEF Asks, Return
  <2>. QED
    BY <1>1, <2>1, WaitingVm
<1>3. PICK p : p = produced' /\ Returned(p)
  BY <1>1 DEF Return
<1>4. Returned(p)'
  BY <1>1, <1>3, ReturnedSame
<1>5. Returned(produced)'
  BY <1>3, <1>4 DEF Returned, Produced, Resumed
<1>. QED
  BY <1>1, <1>2, <1>5 DEF Arrives, Between

LEMMA BodyArrives ==
  ASSUME NestInv, UNCHANGED deviceVars, NEW given, Ahead(given), Body(given)
  PROVE  Arrives
<1>1. ASSUME Does(given), Lowered \notin Return \cup {"call"} PROVE Arrives
  <2>1. Executed(given) /\ asked = Asks
    BY <1>1 DEF Ahead
  <2>. QED
    BY <1>1, <2>1, DoneArrives
<1>2. CASE Guard
  <2>1. Lowered = "loop.guard"
    BY <1>2 DEF Guard, Executing
  <2>2. Decremented \in Int /\ 2 * Decremented >= -M32
    BY <2>1 DEF Ahead
  <2>. QED
    BY <1>1, <1>2, <2>2, GuardDoes
<1>3. CASE CallFunction
  <2>1. Lowered = "call"
    BY <1>3 DEF CallFunction, Executing
  <2>. QED
    BY <1>3, <2>1, CallArrives DEF Ahead
<1>4. CASE ReturnFrom
  BY <1>4, ReturnArrives DEF Ahead
<1>5. CASE Compute \/ Move \/ ReadHost(given) \/ WriteHost \/ CallHost(given) \/ Goto
  BY <1>1, <1>5, ComputeDoes, MoveDoes, EntityDoes, CallHostDoes, GotoDoes
<1>. QED
  BY <1>2, <1>3, <1>4, <1>5 DEF Body

LEMMA ExecuteAhead ==
  ASSUME NestInv, LockInv, Execute
  PROVE  LockInv'
<1>1. turn = "c" /\ Body(answer) /\ CGoesOn /\ UNCHANGED <<deviceVars, answer>>
  BY DEF Execute
<1>2. status' = status
  BY <1>1, WaitingVm
<1>3. CASE status = "stray"
  BY <1>2, <1>3 DEF LockInv
<1>4. CASE status # "stray"
  <2>1. PICK given : given = answer /\ Ahead(given)
    BY <1>1, <1>4 DEF LockInv
  <2>2. Arrives
    BY <1>1, <2>1, BodyArrives
  <2>3. turn' = IF label' \in {"body", "idle"} THEN "interpreter" ELSE "convention"
    BY <1>1 DEF CGoesOn, Settled
  <2>. QED
    BY <2>2, <2>3 DEF Arrives, LockInv
<1>. QED
  BY <1>3, <1>4
-----------------------------------------------------------------------------
(* A prologue, a return through the label, or one step of unwinding. *)
LEMMA PrologueArrives ==
  ASSUME NestInv, UNCHANGED deviceVars, Between, Prologue
  PROVE  Arrives
<1>1. /\ label = "prologue" /\ UNCHANGED <<activations, ok, produced, reported, requested>>
      /\ ~ok /\ asked' = requested'
  BY WaitingVm DEF Prologue, Between, NestInv
<1>2. /\ UNCHANGED Innermost
      /\ Spent(Component0) <=>
           Capped(Component0) /\ recursion[Component0] + 1 > CounterCap(Component0)
  BY <1>1 DEF Innermost, Spent
<1>3. CASE Spent(Component0)
  <2>1. raised' = "recursion_limit" /\ label' = "done"
    BY <1>2, <1>3 DEF Prologue
  <2>2. Failed("recursion_limit")
    BY <1>1, <1>3 DEF Between
  <2>3. Failed("recursion_limit")'
    BY <1>1, <2>2, EndsSame
  <2>. QED
    BY <1>1, <2>1, <2>3 DEF Arrives, Between
<1>4. CASE ~Spent(Component0)
  <2>1. label' = "body"
    BY <1>2, <1>4 DEF Prologue
  <2>2. RunsWith(activations, Len(activations) - 1, Innermost)
    BY <1>1, <1>4 DEF Between
  <2>3. RunsWith(activations, Len(activations) - 1, Innermost)'
    <3>1. PICK m : m = Len(activations) - 1
      OBVIOUS
    <3>. QED
      BY <1>1, <1>2, <2>2, <3>1, RunsStill
  <2>4. status' = "running"
    BY <2>3 DEF RunsWith
  <2>. QED
    BY <1>1, <2>1, <2>3, <2>4 DEF Arrives, Together
<1>. QED
  BY <1>3, <1>4

LEMMA CallerArrives ==
  ASSUME NestInv, UNCHANGED deviceVars, Between, BackInCaller
  PROVE  Arrives
<1>1. /\ label = "done" /\ Len(activations) > 1 /\ ok' = FALSE
      /\ UNCHANGED <<raised, reported, requested>> /\ asked' = requested'
  BY WaitingVm DEF BackInCaller, Between
<1>. PICK N : N = Len(activations)
  OBVIOUS
<1>2. PICK front : front = Front(activations)
  OBVIOUS
<1>3. /\ \E S : front \in Seq(S)
      /\ Len(front) = N - 1 /\ N \in Nat /\ N > 1
      /\ \A n \in 1..N - 1 : front[n] = activations[n]
  BY <1>1, <1>2, LeftBehind, Nested
<1>4. Last(front) = Outer /\ front # <<>>
  <2>1. PICK S : front \in Seq(S)
    BY <1>3
  <2>2. front # <<>>
    BY <1>3, EmptySeq
  <2>3. Last(front) = front[N - 1]
    BY <1>3, <2>1, <2>2, FrontLast
  <2>4. N - 1 \in 1..N - 1
    BY <1>3
  <2>5. front[N - 1] = activations[N - 1]
    BY <1>3, <2>4
  <2>. QED
    BY <2>2, <2>3, <2>5 DEF Outer
<1>5. CASE ~ok
  <2>1. Failed(raised) /\ label' = "done"
    BY <1>1, <1>5 DEF Between, BackInCaller
  <2>2. PICK kind : kind = raised
    OBVIOUS
  <2>3. Failed(kind)'
    BY <1>1, <2>1, <2>2, EndsSame
  <2>4. Failed(raised)'
    BY <1>1, <2>2, <2>3 DEF Failed
  <2>. QED
    BY <1>1, <2>1, <2>4 DEF Arrives, Between
<1>6. CASE ok
  <2>1. PICK f : f = Resumed(produced) /\ RunsWith(activations, N - 2, f)
    BY <1>1, <1>6 DEF Between, Returned
  <2>2. activations' = Append(Front(front), f) /\ label' = "body"
    <3>1. /\ label' = "body"
          /\ LET callee == Fn(container, Innermost.function)
                 depth  == Len(shapes[Outer.function][Outer.pc]) - callee.param_count
                 taken  == IF callee.return_type = VOID THEN Outer
                           ELSE [Outer EXCEPT !.slot[depth] = produced]
             IN  activations' = Append(Front(front), [taken EXCEPT !.pc = After(container, @)])
      BY <1>2, <1>4, <1>6 DEF BackInCaller
    <3>. QED
      BY <2>1, <3>1 DEF Resumed
  <2>3. /\ Len(activations') = N - 1 /\ Innermost' = f
        /\ \A n \in 1..N - 2 : activations'[n] = activations[n]
    <3>1. PICK S : front \in Seq(S)
      BY <1>3
    <3>2. PICK below : below = Front(front)
      OBVIOUS
    <3>3. /\ below \in Seq(S) /\ Len(below) = N - 2
          /\ \A n \in 1..N - 2 : below[n] = front[n]
      <4>1. /\ Front(front) \in Seq(S) /\ Len(Front(front)) = Len(front) - 1
            /\ \A n \in 1..Len(front) - 1 : Front(front)[n] = front[n]
        BY ONLY <1>4, <3>1, FrontLast
      <4>. QED
        BY <1>3, <3>2, <4>1
    <3>4. PICK next : next = Append(below, f)
      OBVIOUS
    <3>5. below \in Seq(S \cup {f}) /\ f \in S \cup {f}
      BY <3>3
    <3>6. /\ next \in Seq(S \cup {f}) /\ Len(next) = (N - 2) + 1
          /\ next[(N - 2) + 1] = f
          /\ \A n \in 1..N - 2 : next[n] = below[n]
      BY <3>3, <3>4, <3>5, AppendProperties
    <3>7. (N - 2) + 1 = N - 1 /\ N - 1 # 0
      BY <1>3
    <3>8. next # <<>>
      BY <3>6, <3>7, EmptySeq
    <3>9. Last(next) = next[Len(next)]
      BY <3>6, <3>8, FrontLast
    <3>10. \A n \in 1..N - 2 : n \in 1..N - 1
      BY <1>3
    <3>. QED
      BY <1>3, <2>2, <3>2, <3>3, <3>4, <3>6, <3>7, <3>9, <3>10 DEF Innermost
  <2>4. RunsWith(activations, Len(activations) - 1, Innermost)'
    <3>1. PICK m : m = N - 2
      OBVIOUS
    <3>2. m = Len(activations') - 1
      BY <1>3, <2>3, <3>1
    <3>. QED
      BY <1>1, <2>1, <2>3, <3>1, <3>2, RunsStill
  <2>5. status' = "running"
    BY <2>4 DEF RunsWith
  <2>. QED
    BY <1>1, <2>2, <2>4, <2>5 DEF Arrives, Together
<1>. QED
  BY <1>5, <1>6

LEMMA WrapperArrives ==
  ASSUME NestInv, UNCHANGED deviceVars, Between, BackInWrapper
  PROVE  Arrives
<1>1. /\ label = "done" /\ Len(activations) = 1 /\ label' = "idle"
      /\ reported' = Reported /\ UNCHANGED requested /\ asked' = requested'
  BY WaitingVm DEF BackInWrapper, Between
<1>2. UNCHANGED <<status, returned, result, fault>>
  BY WaitingVm
<1>3. CASE ok
  <2>1. Produced(produced)
    BY <1>1, <1>3 DEF Between, Returned
  <2>2. status = "idle" /\ returned = TRUE /\ reported'.returned = TRUE
        /\ reported'.result = result
    BY <1>1, <1>3, <2>1 DEF Produced, Reported
  <2>. QED
    BY <1>1, <1>2, <2>2 DEF Arrives, Together
<1>4. CASE ~ok
  <2>1. Failed(raised)
    BY <1>1, <1>4 DEF Between
  <2>2. /\ status = "idle" /\ returned = FALSE /\ reported'.returned = ok
        /\ reported'.result = result /\ reported'.fault = fault
    BY <1>1, <1>4, <2>1 DEF Failed, Reported
  <2>3. ok = FALSE
    BY <1>4 DEF NestInv
  <2>. QED
    BY <1>1, <1>2, <2>2, <2>3 DEF Arrives, Together
<1>. QED
  BY <1>3, <1>4

LEMMA SettleAhead ==
  ASSUME NestInv, LockInv, Settle
  PROVE  LockInv'
<1>1. turn = "convention" /\ Convention /\ CGoesOn /\ UNCHANGED <<deviceVars, answer>>
  BY DEF Settle
<1>2. status' = status
  BY <1>1, WaitingVm
<1>3. CASE status = "stray"
  BY <1>2, <1>3 DEF LockInv
<1>4. CASE status # "stray"
  <2>1. Between
    BY <1>1, <1>4 DEF LockInv
  <2>2. Arrives
    BY <1>1, <2>1, PrologueArrives, CallerArrives, WrapperArrives DEF Convention
  <2>3. turn' = IF label' \in {"body", "idle"} THEN "interpreter" ELSE "convention"
    BY <1>1 DEF CGoesOn, Settled
  <2>. QED
    BY <2>2, <2>3 DEF Arrives, LockInv
<1>. QED
  BY <1>3, <1>4
-----------------------------------------------------------------------------
(* Nothing is left to the C before the host's first invocation. *)
LEMMA InFlight ==
  ASSUME LockInv, status \notin {"idle", "running", "stray"}
  PROVE  turn = "interpreter" /\ Together
<1>1. \A m, f : ~RunsWith(activations, m, f)
  BY DEF RunsWith
<1>2. (\A kind : ~Failed(kind)) /\ (\A p : ~Produced(p))
  BY DEF Failed, Produced
<1>3. \A p : ~Returned(p)
  BY <1>1, <1>2 DEF Returned
<1>4. ~Between
  BY <1>1, <1>2, <1>3 DEF Between
<1>5. \A given : ~Ahead(given)
  <2>1. ~Entering /\ \A given : ~Executed(given)
    BY <1>1, <1>2 DEF Entering, Executed
  <2>. QED
    BY <1>3, <2>1 DEF Ahead, Return
<1>. QED
  BY <1>4, <1>5 DEF LockInv

LEMMA LockSame ==
  ASSUME LockInv, UNCHANGED backendsVars
  PROVE  LockInv'
<1>1. /\ UNCHANGED <<deviceVars, cVars, verifyVars, turn, answer, reported, activations, label>>
      /\ UNCHANGED <<produced, raised, ok, requested, recursion>>
  BY DEF backendsVars, deviceVars, cVars
<1>2. /\ UNCHANGED <<Innermost, Lowered, Index, Called, Following, Decremented, Asks, Copied>>
      /\ UNCHANGED <<Component0, status, asked, returned, result, fault, container>>
      /\ \A n : Below(n)' = Below(n)
  <2>1. PICK given : given = answer
    OBVIOUS
  <2>. QED
    BY <1>1, Unmoved, UnmovedPlace, WaitingVm
<1>3. \A k : Spent(k)' <=> Spent(k)
  BY <1>1, <1>2 DEF Spent, Capped, CounterCap
<1>4. \A m, f : RunsWith(activations, m, f) => RunsWith(activations, m, f)'
  BY <1>1, RunsSame
<1>5. \A kind : Failed(kind) => Failed(kind)'
  BY <1>1, EndsSame
<1>6. \A p : Returned(p) => Returned(p)'
  BY <1>1, ReturnedSame
<1>7. PICK top, m, all : top = Innermost /\ m = Len(activations) - 1 /\ all = Len(activations)
  OBVIOUS
<1>8. RunsWith(activations, Len(activations) - 1, Innermost) =>
        RunsWith(activations, Len(activations) - 1, Innermost)'
  <2>. SUFFICES ASSUME RunsWith(activations, m, top)
                PROVE  RunsWith(activations, Len(activations) - 1, Innermost)'
    BY <1>7
  <2>1. RunsWith(activations, m, top)'
    BY <1>4
  <2>. QED
    BY <1>1, <1>2, <1>7, <2>1 DEF RunsWith
<1>9. CASE status = "stray"
  BY <1>2, <1>9 DEF LockInv
<1>10. CASE status # "stray" /\ turn = "interpreter"
  <2>1. Together
    BY <1>10 DEF LockInv
  <2>2. Together'
    BY <1>1, <1>2, <1>8, <2>1 DEF Together
  <2>. QED
    BY <1>1, <1>10, <2>2 DEF LockInv
<1>11. CASE status # "stray" /\ turn = "convention"
  <2>1. Between
    BY <1>11 DEF LockInv
  <2>2. PICK k, p, kind : k = Component0 /\ p = produced /\ kind = raised
    OBVIOUS
  <2>3. /\ Spent(Component0)' <=> Spent(Component0)
        /\ Returned(produced) => Returned(produced)'
        /\ Failed(raised) => Failed(raised)'
        /\ Failed("recursion_limit") => Failed("recursion_limit")'
    <3>1. Spent(k)' <=> Spent(Component0)'
      BY <1>2, <2>2 DEF Spent
    <3>2. Returned(p)' <=> Returned(produced)'
      BY <1>1, <2>2 DEF Returned, Produced, Resumed
    <3>3. Failed(kind)' <=> Failed(raised)'
      BY <1>1, <2>2 DEF Failed
    <3>. QED
      BY <1>3, <1>5, <1>6, <2>2, <3>1, <3>2, <3>3
  <2>4. Between'
    BY <1>1, <1>2, <1>8, <2>1, <2>3 DEF Between
  <2>. QED
    BY <1>1, <1>11, <2>4 DEF LockInv
<1>12. CASE status # "stray" /\ turn = "c"
  <2>1. PICK given : given = answer /\ Ahead(given) /\ label = "body"
    BY <1>12 DEF LockInv
  <2>2. Faults(given)' = Faults(given) /\ Changes(given)' = Changes(given)
    BY <1>1, Unmoved
  <2>3. Entering => Entering'
    <3>1. PICK k, e : k = Called.component /\ e = Declared(Index, Copied)
      OBVIOUS
    <3>2. Spent(Called.component)' <=> Spent(Called.component)
      <4>1. Spent(k)' <=> Spent(Called.component)'
        BY <1>2, <3>1 DEF Spent
      <4>. QED
        BY <1>3, <3>1, <4>1
    <3>3. e = (Declared(Index, Copied))'
      BY <1>2, <3>1 DEF Declared
    <3>4. ASSUME RunsWith(activations, Len(activations), e)
          PROVE  RunsWith(activations, Len(activations), e)'
      <4>1. RunsWith(activations, all, e)'
        BY <1>4, <1>7, <3>4
      <4>. QED
        BY <1>1, <1>7, <4>1 DEF RunsWith
    <3>. QED
      BY <1>5, <3>1, <3>2, <3>3, <3>4 DEF Entering
  <2>4. Executed(given) => Executed(given)'
    <3>1. PICK kind, e : kind = Faults(given) /\ e = [Changes(given) EXCEPT !.pc = Following]
      OBVIOUS
    <3>2. Failed(Faults(given)) => Failed(Faults(given))'
      <4>1. Failed(kind)' <=> Failed(Faults(given))'
        BY <2>2, <3>1 DEF Failed
      <4>. QED
        BY <1>5, <3>1, <4>1
    <3>3. e = ([Changes(given) EXCEPT !.pc = Following])'
      BY <1>2, <2>2, <3>1
    <3>4. ASSUME RunsWith(activations, Len(activations) - 1, e)
          PROVE  RunsWith(activations, Len(activations) - 1, e)'
      <4>1. RunsWith(activations, m, e)'
        BY <1>4, <1>7, <3>4
      <4>. QED
        BY <1>1, <1>7, <4>1 DEF RunsWith
    <3>5. Faults(given) # "no_fault" => Failed(Faults(given))' \/ ~Executed(given)
      BY <3>2 DEF Executed
    <3>6. Faults(given) = "no_fault" /\ Executed(given) =>
            (\E f : /\ f = [Changes(given) EXCEPT !.pc = Following]
                    /\ RunsWith(activations, Len(activations) - 1, f))'
      BY <3>1, <3>3, <3>4 DEF Executed
    <3>. QED
      BY <2>2, <3>5, <3>6 DEF Executed
  <2>5. /\ (\E p : p = Below(1) /\ Returned(p)) => (\E p : p = Below(1) /\ Returned(p))'
        /\ (\E p : p = produced /\ Returned(p)) => (\E p : p = produced /\ Returned(p))'
    BY <1>1, <1>2, <1>6
  <2>6. Ahead(given)'
    BY <1>1, <1>2, <2>1, <2>3, <2>4, <2>5 DEF Ahead
  <2>. QED
    BY <1>1, <1>12, <2>1, <2>6 DEF LockInv
<1>. QED
  BY <1>9, <1>10, <1>11, <1>12 DEF LockInv

LEMMA PrepareAhead ==
  ASSUME BoundInv, LockInv, Prepare
  PROVE  LockInv'
<1>1. UNCHANGED <<cVars, turn, answer>>
  BY DEF Prepare
<1>2. UNCHANGED <<label, requested, reported>>
  BY <1>1 DEF cVars
<1>3. /\ status = "unloaded" /\ status' \in {"unloaded", "idle", "refused"}
      /\ UNCHANGED <<returned, fault, result, asked>>
  <2>1. CASE Verifying
    <3>1. status = "unloaded"
      BY <2>1, VerifyingPending DEF BoundInv, DeviceInv, Verifying
    <3>. QED
      BY <2>1, <3>1 DEF Verifying, vmVars, report
  <2>2. CASE Load
    BY <2>2 DEF Load, report
  <2>. QED
    BY <2>1, <2>2 DEF Prepare
<1>4. turn = "interpreter" /\ Together
  BY <1>3, InFlight
<1>5. Together'
  BY <1>2, <1>3, <1>4 DEF Together
<1>. QED
  BY <1>1, <1>4, <1>5 DEF LockInv
-----------------------------------------------------------------------------
(* The lockstep as an invariant. *)
LEMMA LockInit == BackendsInit => LockInv
<1>. SUFFICES ASSUME BackendsInit PROVE LockInv
  OBVIOUS
<1>1. /\ turn = "interpreter" /\ status = "unloaded" /\ returned = TRUE /\ result = <<>>
      /\ asked = <<>>
  BY DEF BackendsInit, DeviceInit, VmInit
<1>2. label = "idle" /\ requested = <<>> /\ reported.returned = TRUE /\ reported.result = <<>>
  BY DEF BackendsInit, CInit
<1>. QED
  BY <1>1, <1>2 DEF LockInv, Together

(* What the two lowerings share: the device runs as it does alone. *)
LEMMA DeviceSteps == ASSUME BoundInv, [BackendsNext]_backendsVars PROVE [DeviceNext]_deviceVars
<1>1. CASE Prepare
  BY <1>1 DEF Prepare, DeviceNext, Running, VmNext, Verifying
<1>2. CASE InvokeBoth
  <2>1. verdict = "accepted" /\ (\E entry \in Functions(container) : Invoke(entry))
    BY <1>2 DEF InvokeBoth
  <2>. QED
    BY <1>2, <2>1 DEF InvokeBoth, DeviceNext, Running, VmNext
<1>3. CASE Interpret
  <2>1. Step /\ UNCHANGED verifyVars
    BY <1>3 DEF Interpret
  <2>2. verdict = "accepted"
    BY <2>1, StepRuns, RunningFrame DEF BoundInv
  <2>. QED
    BY <2>1, <2>2 DEF DeviceNext, Running, VmNext
<1>4. CASE Execute \/ Settle \/ UNCHANGED backendsVars
  BY <1>4 DEF Execute, Settle, backendsVars
<1>. QED
  BY <1>1, <1>2, <1>3, <1>4 DEF BackendsNext

BackendsInv == BoundInv /\ ValuesInv /\ NestInv /\ CountedInv /\ LockInv

(* Where the two lowerings are not bound to agree: a container that does not
   declare every group its conversions are compiled under, and the decrement of
   a loop counter that overflows, which is undefined in the C of both. *)
Determined == (status = "running" => GroupsDeclared) /\ GuardsDefined

LEMMA BackendsStep ==
  ASSUME BackendsInv, Determined, [BackendsNext]_backendsVars
  PROVE  BackendsInv'
<1>1. [DeviceNext]_deviceVars
  BY DeviceSteps DEF BackendsInv
<1>2. BoundInv' /\ ValuesInv'
  BY <1>1, BoundNext, ValuesNext DEF BackendsInv, BoundInv
<1>3. NestInv' /\ CountedInv'
  BY BackendsContainer, BackendsNest DEF BackendsInv
<1>4. LockInv'
  <2>1. CASE Prepare
    BY <2>1, PrepareAhead DEF BackendsInv
  <2>2. CASE InvokeBoth
    BY <2>2, InvokeBothAhead DEF BackendsInv
  <2>3. CASE Interpret
    <3>1. status = "running"
      BY <2>3, StepRuns DEF Interpret
    <3>. QED
      BY <2>3, <3>1, InterpretAhead DEF BackendsInv, Determined
  <2>4. CASE Execute
    BY <2>4, ExecuteAhead DEF BackendsInv
  <2>5. CASE Settle
    BY <2>5, SettleAhead DEF BackendsInv
  <2>6. CASE UNCHANGED backendsVars
    BY <2>6, LockSame DEF BackendsInv
  <2>. QED
    BY <2>1, <2>2, <2>3, <2>4, <2>5, <2>6 DEF BackendsNext
<1>. QED
  BY <1>2, <1>3, <1>4 DEF BackendsInv
-----------------------------------------------------------------------------
(* The invariant says that the two agree. *)

(* The frame of function i from slot start on, `deep` operands deep, is what the
   variables of a are. *)
SlotsAgree(a, i, start, deep) ==
  /\ \A l \in 0..Len(LocalsOf(i)) - 1 : Same(start + l, a.local[l])
  /\ \A k \in 0..deep - 1 : Same(start + Len(LocalsOf(i)) + k, a.slot[k])

LEMMA MirrorsAgree ==
  ASSUME NEW a, NEW start \in Nat, NEW deep \in Nat, Len(LocalsOf(a.function)) \in Nat,
         Mirrors(values, states, start, start + (Len(LocalsOf(a.function)) + deep), a)
  PROVE  SlotsAgree(a, a.function, start, deep)
<1>. DEFINE own == Len(LocalsOf(a.function))
<1>1. \A x \in start..(start + (own + deep)) - 1 :
         /\ values[x] = Variable(a, x - start).value
         /\ states[x] = Variable(a, x - start).state
  BY DEF Mirrors
<1>2. \A k \in Int : /\ k < own => Variable(a, k) = a.local[k]
                     /\ ~(k < own) => Variable(a, k) = a.slot[k - own]
  BY DEF Variable
<1>3. own \in Nat
  OBVIOUS
<1>. HIDE DEF own
<1>4. ASSUME NEW l \in 0..own - 1 PROVE Same(start + l, a.local[l])
  <2>1. PICK x : x = start + l
    OBVIOUS
  <2>2. x \in start..(start + (own + deep)) - 1 /\ x - start = l /\ l \in Int /\ l < own
    BY <1>3, <2>1
  <2>. QED
    BY <1>1, <1>2, <2>1, <2>2 DEF Same
<1>5. ASSUME NEW k \in 0..deep - 1 PROVE Same(start + own + k, a.slot[k])
  <2>1. PICK x, d : x = start + own + k /\ d = own + k
    OBVIOUS
  <2>2. /\ x \in start..(start + (own + deep)) - 1 /\ x - start = d
        /\ d \in Int /\ ~(d < own) /\ d - own = k
    BY <1>3, <2>1
  <2>. QED
    BY <1>1, <1>2, <2>1, <2>2 DEF Same
<1>. QED
  BY <1>4, <1>5 DEF SlotsAgree, own

LEMMA CallerAgrees ==
  ASSUME DeviceInv, status = "running", verdict = "accepted", NEW f \in Caller,
         NEW callee \in Functions(container), NEW start, Waits(f, callee, start),
         NEW a, a.function = f.function, Mirrors(values, states, f.base, start, a)
  PROVE  SlotsAgree(a, f.function, f.base,
                    Len(shapes[f.function][f.return_pc - 2]) - Fn(container, callee).param_count)
<1>. DEFINE p      == f.return_pc - 2
            stack  == shapes[f.function][p]
            own    == Len(LocalsOf(f.function))
            params == Fn(container, callee).param_count
<1>1. /\ p \in DOMAIN shapes[f.function] /\ f.function \in Functions(container)
      /\ f.base \in Nat /\ NameAt(container, p) = "call" /\ OperandAt(container, p) = callee
      /\ start = f.base + (own + Len(stack)) - params
  BY DEF Waits, Caller, FrameSize, LocalsOf
<1>2. Takes(container, f.function, p, stack) = ParamTypes(Fn(container, callee))
  BY <1>1 DEF Takes, Predicate
<1>3. own \in Nat /\ Len(stack) \in Nat /\ params \in 0..Len(stack)
  BY <1>1, <1>2, TypedInstruction, FunctionLocals DEF DeviceInv, LocalsOf
<1>. DEFINE deep == Len(stack) - params
<1>4. deep \in Nat /\ start = f.base + (own + deep)
  <2>. HIDE DEF own, stack, params
  <2>. QED
    BY <1>1, <1>3
<1>5. own = Len(LocalsOf(a.function))
  OBVIOUS
<1>. HIDE DEF deep
<1>6. SlotsAgree(a, a.function, f.base, deep)
  BY <1>1, <1>3, <1>4, <1>5, MirrorsAgree
<1>. QED
  BY <1>6 DEF deep

LEMMA StatesAgree == ASSUME BackendsInv PROVE SameState
<1>. SUFFICES ASSUME InStep, status = "running" PROVE SameState
  BY DEF SameState
<1>1. BoundInv /\ DeviceInv /\ ValuesInv /\ NestInv /\ verdict = "accepted"
  BY DEF BackendsInv, BoundInv, InStep
<1>2. Together
  BY DEF BackendsInv, LockInv, InStep
<1>. DEFINE N == Len(frames)
<1>3. /\ Innermost = activations[Len(activations)] /\ Len(activations) = N + 1 /\ N \in Nat
      /\ label = "body" /\ current \in Functions(container) /\ pc \in DOMAIN shapes[current]
      /\ Depth = Len(shapes[current][pc]) /\ Depth \in Nat /\ OwnLocals \in Nat /\ base \in Nat
      /\ sp = base + OwnLocals + Depth
      /\ Innermost.function = current /\ Innermost.pc = pc
  BY <1>1, <1>2, SamePlace
<1>4. /\ \A n \in 1..N : CallerSame(activations[n], n)
      /\ TopSame(Innermost)
  BY <1>2, <1>3 DEF Together, RunsWith
<1>5. CallersShape /\ frames \in Seq(Caller)
  BY <1>1 DEF DeviceInv, CallersShape
<1>6. /\ DOMAIN Live = 1..N + 1 /\ Len(Live) = N + 1
      /\ Live[N + 1].fn = current /\ Live[N + 1].base = base /\ Live[N + 1].pc = pc
      /\ \A n \in 1..N : /\ frames[n] \in Caller
                         /\ Live[n].fn = frames[n].function /\ Live[n].base = frames[n].base
                         /\ Live[n].pc = frames[n].return_pc - 2
  <2>1. /\ DOMAIN Live = 1..N + 1 /\ Len(Live) = N + 1
        /\ Live[N + 1] = [fn |-> current, base |-> base, pc |-> pc]
        /\ \A n \in 1..N : Live[n] = [fn |-> frames[n].function, base |-> frames[n].base,
                                      pc |-> frames[n].return_pc - 2]
    BY <1>5, LiveFrames
  <2>2. ASSUME NEW n \in 1..N
        PROVE  /\ frames[n] \in Caller
               /\ Live[n].fn = frames[n].function /\ Live[n].base = frames[n].base
               /\ Live[n].pc = frames[n].return_pc - 2
    <3>1. Live[n] = [fn |-> frames[n].function, base |-> frames[n].base,
                     pc |-> frames[n].return_pc - 2]
      BY <2>1
    <3>2. frames[n] \in Caller
      BY <1>5
    <3>. QED
      BY <3>1, <3>2
  <2>. QED
    BY <2>1, <2>2
<1>. HIDE DEF N
<1>7. /\ activations[N + 1].function = current /\ activations[N + 1].pc = pc
      /\ SlotsAgree(activations[N + 1], current, base, Len(shapes[current][pc]))
  <2>1. activations[N + 1] = Innermost
    BY <1>3
  <2>2. Mirrors(values, states, base, base + (Len(LocalsOf(Innermost.function)) + Depth), Innermost)
    <3>1. Len(LocalsOf(Innermost.function)) = OwnLocals
      BY <1>3 DEF OwnLocals
    <3>2. sp = base + (OwnLocals + Depth)
      <4>1. PICK o, d, b : o = OwnLocals /\ d = Depth /\ b = base
        OBVIOUS
      <4>2. sp = b + o + d /\ b \in Nat /\ o \in Nat /\ d \in Nat
        BY <1>3, <4>1
      <4>3. b + o + d = b + (o + d)
        BY <4>2
      <4>. QED
        BY <4>1, <4>2, <4>3
    <3>. QED
      BY <1>4, <3>1, <3>2 DEF TopSame
  <2>3. Len(LocalsOf(Innermost.function)) \in Nat
    BY <1>3 DEF OwnLocals
  <2>4. SlotsAgree(Innermost, Innermost.function, base, Depth)
    BY <1>3, <2>2, <2>3, MirrorsAgree
  <2>. QED
    BY <1>3, <2>1, <2>4
<1>8. ASSUME NEW n \in 1..N
      PROVE  /\ activations[n].function = frames[n].function
             /\ activations[n].pc = frames[n].return_pc - 2
             /\ SlotsAgree(activations[n], frames[n].function, frames[n].base,
                  Len(shapes[frames[n].function][frames[n].return_pc - 2])
                    - Fn(container, Live[n + 1].fn).param_count)
  <2>1. CallerSame(activations[n], n)
    BY <1>4
  <2>2. frames[n] \in Caller
    BY <1>6
  <2>3. /\ Waits(frames[n], Live[n + 1].fn, Above(n))
        /\ Live[n + 1].fn \in Functions(container)
    <3>1. CASE n = N
      BY <1>3, <1>5, <1>6, <3>1, EmptySeq DEF CallersShape, Above, N
    <3>2. CASE n # N
      <4>1. n \in 1..N - 1 /\ n + 1 \in 1..N
        BY <1>3, <3>2
      <4>2. PICK m \in 1..N : m = n + 1
        BY <4>1
      <4>3. Live[m].fn = frames[m].function /\ frames[m] \in Caller
        BY <1>6, <4>2
      <4>4. frames[m].function \in Functions(container)
        BY <4>3 DEF Caller
      <4>5. Waits(frames[n], frames[m].function, frames[m].base)
        BY <1>5, <4>1, <4>2 DEF CallersShape, N
      <4>6. Above(n) = frames[m].base
        BY <3>2, <4>2 DEF Above, N
      <4>. QED
        BY <4>2, <4>3, <4>4, <4>5, <4>6
    <3>. QED
      BY <3>1, <3>2
  <2>4. /\ activations[n].function = frames[n].function
        /\ activations[n].pc = frames[n].return_pc - 2
        /\ Mirrors(values, states, frames[n].base, Above(n), activations[n])
    BY <2>1 DEF CallerSame
  <2>. QED
    BY <1>1, <2>2, <2>3, <2>4, CallerAgrees
<1>9. ASSUME NEW n \in DOMAIN Live, NEW given,
             given = IF n = Len(Live) THEN 0 ELSE Fn(container, Live[n + 1].fn).param_count
      PROVE  /\ activations[n].function = Live[n].fn /\ activations[n].pc = Live[n].pc
             /\ SlotsAgree(activations[n], Live[n].fn, Live[n].base,
                           Len(shapes[Live[n].fn][Live[n].pc]) - given)
  <2>1. CASE n = N + 1
    <3>1. Len(shapes[current][pc]) - 0 = Len(shapes[current][pc])
      BY <1>3
    <3>2. given = 0
      BY <1>6, <1>9, <2>1
    <3>3. Live[n].fn = current /\ Live[n].base = base /\ Live[n].pc = pc
      BY <1>6, <2>1
    <3>. QED
      BY <1>7, <2>1, <3>1, <3>2, <3>3
  <2>2. CASE n # N + 1
    <3>1. n \in 1..N /\ n # Len(Live)
      BY <1>3, <1>6, <1>9, <2>2
    <3>2. given = Fn(container, Live[n + 1].fn).param_count
      BY <1>9, <3>1
    <3>3. /\ Live[n].fn = frames[n].function /\ Live[n].base = frames[n].base
          /\ Live[n].pc = frames[n].return_pc - 2
      BY <1>6, <3>1
    <3>. QED
      BY <1>8, <3>1, <3>2, <3>3
  <2>. QED
    BY <2>1, <2>2
<1>10. ASSUME NEW n \in DOMAIN Live
       PROVE  LET given == IF n = Len(Live) THEN 0
                           ELSE Fn(container, Live[n + 1].fn).param_count
              IN  /\ activations[n].function = Live[n].fn /\ activations[n].pc = Live[n].pc
                  /\ SlotsAgree(activations[n], Live[n].fn, Live[n].base,
                                Len(shapes[Live[n].fn][Live[n].pc]) - given)
  BY <1>9
<1>. QED
  BY <1>3, <1>6, <1>10 DEF SameState, SlotsAgree, LocalsOf

LEMMA OutcomesAgree == ASSUME BackendsInv PROVE SameOutcome /\ SameRequests
<1>1. InStep => Together
  BY DEF BackendsInv, LockInv, InStep
<1>. QED
  BY <1>1 DEF Together, SameOutcome, SameRequests

LEMMA BackendsInvariant == BackendsSpec /\ []Determined => []BackendsInv
<1>1. BackendsInit => BackendsInv
  <2>1. BackendsInit => BoundInv /\ ValuesInv
    BY BoundInit, ValuesInit DEF BackendsInit
  <2>2. BackendsInit => NestInv /\ CountedInv
    BY CountedInit
  <2>. QED
    BY <2>1, <2>2, LockInit DEF BackendsInv
<1>2. BackendsInv /\ Determined /\ [BackendsNext]_backendsVars => BackendsInv'
  BY BackendsStep
<1>. QED
  BY <1>1, <1>2, PTL DEF BackendsSpec

(* "Every program has two lowerings ... and the promise is that they produce
   identical results" (cbackend.py): whatever the container, the build, the
   calls and the host's answers, the interpreter and the C stand at the same
   instruction of the same functions after each instruction, and every local
   and operand has the same value and the same validity in both, in every
   frame.  Determined names the two things the source leaves open: the build of
   a container that does not declare the groups of its conversions, and the
   loop counter that is decremented below the least i32. *)
THEOREM StatesStayTheSame == BackendsSpec /\ []Determined => []SameState
<1>1. BackendsInv => SameState
  BY StatesAgree
<1>. QED
  BY <1>1, BackendsInvariant, PTL

(* The embedder is told the same by mcuscript_invoke and by the generated entry
   point: the invocation succeeds in both or in neither, with the same result
   and, where it fails, with the same fault. *)
THEOREM OutcomesAreTheSame == BackendsSpec /\ []Determined => []SameOutcome
<1>1. BackendsInv => SameOutcome
  BY OutcomesAgree
<1>. QED
  BY <1>1, BackendsInvariant, PTL

(* The host cannot tell the two lowerings apart: each reads, writes and calls
   the same imports in the same order with the same arguments, the value of
   each in its declared type and with its validity. *)
THEOREM RequestsAreTheSame == BackendsSpec /\ []Determined => []SameRequests
<1>1. BackendsInv => SameRequests
  BY OutcomesAgree
<1>. QED
  BY <1>1, BackendsInvariant, PTL
=============================================================================
