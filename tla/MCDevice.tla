------------------------------ MODULE MCDevice ------------------------------
(***************************************************************************)
(* Containers for checking Device: every instruction on readings the host  *)
(* chooses, every small call graph, every small loop.  Words are 4 and 8   *)
(* bits wide, and the floats are those of MCFloat.                         *)
(***************************************************************************)
EXTENDS Device, MCPrograms, MCFloat

-----------------------------------------------------------------------------
(* Assembling. *)
Entity(type, readable, writable) ==
  [kind |-> "entity", readable |-> readable, writable |-> writable,
   type |-> type, param_types |-> <<>>]
HostFunction(type, params) ==
  [kind |-> "function", readable |-> FALSE, writable |-> FALSE,
   type |-> type, param_types |-> params]

(* Imports 1 to 4 are entities of the value type with that code. *)
Imports ==
  <<Entity(I32, TRUE, FALSE), Entity(I32, TRUE, TRUE), Entity(I64, TRUE, TRUE),
    Entity(F32, TRUE, TRUE), Entity(BOOL, TRUE, TRUE), Entity(I32, FALSE, TRUE),
    HostFunction(I32, <<I32, BOOL>>), HostFunction(VOID, <<>>)>>

Routine(listing, return, params, locals, stack, depth, cap, component) ==
  <<Code(listing),
    [return_type |-> return, max_stack |-> stack, max_call_depth |-> depth,
     local_types |-> locals, param_count |-> params, invocable |-> params = 0,
     recursion_cap |-> cap, component |-> component]>>

(* Lay the routines out one after the other. *)
Linked(routines, constants, groups) ==
  LET offset(n) == MapThenSumSet(LAMBDA m : Len(routines[m][1]), 1..n - 1)
  IN  [code |-> FlattenSeq([n \in DOMAIN routines |-> routines[n][1]]),
       functions |-> FlattenSeq([n \in DOMAIN routines |->
                       <<[name |-> n, code_offset |-> offset(n)] @@ routines[n][2]>>]),
       imports |-> Imports, constants |-> constants, groups |-> groups]

PoolEntries == <<[type |-> I32, value |-> -3], [type |-> I64, value |-> 100],
                 [type |-> F32, value |-> 3]>>

(* One function that keeps one local of each type in front of its stack. *)
Lone(listing, stack) ==
  Linked(<<Routine(listing, VOID, 0, <<I32, BOOL>>, stack, 0, 0, 0)>>,
         PoolEntries, Group)

-----------------------------------------------------------------------------
(* Every instruction with a fixed signature, on what the host reads into its
   operands, its result written back. *)
FixedSignature ==
  {name \in {Mnemonic(b) : b \in Byte} \ {"undefined"} :
     name \notin Polymorphic \cup Branch \cup Pool
                   \cup {"const.i32.s8", "const.i32.s16"}}

Operation(name) ==
  LET pops == Pops(name)
      reads == [n \in DOMAIN pops |-> <<"load.h", pops[n]>>]
  IN  Lone(reads \o <<<<name>>, <<"store.h", Pushes(name)[1]>>, <<"ret">>>>,
           Max({Len(pops), 1}))

Operations == {Operation(name) : name \in FixedSignature}

(* The instructions the table gives no fixed signature, some of them misused. *)
Others ==
  {Lone(<<<<"const.i32", 0>>, <<"store.l", 0>>, <<"const.i64", 1>>, <<"drop">>,
          <<"const.f32", 2>>, <<"store.h", 3>>, <<"load.l", 0>>, <<"store.h", 5>>,
          <<"ret">>>>, 1),
   Lone(<<<<"const.i32.s8", 5>>, <<"dup">>, <<"load.l", 0>>, <<"else">>,
          <<"const.i32.s16", -300>>, <<"rem.i32">>, <<"store.h", 1>>, <<"drop">>,
          <<"ret">>>>, 3),
   Lone(<<<<"load.h", 0>>, <<"const.unavailable", I32>>, <<"else">>,
          <<"const.invalid", I32>>, <<"else">>, <<"is_valid">>, <<"store.h", 4>>,
          <<"load.l", 0>>, <<"is_unavailable">>, <<"load.h", 1>>, <<"is_invalid">>,
          <<"and">>, <<"store.l", 1>>, <<"ret">>>>, 2),
   Lone(<<<<"load.h", 0>>, <<"load.h", 4>>, <<"call.h", 6>>, <<"call.h", 7>>,
          <<"store.h", 5>>, <<"ret">>>>, 2),
   Lone(<<<<"load.h", 4>>, <<"jmp_if_false", 5>>, <<"load.h", 0>>, <<"jmp", 2>>,
          <<"const.i32.s8", 7>>, <<"store.h", 1>>, <<"ret">>>>, 1),
   (* refused: a write to an entity that is only read, a read of one that is
      only written, a bool where an i32 goes, a local that is not there *)
   Lone(<<<<"load.h", 0>>, <<"store.h", 0>>, <<"ret">>>>, 1),
   Lone(<<<<"load.h", 5>>, <<"drop">>, <<"ret">>>>, 1),
   Lone(<<<<"load.h", 4>>, <<"store.h", 1>>, <<"ret">>>>, 1),
   Lone(<<<<"load.l", 2>>, <<"drop">>, <<"ret">>>>, 1),
   Lone(<<<<"call.h", 0>>, <<"ret">>>>, 0)}

(* An entry point that returns a value, and a loop whose counter starts from a
   reading, so a counter the verifier never saw a value for is met too. *)
Counted ==
  {Linked(<<Routine(<<<<"load.h", 0>>, <<"store.l", 0>>, <<"loop.guard", 0>>,
                      <<"load.h", 4>>, <<"jmp_if_false", -7>>, <<"load.l", 0>>,
                      <<"ret_v">>>>, I32, 0, <<I32>>, 1, 0, 0, 0)>>,
          <<>>, Group)}

-----------------------------------------------------------------------------
(* Call graphs: an entry point with up to two calls and two functions with
   one, each call made when a reading says so.  The functions take an i32
   and return one; the entry point keeps an operand below its calls. *)
CallUnit(to) ==
  <<<<"load.h", 4>>, <<"jmp_if_false", IF to = 0 THEN 2 ELSE 5>>>>
    \o IF to = 0 THEN <<<<"call", 0>>>>
       ELSE <<<<"const.i32.s8", to>>, <<"call", to>>, <<"drop">>>>

CallUnits(targets) ==
  FlattenSeq([n \in DOMAIN targets |-> IF targets[n] = 3 THEN <<>> ELSE CallUnit(targets[n])])

(* Component and depth are declared as the code generator would, the caps
   are anything. *)
Graph(main, f, g, caps) ==
  LET calls == (0 :> {main[1], main[2]} \ {3} @@ 1 :> {f} \ {3} @@ 2 :> {g} \ {3})
      component(i) == Min(Component(calls, i))
      depth == WorstCase(calls, [i \in 0..2 |-> IF caps[i + 1] # 0 THEN caps[i + 1] ELSE 1])
      body(n, listing) == IF n = 0 THEN <<<<"const.true">>>> \o listing \o <<<<"drop">>, <<"ret">>>>
                          ELSE listing \o <<<<"load.l", 0>>, <<"ret_v">>>>
      routine(n, targets, return, params, locals, stack) ==
        Routine(body(n, CallUnits(targets)), return, params, locals, stack,
                depth[n] - 1, caps[n + 1], component(n))
  IN  Linked(<<routine(0, main, VOID, 0, <<I32>>, IF main = <<3, 3>> THEN 1 ELSE 2),
               routine(1, <<f>>, I32, 1, <<I32, BOOL>>, 1),
               routine(2, <<g>>, I32, 1, <<I32>>, 1)>>, <<>>, {"core", "call"})

CallGraphs ==
  {Graph(<<1, other>>, f, g, caps) :
     other \in {0, 2, 3}, f \in 0..3, g \in 0..3, caps \in [1..3 -> {0, 2}]}

SomeReadings == {-8, -1, 0, 3}

LoopPrograms == Counted \cup Loops(4)

(* A container that needs more frames than a small device has. *)
TooDeep == {Graph(<<1, 3>>, 2, 2, <<0, 0, 2>>)}

(* For a build with few groups, slots and frames: every way three units push,
   pop and branch, every call graph, the instructions in containers that
   declare only the group of each, and entry points with just as many locals as
   there are slots, and one more. *)
Demanding ==
  Stacks(3)
  \cup CallGraphs
  \cup {[Operation(name) EXCEPT !.groups = {"core", GroupOf(Opcode[name])}] :
     name \in FixedSignature}
  \cup {Linked(<<Routine(<<<<"ret">>>>, VOID, 0, [l \in 1..count |-> I32], 0, 0, 0, 0)>>,
                <<>>, {"core"}) : count \in {MaxSlots, MaxSlots + 1}}

(* A const.i64 that names an entry the pool does not have. *)
NoSuchConstant ==
  {Lone(<<<<"const.i64", 3>>, <<"drop">>, <<"ret">>>>, 1)}
=============================================================================
