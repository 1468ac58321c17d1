----------------------------- MODULE MCPrograms -----------------------------
(***************************************************************************)
(* Families of small containers for model checking.  A program is a        *)
(* sequence of units; a unit is a few instructions, and a jump in it names *)
(* the unit it goes to, so a family ranges over every way of connecting    *)
(* its units.                                                              *)
(***************************************************************************)
EXTENDS Assembly, SequencesExt, FiniteSetsExt

Unit(kind, to) == [kind |-> kind, to |-> to]

(* The bytes of a unit before its jump, and whether it ends in one. *)
Plain(kind) ==
  CASE kind = "g0"   -> <<160, 0>>          \* loop.guard 0
    [] kind = "g1"   -> <<160, 1>>          \* loop.guard 1
    [] kind = "s0"   -> <<1, 2, 7, 0>>      \* const.i32.s8 2; store.l 0
    [] kind = "s1"   -> <<1, 2, 7, 1>>      \* const.i32.s8 2; store.l 1
    [] kind = "push" -> <<4>>               \* const.true
    [] kind = "pop"  -> <<11>>              \* drop
    [] kind = "not"  -> <<30>>              \* not
    [] kind = "hide" -> <<2, 35, 35>>       \* const.i32.s16, operand "ret; ret"
    [] kind = "ret"  -> <<35>>              \* ret
    [] kind = "jf"   -> <<8, 0, 33>>        \* load.h 0; jmp_if_false
    [] kind = "jt"   -> <<34>>              \* jmp_if_true
    [] kind = "j"    -> <<32>>              \* jmp

Jumps == {"jf", "jt", "j"}

UnitSize(u) == Len(Plain(u.kind)) + (IF u.kind \in Jumps THEN 2 ELSE 0)

Position(units, k) ==
  MapThenSumSet(LAMBDA n : UnitSize(units[n]), 1..k - 1)

(* A jump to the unit at position to, or with skew into the middle of it. *)
UnitBytes(units, k, skew) ==
  LET u == units[k]
      delta == Position(units, u.to) + skew - Position(units, k + 1)
  IN  Plain(u.kind) \o (IF u.kind \in Jumps THEN <<Low(delta), High(delta)>> ELSE <<>>)

Assemble(units, skew) ==
  FlattenSeq([k \in DOMAIN units |-> UnitBytes(units, k, skew)])

BoolReading == [kind |-> "entity", readable |-> TRUE, writable |-> FALSE,
                type |-> 4, param_types |-> <<>>]

EntryPoint(offset, locals, stack) ==
  [name |-> 0, code_offset |-> offset, return_type |-> 0, max_stack |-> stack,
   max_call_depth |-> 0, local_types |-> locals, param_count |-> 0,
   invocable |-> TRUE, recursion_cap |-> 0, component |-> 0]

Single(code, locals, stack) ==
  [code |-> code, functions |-> <<EntryPoint(0, locals, stack)>>,
   imports |-> <<BoolReading>>, constants |-> <<>>,
   groups |-> {"core", "loop"}]

-----------------------------------------------------------------------------
UnitsOf(kinds, n) ==
  UNION {IF k \in Jumps THEN {Unit(k, t) : t \in 1..n} ELSE {Unit(k, 1)} : k \in kinds}

(* A counter is set, then n units connected in every way, then a return: the
   loops over two counters that jump back at least once, without jumps to the
   next unit and without a second counter that is set and never guarded. *)
Loops(n) ==
  LET kinds == {"g0", "g1", "s0", "s1", "jf", "j"}
      body  == [2..n + 1 -> UnitsOf(kinds, n + 2)]
      loops(b) == /\ \E k \in 2..n + 1 : b[k].kind = "g0"
                  /\ \E k \in 2..n + 1 : b[k].kind \in Jumps /\ b[k].to < k
                  /\ \A k \in 2..n + 1 : b[k].kind \in Jumps => b[k].to # k + 1
                  /\ (\E k \in 2..n + 1 : b[k].kind = "s1") =>
                       \E k \in 2..n + 1 : b[k].kind = "g1"
      units(b) == [k \in 1..n + 2 |-> CASE k = 1 -> Unit("s0", 1)
                                         [] k = n + 2 -> Unit("ret", 1)
                                         [] OTHER -> b[k]]
  IN  {Single(Assemble(units(b), 0), <<1, 1>>, 1) : b \in {f \in body : loops(f)}}

(* Every way to connect n units that push, pop and branch, then a return:
   jumps go to the start of a unit, or with skew one byte into it, where an
   operand may read as code. *)
Stacks(n) ==
  LET body == [1..n -> UnitsOf({"push", "pop", "not", "hide", "jf", "jt", "j"}, n + 1)]
  IN  {[Single(Assemble(Append(b, Unit("ret", 1)), skew), <<>>, depth) EXCEPT !.groups = {"core"}] :
         b \in body, skew \in {0, 1}, depth \in {1, 2}}
=============================================================================
