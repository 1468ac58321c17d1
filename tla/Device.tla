------------------------------- MODULE Device -------------------------------
(***************************************************************************)
(* The promise the two halves make together: the verifier checks a         *)
(* container once, where the tools are, and the device then loads and runs *)
(* it without checking anything (verify.py, then load.c and vm.c).         *)
(*                                                                         *)
(* A container is verified first; an accepted one is loaded, and its entry *)
(* points are invoked one at a time in any order, one slot buffer serving  *)
(* every invocation.                                                       *)
(***************************************************************************)
EXTENDS Verify, Vm

deviceVars == <<verifyVars, vmVars>>

DeviceInit == VerifyInit /\ VmInit

Verifying == VerifyNext /\ UNCHANGED vmVars

(* Only what was accepted is put on a device. *)
Running == verdict = "accepted" /\ VmNext /\ UNCHANGED verifyVars

DeviceNext == Verifying \/ Running

(* verify() runs until it returns, and so does mcuscript_invoke; whether the
   host ever invokes anything is up to the host. *)
DeviceSpec ==
  /\ DeviceInit
  /\ [][DeviceNext]_deviceVars
  /\ WF_deviceVars(Verifying)
  /\ WF_deviceVars(verdict = "accepted" /\ Step /\ UNCHANGED verifyVars)

-----------------------------------------------------------------------------
(* What the device has to have been built for. *)

Fits ==
  \A i \in Functions(container) :
    Fn(container, i).invocable =>
      /\ SlotsNeeded(container, stacks)[i] <= MaxSlots
      /\ CallDepthNeeded(container)[i] - 1 <= MaxCallDepth

(* Every pool instruction names an entry of its own type. *)
PoolSound ==
  \A i \in Functions(container) : \A p \in DOMAIN shapes[i] :
    LET name == NameAt(container, p)
        k    == OperandAt(container, p)
    IN  name \in Pool =>
          /\ k < Len(container.constants)
          /\ Pushes(name) = <<At(container.constants, k).type>>

(* The container declares every group its instructions are compiled under. *)
GroupsDeclared ==
  \A i \in Functions(container) : \A p \in DOMAIN shapes[i] :
    AlsoNeeds(NameAt(container, p)) \subseteq container.groups

-----------------------------------------------------------------------------
(* Properties. *)

(* The live frames, outermost first: the function, its base, and the pc its
   next instruction is typed at.  A suspended caller is typed at its call. *)
Live ==
  [n \in 1..Len(frames) + 1 |->
     IF n <= Len(frames)
     THEN [fn |-> frames[n].function, base |-> frames[n].base,
           pc |-> frames[n].return_pc - 2]
     ELSE [fn |-> current, base |-> base, pc |-> pc]]

(* A slot holds a value the interpreter may read as that type: what the
   encoders of mcuscript_ops.h write. *)
Canonical(type, value) ==
  value \in CASE type = BOOL         -> {0, 1}
              [] type \in {I32, F32} -> 0..M32 - 1
              [] OTHER               -> 0..M64 - 1

(* The types of what the frame at n holds, as the verifier saw it: the locals
   and the operands.  A caller's arguments belong to the frame above it, which
   may have overwritten them, so the typing is matched without them. *)
TypesOf(n) ==
  LET given == IF n = Len(Live) THEN 0 ELSE Fn(container, Live[n + 1].fn).param_count
  IN  Fn(container, Live[n].fn).local_types \o Rest(shapes[Live[n].fn][Live[n].pc], given)

(* The frame at n has the shape the verifier gave it: the instruction is one
   it typed, a caller's is a call of the frame above, and the frame is as
   large as that typing. *)
FrameInShape(n) ==
  LET live == Live[n]
      top  == n = Len(Live)
  IN  /\ live.pc \in DOMAIN shapes[live.fn]
      /\ ~top => /\ NameAt(container, live.pc) = "call"
                 /\ OperandAt(container, live.pc) = Live[n + 1].fn
      /\ (IF top THEN sp ELSE Live[n + 1].base) = live.base + Len(TypesOf(n))

(* It lies inside the slot buffer and holds values of those types, each
   canonical and written in this invocation. *)
FrameHoldsTypes(n) ==
  LET types == TypesOf(n)
      low   == Live[n].base
  IN  /\ low + Len(types) <= MaxSlots
      /\ \A k \in 1..Len(types) :
           /\ Canonical(types[k], values[low + k - 1])
           /\ states[low + k - 1] \in Validity

(* Control never leaves what the verifier typed, and every frame is as large
   as it said, whatever the values are and whatever the pool holds
   (verify.py's walk against vm.c's dispatch, calls and returns). *)
StaysInShape == status = "running" => \A n \in DOMAIN Live : FrameInShape(n)

(* Every execution stays inside the verifier's typing, in every frame of the
   call stack, across calls, recursion, faults and re-invocation on the
   same buffer.  In particular no stale slot of an earlier invocation is ever
   reachable. *)
RunsAsTyped ==
  status = "running" =>
    \A n \in DOMAIN Live : FrameInShape(n) /\ FrameHoldsTypes(n)

(* An accepted container never touches memory that is not its own, on a
   device large enough for it: vm.c does not check. *)
MemorySafe == status = "stray" => ~Fits \/ ~PoolSound

(* The numbers the verifier computed for the entry point bound what the
   invocation uses, recursion included. *)
WithinDeclared ==
  status = "running" =>
    LET entry == Live[1].fn
    IN  /\ Len(frames) <= Fn(container, entry).max_call_depth
        /\ sp <= SlotsNeeded(container, stacks)[entry]

(* A component's counter is the number of its frames on the call stack, in
   whatever order mutually recursive functions enter and leave it. *)
CountersMatchFrames ==
  status = "running" =>
    \A k \in Functions(container) :
      ComponentCap(k) # 0 =>
        /\ counters[k] = Cardinality({n \in DOMAIN Live :
                            Fn(container, Live[n].fn).component = k})
        /\ counters[k] <= ComponentCap(k)

(* What the host is asked for is what the imports grant: reads of readable
   entities, writes of writable ones, calls of functions with their own
   number of arguments, every value of the declared type. *)
HostAccessHonoured ==
  asked # <<>> =>
    LET imp == At(container.imports, asked[2])
        typed(type, v) == /\ v.validity \in Validity
                          /\ Canonical(type, ValueToSlot(type, v))
                          /\ type = BOOL => v.as \in {0, 1}
    IN  CASE asked[1] = "read"  -> imp.kind = "entity" /\ imp.readable
          [] asked[1] = "write" -> /\ imp.kind = "entity" /\ imp.writable
                                   /\ typed(imp.type, asked[3])
          [] asked[1] = "call"  ->
               /\ imp.kind = "function"
               /\ Len(asked[3]) = Len(imp.param_types)
               /\ \A p \in DOMAIN asked[3] : typed(imp.param_types[p], asked[3][p])

(* mcuscript.h: an invocation returns false when it faulted, with fault
   saying which.  (An entry the container does not have is no invocation.) *)
FalseMeansFault ==
  [][status = "running" /\ status' = "idle" /\ ~returned' =>
       fault' # "no_fault" \/ ~GroupsDeclared]_deviceVars

(* An invocation of an accepted container ends, whatever the host answers:
   every loop is guarded and every recursion capped. *)
InvocationsEnd == (status = "running") ~> (status # "running")

(* mcuscript.h: the loader computes what a container needs and refuses one
   that needs more slots, or deeper calls, than the build has. *)
LoadedFits == status \in {"idle", "running"} => Fits

(* spec/02 2.6: every index of an accepted container is in range. *)
PoolIndicesInRange == verdict = "accepted" => PoolSound

(* spec/03 3.2: a container with a conversion between i64 and f32 declares
   both groups. *)
BothGroupsDeclared == verdict = "accepted" => GroupsDeclared
=============================================================================
