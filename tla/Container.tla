----------------------------- MODULE Container -----------------------------
(***************************************************************************)
(* A decoded container (container.py: Container, Function, Import,         *)
(* Constant).  The verifier walks it and the interpreter runs it, so it is *)
(* the one variable the two share; nothing writes it after it is decoded.  *)
(*                                                                         *)
(*   code       the CODE section, a sequence of bytes                      *)
(*   functions  ENTR records, in table order; a name is a number here      *)
(*   imports    HOST records; the names and hashes are gone once linked    *)
(*   constants  the CNST pool                                              *)
(*   groups     required_groups, as a set                                  *)
(***************************************************************************)
EXTENDS Isa

CONSTANT Containers   (* the containers that may be handed over *)

VARIABLE container

Function ==
  [name: Nat, code_offset: Nat, return_type: ValType, max_stack: Byte,
   max_call_depth: Byte, local_types: Seq(ValueType), param_count: Byte,
   invocable: BOOLEAN, recursion_cap: Byte, component: Byte]

Import ==
  [kind: {"entity", "function"}, readable: BOOLEAN, writable: BOOLEAN,
   type: ValType, param_types: Seq(ValueType)]

Constant == [type: {I32, I64, F32}, value: Int]

DecodedContainer ==
  [code: Seq(Byte), functions: Seq(Function), imports: Seq(Import),
   constants: Seq(Constant), groups: SUBSET Group]

(* What decoding settles before anything else looks: the parameters are a
   prefix of the locals and an entry point takes none; no two functions
   share a name; an entity has a value and no parameters, a function no
   access. *)
Decoded(c) ==
  /\ c \in DecodedContainer
  /\ \A i \in DOMAIN c.functions :
       LET fn == c.functions[i]
       IN  /\ fn.param_count <= Len(fn.local_types)
           /\ fn.invocable => fn.param_count = 0
  /\ \A i, j \in DOMAIN c.functions :
       c.functions[i].name = c.functions[j].name => i = j
  /\ \A k \in DOMAIN c.imports :
       LET imp == c.imports[k]
       IN  IF imp.kind = "entity"
           THEN /\ imp.readable \/ imp.writable
                /\ imp.type # VOID
                /\ imp.param_types = <<>>
           ELSE ~imp.readable /\ ~imp.writable

ASSUME ContainersAssumption == \A c \in Containers : Decoded(c)

-----------------------------------------------------------------------------
Functions(c) == 0..Len(c.functions) - 1

Fn(c, i) == At(c.functions, i)

ParamTypes(fn) == SubSeq(fn.local_types, 1, fn.param_count)

(* Each function owns the half-open range of CODE up to the next record's
   code, the last one up to the end of the section. *)
Start(c, i) == Fn(c, i).code_offset

End(c, i) == IF i = Len(c.functions) - 1 THEN Len(c.code)
             ELSE Fn(c, i + 1).code_offset

Region(c, i) == Start(c, i)..End(c, i) - 1

NameAt(c, pc)    == Mnemonic(At(c.code, pc))
OperandAt(c, pc) == Operand(c.code, pc, NameAt(c, pc))
After(c, pc)     == pc + Size(NameAt(c, pc))
Target(c, pc)    == After(c, pc) + OperandAt(c, pc)
=============================================================================
