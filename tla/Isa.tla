-------------------------------- MODULE Isa --------------------------------
(***************************************************************************)
(* The instruction table: opcodes.py, which the verifier and the code      *)
(* generators read, and runtime/src/opcodes.h, which carries the same      *)
(* numbers for the interpreter.                                            *)
(*                                                                         *)
(* A byte of CODE is a number of 0..255; an instruction is named by its    *)
(* mnemonic.  Offsets into CODE and indices into the tables count from     *)
(* zero, as they do in the container, so they go through At.               *)
(***************************************************************************)
EXTENDS Integers, Sequences, SequencesExt, FiniteSetsExt

At(table, index) == table[index + 1]

Byte == 0..255

-----------------------------------------------------------------------------
(* Type codes.  VOID is a type only of what returns nothing. *)
VOID == 0
I32  == 1
I64  == 2
F32  == 3
BOOL == 4

ValType   == VOID..BOOL
ValueType == I32..BOOL

(* Validity states: an ordinal, and propagation is its maximum. *)
VALID       == 0
UNAVAILABLE == 1
INVALID     == 2

Validity == VALID..INVALID

-----------------------------------------------------------------------------
(* Opcode byte to mnemonic.  Each line is a run of adjacent opcodes. *)
Opcodes == [byte \in Byte |->
  CASE byte \in 1..12 ->
         <<"const.i32.s8", "const.i32.s16", "const.i32", "const.true",
           "const.false", "load.l", "store.l", "load.h", "store.h", "call.h",
           "drop", "dup">>[byte]
    [] byte \in 16..21 -> <<"add.i32", "sub.i32", "mul.i32", "div.i32",
                            "rem.i32", "neg.i32">>[byte - 15]
    [] byte \in 24..30 -> <<"eq.i32", "ne.i32", "lt.i32", "le.i32", "gt.i32",
                            "ge.i32", "not">>[byte - 23]
    [] byte \in 32..36 -> <<"jmp", "jmp_if_false", "jmp_if_true", "ret",
                            "ret_v">>[byte - 31]
    [] byte \in 40..47 -> <<"else", "is_valid", "is_unavailable", "is_invalid",
                            "const.unavailable", "const.invalid", "and",
                            "or">>[byte - 39]
    [] byte \in 64..67 -> <<"const.i64", "add.i64", "sub.i64",
                            "mul.i64">>[byte - 63]
    [] byte = 70       -> "neg.i64"
    [] byte \in 72..77 -> <<"eq.i64", "ne.i64", "lt.i64", "le.i64", "gt.i64",
                            "ge.i64">>[byte - 71]
    [] byte \in 80..81 -> <<"extend.i32_i64", "wrap.i64_i32">>[byte - 79]
    [] byte \in 96..101 -> <<"const.f32", "add.f32", "sub.f32", "mul.f32",
                             "div.f32", "neg.f32">>[byte - 95]
    [] byte \in 104..109 -> <<"eq.f32", "ne.f32", "lt.f32", "le.f32", "gt.f32",
                              "ge.f32">>[byte - 103]
    [] byte \in 112..115 -> <<"convert.i32_f32", "trunc.f32_i32",
                              "convert.i64_f32", "trunc.f32_i64">>[byte - 111]
    [] byte = 128        -> "call"
    [] byte \in 144..149 -> <<"and.i32", "or.i32", "xor.i32", "bitnot.i32",
                              "shl.i32", "shr.i32">>[byte - 143]
    [] byte = 160        -> "loop.guard"
    [] byte \in 176..177 -> <<"div.i64", "rem.i64">>[byte - 175]
    [] OTHER -> "undefined"]

Mnemonic(byte) == Opcodes[byte]

(* The group an opcode byte falls in: a contiguous span of the dispatch
   table per group. *)
GroupOf(byte) ==
  CASE byte \in 1..63    -> "core"
    [] byte \in 64..95   -> "i64"
    [] byte \in 96..127  -> "float"
    [] byte \in 128..143 -> "call"
    [] byte \in 144..159 -> "bits"
    [] byte \in 160..175 -> "loop"
    [] byte \in 176..191 -> "i64div"
    [] OTHER -> "none"

Group == {"core", "i64", "float", "call", "bits", "loop", "i64div"}

(* The second group the conversions between i64 and f32 need. *)
AlsoNeeds(name) ==
  IF name \in {"convert.i64_f32", "trunc.f32_i64"} THEN {"i64"} ELSE {}

-----------------------------------------------------------------------------
(* Families of instructions with one signature. *)
ArithI32   == {"add.i32", "sub.i32", "mul.i32"}
DivRemI32  == {"div.i32", "rem.i32"}
CompareI32 == {"eq.i32", "ne.i32", "lt.i32", "le.i32", "gt.i32", "ge.i32"}
Bitwise32  == {"and.i32", "or.i32", "xor.i32"}
Shift32    == {"shl.i32", "shr.i32"}
UnaryI32   == {"neg.i32", "bitnot.i32"}
ArithI64   == {"add.i64", "sub.i64", "mul.i64"}
DivRemI64  == {"div.i64", "rem.i64"}
CompareI64 == {"eq.i64", "ne.i64", "lt.i64", "le.i64", "gt.i64", "ge.i64"}
ArithF32   == {"add.f32", "sub.f32", "mul.f32", "div.f32"}
CompareF32 == {"eq.f32", "ne.f32", "lt.f32", "le.f32", "gt.f32", "ge.f32"}
Predicate  == {"is_valid", "is_unavailable", "is_invalid"}
Branch     == {"jmp", "jmp_if_false", "jmp_if_true"}
Return     == {"ret", "ret_v"}
ConstState == {"const.unavailable", "const.invalid"}
Pool       == {"const.i32", "const.i64", "const.f32"}

(* Operands: an index or a type code takes one byte, an offset two. *)
Indexed == Pool \cup {"load.l", "store.l", "load.h", "store.h", "call.h",
                      "call", "loop.guard"}

Size(name) ==
  CASE name \in Branch \cup {"const.i32.s16"}                   -> 3
    [] name \in Indexed \cup ConstState \cup {"const.i32.s8"}   -> 2
    [] OTHER                                                    -> 1

Signed8(b)      == IF b >= 128 THEN b - 256 ELSE b
Signed16(lo, hi) == LET u == lo + 256 * hi
                    IN  IF u >= 32768 THEN u - 65536 ELSE u

(* The operand of the instruction at pc, as a number. *)
Operand(code, pc, name) ==
  CASE name = "const.i32.s8" -> Signed8(At(code, pc + 1))
    [] Size(name) = 3 -> Signed16(At(code, pc + 1), At(code, pc + 2))
    [] Size(name) = 2 /\ name # "const.i32.s8" -> At(code, pc + 1)
    [] Size(name) = 1 -> 0

(* The fixed signatures: types popped (deepest first) and types pushed. *)
Pops(name) ==
  CASE name \in ArithI32 \cup DivRemI32 \cup CompareI32 \cup Bitwise32
                  \cup Shift32                       -> <<I32, I32>>
    [] name \in ArithI64 \cup DivRemI64 \cup CompareI64 -> <<I64, I64>>
    [] name \in ArithF32 \cup CompareF32             -> <<F32, F32>>
    [] name \in {"and", "or"}                        -> <<BOOL, BOOL>>
    [] name \in {"not", "jmp_if_false", "jmp_if_true"} -> <<BOOL>>
    [] name \in UnaryI32 \cup {"extend.i32_i64", "convert.i32_f32"} -> <<I32>>
    [] name \in {"neg.i64", "wrap.i64_i32", "convert.i64_f32"}      -> <<I64>>
    [] name \in {"neg.f32", "trunc.f32_i32", "trunc.f32_i64"}       -> <<F32>>
    [] OTHER -> <<>>

Pushes(name) ==
  CASE name \in ArithI32 \cup DivRemI32 \cup Bitwise32 \cup Shift32
                  \cup UnaryI32
                  \cup {"const.i32", "const.i32.s8", "const.i32.s16",
                        "wrap.i64_i32", "trunc.f32_i32"} -> <<I32>>
    [] name \in ArithI64 \cup DivRemI64
                  \cup {"neg.i64", "const.i64", "extend.i32_i64",
                        "trunc.f32_i64"} -> <<I64>>
    [] name \in ArithF32 \cup {"neg.f32", "const.f32", "convert.i32_f32",
                               "convert.i64_f32"} -> <<F32>>
    [] name \in CompareI32 \cup CompareI64 \cup CompareF32
                  \cup {"not", "and", "or", "const.true", "const.false"}
         -> <<BOOL>>
    [] OTHER -> <<>>

(* Instructions whose signature is not fixed by the table. *)
Polymorphic ==
  {"load.l", "store.l", "load.h", "store.h", "call.h", "call", "drop", "dup",
   "else", "loop.guard"} \cup Predicate \cup Return \cup ConstState
=============================================================================
