------------------------------ MODULE Assembly ------------------------------
(* Instructions to bytes: the encoding the code generator's _Code.emit and
   the assembler share. *)
EXTENDS Isa

(* The operand of two bytes is little-endian, two's complement. *)
Low(n)  == (n + 65536) % 256
High(n) == ((n + 65536) % 65536) \div 256

Opcode == [name \in {Mnemonic(b) : b \in Byte} |-> CHOOSE b \in Byte : Mnemonic(b) = name]

(* An instruction is a name and, where it has one, an operand. *)
Encoded(ins) ==
  <<Opcode[ins[1]]>>
    \o CASE Size(ins[1]) = 1 -> <<>>
         [] Size(ins[1]) = 2 -> <<Low(ins[2])>>
         [] Size(ins[1]) = 3 -> <<Low(ins[2]), High(ins[2])>>

Code(listing) == FlattenSeq([n \in DOMAIN listing |-> Encoded(listing[n])])

(* A branch that names the position of its target in the listing gets the
   distance to it, from the end of the branch. *)
Branched(listing) ==
  LET offset[n \in 1..Len(listing) + 1] ==
        IF n = 1 THEN 0 ELSE offset[n - 1] + Size(listing[n - 1][1])
  IN  [n \in DOMAIN listing |->
         IF listing[n][1] \in Branch
         THEN <<listing[n][1], offset[listing[n][2]] - offset[n + 1]>> ELSE listing[n]]

Reachable(listing) ==
  \A n \in DOMAIN listing : listing[n][1] \in Branch => listing[n][2] \in -32768..32767
=============================================================================
