------------------------------- MODULE Image -------------------------------
(***************************************************************************)
(* A container as bytes, and the two ends of the toolchain that write and  *)
(* read them: Container.encode and Container.decode (container.py).        *)
(*                                                                         *)
(* An image is a header, of which `held` bytes have arrived, and the bytes *)
(* of the sections behind it.  The header's fields are a record and its    *)
(* checksum a truth value: that it covers all the bytes is what the images *)
(* of a damaged transfer are built from.  Section bytes are bytes.         *)
(*                                                                         *)
(* A u32 holds one of Words32 values; a name is the bytes of its text.     *)
(***************************************************************************)
EXTENDS Isa

CONSTANTS
  Words32,      (* number of values of a u32, a multiple of 65536           *)
  NameHash(_)   (* the hash of a name, 0..Words32-1                     *)

Words16 == 65536

ASSUME Words32Assumption ==
  /\ Words32 \in Nat \ {0} /\ Words32 % Words16 = 0
  /\ Words32 \div Words16 <= Words16

HeaderSize    == 28
FormatVersion == 1

(* Section types, in the bytes of their four letters. *)
CODE == <<67, 79, 68, 69>>
CNST == <<67, 78, 83, 84>>
ENTR == <<69, 78, 84, 82>>
HOST == <<72, 79, 83, 84>>
hnam == <<104, 110, 97, 109>>

CriticalSections == {CODE, CNST, ENTR, HOST}

Uppercase(byte) == byte \in 65..90
Printable(byte) == byte \in 32..126

Entity       == 1   (* ImportKind.ENTITY *)
HostFunction == 2   (* ImportKind.FUNCTION *)

(* Access: bit 0 reads, bit 1 writes. *)
Access == 0..3
Reads(access)  == access % 2 = 1
Writes(access) == access \div 2 % 2 = 1

(* Bit 0 of a record's flags: the host may invoke it. *)
Invocable(flags) == flags % 2 = 1

Length(image) == image.held + Len(image.body)

-----------------------------------------------------------------------------
(* Little-endian fields. *)
Bytes16(n) == <<n % 256, n \div 256>>
Bytes32(n) == Bytes16(n % Words16) \o Bytes16(n \div Words16)

U16(data, at) == At(data, at) + 256 * At(data, at + 1)
U32(data, at) == U16(data, at) + Words16 * (U16(data, at + 2) % (Words32 \div Words16))

(* Bytes from..from+length-1 of data. *)
Slice(data, from, length) == SubSeq(data, from + 1, from + length)

Padding(length) == (4 - (length % 4)) % 4

(* Width of a constant's value. *)
PoolType == {I32, I64, F32}
Width(type) == IF type = I64 THEN 8 ELSE 4

-----------------------------------------------------------------------------
(* Encoding. *)
PackSection(type, data) ==
  type \o Bytes32(Len(data)) \o data \o [p \in 1..Padding(Len(data)) |-> 0]

LengthPrefixed(text) == <<Len(text)>> \o text

(* The first so many of some parts, one after the other, and all of them. *)
Joined(parts) ==
  LET joined[k \in 0..Len(parts)] ==
        IF k = 0 THEN <<>> ELSE joined[k - 1] \o parts[k]
  IN  joined

Flattened(parts) == Joined(parts)[Len(parts)]

(* A count byte and the entries. *)
EncodeTable(entries) == <<Len(entries)>> \o Flattened(entries)

EncodeConstants(constants) ==
  EncodeTable([i \in DOMAIN constants |-> <<constants[i].type>> \o constants[i].bytes])

(* The string area: each name once, where it is first met. *)
FirstNamed(names, i) == Min({j \in 1..i : names[j] = names[i]})

StringParts(names) ==
  [i \in DOMAIN names |->
     IF FirstNamed(names, i) = i THEN LengthPrefixed(names[i]) ELSE <<>>]

NameOffsetOfLetters(names, i) ==
  LET letters == [j \in DOMAIN names |-> IF FirstNamed(names, j) = j THEN names[j] ELSE <<>>]
  IN  Len(Joined(letters)[FirstNamed(names, i) - 1])

NameOffset(names, i) == Len(Joined(StringParts(names))[FirstNamed(names, i) - 1])

EncodeFunctions(functions) ==
  LET names == [i \in DOMAIN functions |-> functions[i].name]
      record(i) ==
        LET fn == functions[i]
        IN  Bytes16(NameOffset(names, i)) \o Bytes32(fn.code_offset)
              \o <<IF fn.invocable THEN 1 ELSE 0, fn.return_type, fn.max_stack,
                   fn.max_call_depth, fn.recursion_cap, fn.component,
                   fn.param_count, Len(fn.local_types)>>
              \o fn.local_types
  IN  EncodeTable([i \in DOMAIN functions |-> record(i)])
        \o Flattened(StringParts(names))

EncodeImports(imports) ==
  EncodeTable([i \in DOMAIN imports |->
    LET imp == imports[i]
    IN  Bytes32(NameHash(imp.name))
          \o <<imp.kind, imp.access, imp.type>> \o Bytes16(imp.dimension)
          \o LengthPrefixed(imp.param_types)])

EncodeImportNames(imports) ==
  EncodeTable([i \in DOMAIN imports |-> LengthPrefixed(imports[i].name)])

(* groups_used: the groups of the instructions, decoded straight through. *)
GroupsUsed(code) ==
  LET from[pc \in Nat] ==
        IF pc >= Len(code) THEN {}
        ELSE LET name == Mnemonic(At(code, pc))
             IN  {GroupOf(At(code, pc))} \cup AlsoNeeds(name) \cup from[pc + Size(name)]
  IN  from[0]

(* Container.encode: the names of the imports only if there is one. *)
SectionsOf(c) ==
  <<[type |-> CODE, data |-> c.code],
    [type |-> CNST, data |-> EncodeConstants(c.constants)],
    [type |-> ENTR, data |-> EncodeFunctions(c.functions)],
    [type |-> HOST, data |-> EncodeImports(c.imports)]>>
  \o (IF \E i \in DOMAIN c.imports : c.imports[i].name # <<>>
      THEN <<[type |-> hnam, data |-> EncodeImportNames(c.imports)]>> ELSE <<>>)
  \o c.ancillary

EncodeBody(c) ==
  LET list == SectionsOf(c)
  IN  Flattened([s \in DOMAIN list |-> PackSection(list[s].type, list[s].data)])

Encode(c) ==
  LET body == EncodeBody(c)
  IN  [held |-> HeaderSize, body |-> body, magic |-> TRUE,
       format_version |-> FormatVersion, flags |-> 0,
       total_length |-> HeaderSize + Len(body), profile |-> c.profile,
       required_groups |-> GroupsUsed(c.code), checksum_matches |-> TRUE]

-----------------------------------------------------------------------------
(* Decoding.  What the refusals are called tells nothing here apart, so a   *)
(* table is one that can be decoded or not.                                 *)

Stuck == -1   (* a cursor that has refused *)

(* Container.decode, before it walks the sections. *)
HeaderDecodes(image) ==
  /\ Length(image) >= HeaderSize
  /\ image.magic
  /\ image.format_version <= FormatVersion
  /\ image.total_length = Length(image)
  /\ image.flags = 0
  /\ image.checksum_matches

(* Where the section after the one at offset `at` of the body begins. *)
NextSection(body, at) ==
  IF at + 8 > Len(body) THEN Stuck
  ELSE LET length == U32(body, at + 4)
           next   == at + 8 + length + Padding(length)
           type   == Slice(body, at, 4)
       IN  IF /\ next <= Len(body)
              /\ \A k \in 1..4 : Printable(type[k])
              /\ Uppercase(type[1]) => type \in CriticalSections
           THEN next ELSE Stuck

(* Where the sections from an offset on begin, and Stuck if the walk refuses. *)
StartsFrom(body) ==
  LET from[at \in Nat] ==
        IF at >= Len(body) THEN {}
        ELSE {at} \cup (IF NextSection(body, at) = Stuck THEN {Stuck}
                        ELSE from[NextSection(body, at)])
  IN  from

SectionStarts(body) == StartsFrom(body)[0]

Typed(body, type) ==
  {at \in SectionStarts(body) \ {Stuck} : Slice(body, at, 4) = type}

SectionsDecode(body) ==
  /\ Stuck \notin SectionStarts(body)
  /\ \A type \in CriticalSections : Cardinality(Typed(body, type)) = 1

(* The data of the section of that type, the first if there are several. *)
Section(body, type) ==
  LET at == Min(Typed(body, type)) IN Slice(body, at + 8, U32(body, at + 4))

(* Where each of a table's entries begins, given where the one after the
   entry at a cursor begins, and where the table ends: Stuck if it does not,
   as a table with more entries than bytes does not. *)
Steps(following) ==
  LET at[k \in Nat] ==
        IF k = 0 THEN 1
        ELSE LET before == at[k - 1]
             IN  IF before \in DOMAIN following THEN following[before] ELSE Stuck
  IN  at

Cursors(data, following) ==
  [k \in 1..At(data, 0) + 1 |->
     IF k > Len(data) THEN Stuck ELSE Steps(following)[k - 1]]

AfterConstant(data, at) ==
  IF at < Len(data) /\ At(data, at) \in PoolType
       /\ at + 1 + Width(At(data, at)) <= Len(data)
  THEN at + 1 + Width(At(data, at)) ELSE Stuck

ConstantCursors(data) ==
  Cursors(data, [at \in 1..Len(data) |-> AfterConstant(data, at)])

ConstantsDecode(data) ==
  data # <<>> /\ Last(ConstantCursors(data)) = Len(data)

(* An ENTR record. *)
FunctionAt(data, at) ==
  [name_offset |-> U16(data, at), code_offset |-> U32(data, at + 2),
   flags |-> At(data, at + 6), return_type |-> At(data, at + 7),
   max_stack |-> At(data, at + 8), max_call_depth |-> At(data, at + 9),
   recursion_cap |-> At(data, at + 10), component |-> At(data, at + 11),
   param_count |-> At(data, at + 12),
   local_types |-> Slice(data, at + 14, At(data, at + 13))]

AfterFunction(data, at) ==
  IF at + 14 <= Len(data) /\ at + 14 + At(data, at + 13) <= Len(data)
  THEN at + 14 + At(data, at + 13) ELSE Stuck

FunctionCursors(data) ==
  Cursors(data, [at \in 1..Len(data) |-> AfterFunction(data, at)])

FunctionDecodes(fn) ==
  /\ fn.return_type \in ValType
  /\ Range(fn.local_types) \subseteq ValueType
  /\ fn.flags \in {0, 1}
  /\ fn.param_count <= Len(fn.local_types)
  /\ Invocable(fn.flags) => fn.param_count = 0

(* _read_string.  A byte from 128 on is no UTF-8 by itself; the names here
   have no sequences of them. *)
NameDecodes(area, offset) ==
  /\ offset < Len(area)
  /\ offset + 1 + At(area, offset) <= Len(area)
  /\ \A k \in 1..At(area, offset) : At(area, offset + k) < 128

NameAtOffset(area, offset) == Slice(area, offset + 1, At(area, offset))

(* The records with their names. *)
DecodeFunctions(data) ==
  LET cursors == FunctionCursors(data)
      area    == SubSeq(data, Last(cursors) + 1, Len(data))
      fn(i)   == FunctionAt(data, cursors[i])
  IN  [i \in 1..At(data, 0) |->
         [name |-> NameAtOffset(area, fn(i).name_offset),
          code_offset |-> fn(i).code_offset, invocable |-> Invocable(fn(i).flags),
          return_type |-> fn(i).return_type, max_stack |-> fn(i).max_stack,
          max_call_depth |-> fn(i).max_call_depth,
          recursion_cap |-> fn(i).recursion_cap, component |-> fn(i).component,
          param_count |-> fn(i).param_count, local_types |-> fn(i).local_types]]

FunctionsDecode(data) ==
  /\ data # <<>>
  /\ LET cursors == FunctionCursors(data)
         area    == SubSeq(data, Last(cursors) + 1, Len(data))
     IN  /\ Last(cursors) # Stuck
         /\ \A i \in 1..At(data, 0) :
              /\ FunctionDecodes(FunctionAt(data, cursors[i]))
              /\ NameDecodes(area, FunctionAt(data, cursors[i]).name_offset)
         /\ IsInjective([i \in 1..At(data, 0) |->
              NameAtOffset(area, FunctionAt(data, cursors[i]).name_offset)])

(* A HOST record. *)
ImportAt(data, at) ==
  [hash |-> U32(data, at), kind |-> At(data, at + 4), access |-> At(data, at + 5),
   type |-> At(data, at + 6), dimension |-> U16(data, at + 7),
   param_types |-> Slice(data, at + 10, At(data, at + 9))]

AfterImport(data, at) ==
  IF at + 10 <= Len(data) /\ at + 10 + At(data, at + 9) <= Len(data)
  THEN at + 10 + At(data, at + 9) ELSE Stuck

ImportCursors(data) ==
  Cursors(data, [at \in 1..Len(data) |-> AfterImport(data, at)])

ImportDecodes(imp) ==
  /\ imp.type \in ValType
  /\ Range(imp.param_types) \subseteq ValueType
  /\ \/ /\ imp.kind = Entity
        /\ imp.access \in Access \ {0}
        /\ imp.type # VOID
        /\ imp.param_types = <<>>
     \/ imp.kind = HostFunction /\ imp.access = 0

DecodeImports(data) ==
  LET cursors == ImportCursors(data)
  IN  [i \in 1..At(data, 0) |-> ImportAt(data, cursors[i])]

ImportsDecode(data) ==
  /\ data # <<>>
  /\ Last(ImportCursors(data)) # Stuck
  /\ LET imports == DecodeImports(data)
     IN  /\ \A i \in DOMAIN imports : ImportDecodes(imports[i])
         /\ IsInjective([i \in DOMAIN imports |-> imports[i].hash])

(* hnam: as many names as there are imports, if the section is there. *)
AfterName(data, at) ==
  IF at < Len(data) /\ at + 1 + At(data, at) <= Len(data)
  THEN at + 1 + At(data, at) ELSE Stuck

NameCursors(data) ==
  Cursors(data, [at \in 1..Len(data) |-> AfterName(data, at)])

ImportNamesDecode(body) ==
  Typed(body, hnam) # {} =>
    LET data == Section(body, hnam)
    IN  /\ data # <<>>
        /\ At(data, 0) = At(Section(body, HOST), 0)
        /\ Last(NameCursors(data)) # Stuck

DecodeConstants(data) ==
  [i \in 1..At(data, 0) |->
     LET at == ConstantCursors(data)[i]
     IN  [type |-> At(data, at), bytes |-> Slice(data, at + 1, Width(At(data, at)))]]

(* decode accepts the image. *)
Decodes(image) ==
  /\ HeaderDecodes(image)
  /\ SectionsDecode(image.body)
  /\ ImportsDecode(Section(image.body, HOST))
  /\ ImportNamesDecode(image.body)
  /\ ConstantsDecode(Section(image.body, CNST))
  /\ FunctionsDecode(Section(image.body, ENTR))

(* Those of some sections that a walk from an offset on comes by, in the order
   of the file. *)
InOrder(body, kept) ==
  LET from[at \in Nat] ==
        IF at >= Len(body) \/ NextSection(body, at) = Stuck THEN <<>>
        ELSE (IF at \in kept THEN <<at>> ELSE <<>>) \o from[NextSection(body, at)]
  IN  from

(* The sections carried through untouched: those of lower case but the first
   hnam. *)
DecodeAncillary(body) ==
  LET starts == {at \in SectionStarts(body) : ~Uppercase(At(body, at))}
      kept   == starts \ (IF Typed(body, hnam) = {} THEN {} ELSE {Min(Typed(body, hnam))})
      order  == InOrder(body, kept)[0]
  IN  [s \in DOMAIN order |->
         [type |-> Slice(body, order[s], 4),
          data |-> Slice(body, order[s] + 8, U32(body, order[s] + 4))]]

(* What it then holds; the names of the imports are hnam's. *)
Decode(image) ==
  LET names == Section(image.body, hnam)
      host  == DecodeImports(Section(image.body, HOST))
      named(i) == LET at == NameCursors(names)[i]
                  IN  [name |-> Slice(names, at + 1, At(names, at)),
                       kind |-> host[i].kind, access |-> host[i].access,
                       type |-> host[i].type, dimension |-> host[i].dimension,
                       param_types |-> host[i].param_types]
  IN  [code |-> Section(image.body, CODE),
       constants |-> DecodeConstants(Section(image.body, CNST)),
       functions |-> DecodeFunctions(Section(image.body, ENTR)),
       imports |-> IF Typed(image.body, hnam) = {} THEN host
                   ELSE [i \in DOMAIN host |-> named(i)],
       ancillary |-> DecodeAncillary(image.body),
       profile |-> image.profile]
=============================================================================
