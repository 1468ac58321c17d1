------------------------------- MODULE Loader -------------------------------
(***************************************************************************)
(* From the file a compiler wrote to a program a device can run: the file  *)
(* is delivered, damaged or not, and mcuscript_load (load.c) parses it in  *)
(* place and links its imports.                                            *)
(*                                                                         *)
(* The loader does not verify, but it has to stay inside the buffer it was *)
(* given whatever is in it; a read outside ends the behaviour in the stage *)
(* "stray".  One action per turn of each of its loops.                     *)
(***************************************************************************)
EXTENDS Image

CONSTANTS
  Sources,        (* what compilers encode                                  *)
  Written(_),     (* other files a writer may produce from one of them      *)
  Hosts,          (* the import tables a device may have been built with    *)
  Profile,        (* profile id and major version of the device             *)
  Implemented,    (* its instruction groups                                 *)
  SizeT,          (* number of values of its size_t                         *)
  MaxConstants, MaxImports, MaxFunctions, MaxParameters   (* build limits   *)

(* A record's offset is kept in a u16: the records of as many imports as a
   build takes end below 65536. *)
ASSUME LoaderAssumption ==
  /\ {MaxConstants, MaxImports, MaxFunctions, MaxParameters} \subseteq Byte
  /\ MaxFunctions > 0
  /\ MaxImports * (10 + MaxParameters) < Words16

(* A size_t is at least as wide as a u32, and no wider on the smallest of the
   devices. *)
ASSUME SizeAssumption == SizeT \in Nat /\ SizeT >= Words32

(* What a compiler encodes fits the fields of the format: texts and tables are
   counted in a byte, a name is text (of one byte a character here) and names
   one function, a hash one import, and sections of its own are to be skipped. *)
Text == Seq(0..127)

SourceFunction ==
  [name: Text, code_offset: 0..Words32 - 1, invocable: BOOLEAN,
   return_type: ValType, max_stack: Byte, max_call_depth: Byte,
   recursion_cap: Byte, component: Byte, param_count: Byte,
   local_types: Seq(ValueType)]

SourceImport ==
  [name: Text, kind: {Entity, HostFunction}, access: Access, type: ValType,
   dimension: 0..Words16 - 1, param_types: Seq(ValueType)]

SourceContainer ==
  [code: Seq(Byte), constants: Seq([type: PoolType, bytes: Seq(Byte)]),
   functions: Seq(SourceFunction), imports: Seq(SourceImport),
   ancillary: Seq([type: Seq(32..126), data: Seq(Byte)]), profile: Nat \X Nat]

Encodable(c) ==
  /\ c \in SourceContainer
  /\ Len(c.constants) <= 255 /\ Len(c.functions) <= 255 /\ Len(c.imports) <= 255
  /\ \A k \in DOMAIN c.constants :
       Len(c.constants[k].bytes) = Width(c.constants[k].type)
  /\ \A i \in DOMAIN c.functions :
       LET fn == c.functions[i]
       IN  /\ Len(fn.name) <= 255 /\ Len(fn.local_types) <= 255
           /\ fn.param_count <= Len(fn.local_types)
           /\ fn.invocable => fn.param_count = 0
  /\ \A i, j \in DOMAIN c.functions :
       c.functions[i].name = c.functions[j].name => i = j
  /\ \A i \in DOMAIN c.imports :
       LET imp == c.imports[i]
       IN  /\ Len(imp.name) <= 255 /\ Len(imp.param_types) <= 255
           /\ NameHash(imp.name) \in 0..Words32 - 1
           /\ ImportDecodes(imp)
  /\ \A i, j \in DOMAIN c.imports :
       NameHash(c.imports[i].name) = NameHash(c.imports[j].name) => i = j
  /\ c.imports # <<>> => \E i \in DOMAIN c.imports : c.imports[i].name # <<>>
  /\ \A s \in DOMAIN c.ancillary :
       LET type == c.ancillary[s].type
       IN  Len(type) = 4 /\ ~Uppercase(type[1]) /\ type # hnam
  /\ \A s \in DOMAIN SectionsOf(c) : Len(SectionsOf(c)[s].data) < Words32

ASSUME SourcesAssumption == \A c \in Sources : Encodable(c)

(* A file: nothing of the sections arrives before all of the header, and the
   buffer it is in is an object of C, short of what a size_t can count. *)
File ==
  [held: 0..HeaderSize, body: Seq(Byte), magic: BOOLEAN, format_version: Nat,
   flags: Nat, total_length: 0..Words32 - 1, profile: Nat \X Nat,
   required_groups: SUBSET Group, checksum_matches: BOOLEAN]

IsFile(file) ==
  /\ file \in File
  /\ file.held < HeaderSize => file.body = <<>>
  /\ Length(file) + 8 <= SizeT

ASSUME FilesAssumption ==
  \A c \in Sources : IsFile(Encode(c)) /\ \A file \in Written(c) : IsFile(file)

(* mcuscript_import: a line of the table a device was built with, its name a
   C string; both of its counts are bytes. *)
HostEntry ==
  [name: Seq(1..255), kind: Byte, access: Byte, type: Byte,
   dimension: 0..Words16 - 1, param_types: Seq(Byte)]

ASSUME HostsAssumption ==
  \A table \in Hosts :
    /\ table \in Seq(HostEntry) /\ Len(table) <= 255
    /\ \A h \in DOMAIN table : Len(table[h].param_types) <= 255

VARIABLES
  source,    (* the container that was encoded                              *)
  image,     (* the file as it arrived: `bytes` and `length`                *)
  delivery,  (* what happened to it on the way                              *)
  decoded,   (* <<what the tools' decode makes of it>>, or <<>>             *)
  stage,     (* where mcuscript_load is                                     *)
  refusal,   (* diagnostic->refusal                                         *)
  sections,  (* the four sections found so far                              *)
  table,     (* the table being stepped through                             *)
  offset,    (* the offset into the file, then into the table               *)
  program,   (* mcuscript_program                                           *)
  host       (* the device's import table                                   *)

fileVars == <<source, image, delivery, decoded>>

loaderVars == <<source, image, delivery, decoded, stage, refusal, sections, table,
                offset, program, host>>

-----------------------------------------------------------------------------
(* Reading. *)
ByteAt(at)  == At(image.body, at - HeaderSize)
Word16(at) == U16(image.body, at - HeaderSize)
Word32(at) == U32(image.body, at - HeaderSize)

Held(at, length) == at + length <= Length(image)

(* A load ends; a read the buffer does not hold ends it too. *)
End(outcome) ==
  /\ stage' = IF outcome = "stray" THEN "stray" ELSE "refused"
  /\ refusal' = outcome
  /\ UNCHANGED <<fileVars, sections, table, offset, program, host>>

NoSections == [type \in CriticalSections |-> [present |-> FALSE, data |-> 0, length |-> 0]]

(* The sections that are tables. *)
Tables == CriticalSections \ {CODE}

(* Offsets of the entries of each table, read in place. *)
NoProgram ==
  [required_groups |-> {}, count |-> [t \in Tables |-> 0],
   offsets |-> [t \in Tables |-> <<>>], names |-> <<>>,
   component_cap |-> [k \in 0..MaxFunctions - 1 |-> 0], import_map |-> <<>>]

-----------------------------------------------------------------------------
(* Delivery.  A transfer that is cut keeps its first bytes, and its checksum *)
(* may match by chance; one that flips a bit has no matching checksum.       *)
Cut(length) ==
  [image EXCEPT !.held = Min({length, HeaderSize}),
                !.body = SubSeq(@, 1, length - HeaderSize)]

Flipped(at, byte) ==
  [image EXCEPT !.body[at] = byte, !.checksum_matches = FALSE]

DeliverIntact ==
  /\ stage = "encoded"
  /\ image' = image /\ delivery' = "intact"

DeliverCut ==
  /\ stage = "encoded"
  /\ \E length \in 0..Length(image) - 1 : image' = Cut(length)
  /\ delivery' = "cut"

DeliverFlipped ==
  /\ stage = "encoded"
  /\ \E at \in DOMAIN image.body :
       \E byte \in {(image.body[at] + 1) % 256} : image' = Flipped(at, byte)
  /\ delivery' = "flipped"

(* Not this compiler's output, but a file all the same, with a length and a
   checksum of its own. *)
DeliverWritten ==
  /\ stage = "encoded"
  /\ \E file \in Written(source) : image' = file
  /\ delivery' = "written"

(* container.py reads the file too. *)
DecodeOf(file) == IF Decodes(file) THEN <<Decode(file)>> ELSE <<>>

Deliver ==
  /\ DeliverIntact \/ DeliverCut \/ DeliverFlipped \/ DeliverWritten
  /\ decoded' = DecodeOf(image')
  /\ stage' = "header"
  /\ program' = NoProgram
  /\ refusal' = "ok"
  /\ UNCHANGED <<source, sections, table, offset, host>>

-----------------------------------------------------------------------------
(* The header, in mcuscript_load's order. *)
HeaderRefusalAtLeast ==
  IF Length(image) < HeaderSize THEN "length_mismatch"
  ELSE IF ~image.magic THEN "bad_magic"
  ELSE IF image.format_version > FormatVersion THEN "unsupported_format_version"
  ELSE IF image.total_length < Length(image) THEN "length_mismatch"
  ELSE IF image.flags # 0 THEN "reserved_field_set"
  ELSE IF ~image.checksum_matches THEN "bad_checksum"
  ELSE IF image.profile # Profile THEN "profile_mismatch"
  ELSE IF ~(image.required_groups \subseteq Implemented) THEN "unsupported_group"
  ELSE "none"

HeaderRefusal ==
  IF Length(image) < HeaderSize THEN "length_mismatch"
  ELSE IF ~image.magic THEN "bad_magic"
  ELSE IF image.format_version > FormatVersion THEN "unsupported_format_version"
  ELSE IF image.total_length # Length(image) THEN "length_mismatch"
  ELSE IF image.flags # 0 THEN "reserved_field_set"
  ELSE IF ~image.checksum_matches THEN "bad_checksum"
  ELSE IF image.profile # Profile THEN "profile_mismatch"
  ELSE IF ~(image.required_groups \subseteq Implemented) THEN "unsupported_group"
  ELSE "none"

Header ==
  /\ stage = "header"
  /\ IF HeaderRefusal # "none" THEN End(HeaderRefusal)
     ELSE /\ program' = [program EXCEPT !.required_groups = image.required_groups]
          /\ stage' = "sections"
          /\ offset' = HeaderSize
          /\ UNCHANGED <<fileVars, refusal, sections, table, host>>

(* The section walk.  The padded size is a u32 and wraps; so does the sum it
   is then part of, a size_t, and the check for it only sees a sum that comes
   out below the offset. *)
Padded == (Word32(offset + 4) + Padding(Word32(offset + 4))) % Words32
Ahead  == (offset + 8 + Padded) % SizeT

SectionOutcome ==
  IF offset + 8 > Length(image) THEN "malformed_section"
  ELSE IF Ahead > Length(image) \/ Ahead < offset THEN "malformed_section"
  ELSE LET type == Slice(image.body, offset - HeaderSize, 4)
       IN  IF type \in CriticalSections
           THEN IF sections[type].present THEN "duplicate_section" ELSE "none"
           ELSE IF Uppercase(type[1]) THEN "unknown_critical_section" ELSE "none"

WalkKnownSection ==
  /\ stage = "sections"
  /\ offset < Length(image)
  /\ IF SectionOutcome # "none" THEN End(SectionOutcome)
     ELSE LET type == Slice(image.body, offset - HeaderSize, 4)
          IN  IF type \in CriticalSections
              THEN /\ sections' = [sections EXCEPT ![type] =
                         [present |-> TRUE, data |-> offset + 8,
                          length |-> Word32(offset + 4)]]
                   /\ offset' = Ahead
                   /\ UNCHANGED <<fileVars, stage, refusal, table,
                                  program, host>>
              ELSE UNCHANGED loaderVars

WalkSection ==
  /\ stage = "sections"
  /\ offset < Length(image)
  /\ IF SectionOutcome # "none" THEN End(SectionOutcome)
     ELSE /\ LET type  == Slice(image.body, offset - HeaderSize, 4)
                 found == [present |-> TRUE, data |-> offset + 8,
                           length |-> Word32(offset + 4)]
             IN  sections' = IF type \in CriticalSections
                             THEN [sections EXCEPT ![type] = found] ELSE sections
          /\ offset' = Ahead
          /\ UNCHANGED <<fileVars, stage, refusal, table, program, host>>

EndSections ==
  /\ stage = "sections"
  /\ offset >= Length(image)
  /\ IF \E type \in CriticalSections : ~sections[type].present
     THEN End("missing_section")
     ELSE /\ stage' = "count"
          /\ table' = CNST
          /\ UNCHANGED <<fileVars, refusal, sections, offset, program, host>>

-----------------------------------------------------------------------------
(* The tables: constants, then imports, then functions. *)
Data       == sections[table].data
DataLength == sections[table].length

Limit == CASE table = CNST -> MaxConstants
           [] table = HOST -> MaxImports
           [] table = ENTR -> MaxFunctions

CountOfAny ==
  IF DataLength < 1 THEN "malformed_section"
  ELSE IF ~Held(Data, 1) THEN "stray"
  ELSE IF ByteAt(Data) > MaxConstants + MaxImports THEN "build_limit"
  ELSE "none"

CountOutcome ==
  IF DataLength < 1 THEN "malformed_section"
  ELSE IF ~Held(Data, 1) THEN "stray"
  ELSE IF ByteAt(Data) > Limit THEN "build_limit"
  ELSE "none"

Count ==
  /\ stage = "count"
  /\ IF CountOutcome # "none" THEN End(CountOutcome)
     ELSE /\ program' = [program EXCEPT !.count[table] = ByteAt(Data)]
          /\ offset' = 1
          /\ stage' = "entries"
          /\ UNCHANGED <<fileVars, refusal, sections, table, host>>

ConstantNeverLast ==
  IF offset >= DataLength THEN "malformed_section"
  ELSE IF ~Held(Data + offset, 1) THEN "stray"
  ELSE IF ByteAt(Data + offset) \notin PoolType THEN "malformed_section"
  ELSE IF offset + 1 + Width(ByteAt(Data + offset)) >= DataLength THEN "malformed_section"
  ELSE "none"

ConstantOutcome ==
  IF offset >= DataLength THEN "malformed_section"
  ELSE IF ~Held(Data + offset, 1) THEN "stray"
  ELSE IF ByteAt(Data + offset) \notin PoolType THEN "malformed_section"
  ELSE IF offset + 1 + Width(ByteAt(Data + offset)) > DataLength THEN "malformed_section"
  ELSE "none"

ImportUnmeasured ==
  IF offset + 10 > DataLength THEN "malformed_section"
  ELSE IF ~Held(Data + offset, 10) THEN "stray"
  ELSE IF ByteAt(Data + offset + 9) > MaxParameters THEN "build_limit"
  ELSE "none"

ImportOutcome ==
  IF offset + 10 > DataLength THEN "malformed_section"
  ELSE IF ~Held(Data + offset, 10) THEN "stray"
  ELSE LET parameters == ByteAt(Data + offset + 9)
       IN  IF offset + 10 + parameters > DataLength THEN "malformed_section"
           ELSE IF parameters > MaxParameters THEN "build_limit"
           ELSE "none"

FunctionOutcome ==
  IF offset + 14 > DataLength THEN "malformed_section"
  ELSE IF ~Held(Data + offset, 14) THEN "stray"
  ELSE IF ByteAt(Data + offset + 11) >= program.count[ENTR] THEN "malformed_section"
  ELSE IF offset + 14 + ByteAt(Data + offset + 13) > DataLength THEN "malformed_section"
  ELSE "none"

EntryOutcome == CASE table = CNST -> ConstantOutcome
                  [] table = HOST -> ImportOutcome
                  [] table = ENTR -> FunctionOutcome

SizeAt(t, at) == CASE t = CNST -> 1 + Width(ByteAt(at))
                   [] t = HOST -> 10 + ByteAt(at + 9)
                   [] t = ENTR -> 14 + ByteAt(at + 13)

EntrySize == SizeAt(table, Data + offset)

(* constant_offsets and import_offsets are u16; no offset of a function is
   kept, its fields are. *)
Kept(at) == IF table = ENTR THEN at ELSE at % Words16

ReadEntry ==
  /\ stage = "entries"
  /\ Len(program.offsets[table]) < program.count[table]
  /\ IF EntryOutcome # "none" THEN End(EntryOutcome)
     ELSE /\ program' = [program EXCEPT !.offsets[table] = Append(@, Kept(offset))]
          /\ offset' = offset + EntrySize
          /\ UNCHANGED <<fileVars, stage, refusal, sections, table, host>>

EndEntries ==
  /\ stage = "entries"
  /\ Len(program.offsets[table]) = program.count[table]
  /\ stage' = IF table = ENTR THEN "names" ELSE "count"
  /\ table' = IF table = CNST THEN HOST ELSE ENTR
  /\ UNCHANGED <<fileVars, refusal, sections, offset, program, host>>

-----------------------------------------------------------------------------
(* The string area follows the records. *)
NameAt(i) == Data + offset + Word16(Data + program.offsets[ENTR][i])

NameAnywhere(i) ==
  LET area == DataLength - offset
      name == Word16(Data + program.offsets[ENTR][i])
  IN  IF ~Held(NameAt(i), 1) THEN "stray"
      ELSE IF name + 1 + ByteAt(NameAt(i)) > area THEN "malformed_section"
      ELSE "none"

NameOutcome(i) ==
  LET area == DataLength - offset
      name == Word16(Data + program.offsets[ENTR][i])
  IN  IF name >= area THEN "malformed_section"
      ELSE IF ~Held(NameAt(i), 1) THEN "stray"
      ELSE IF name + 1 + ByteAt(NameAt(i)) > area THEN "malformed_section"
      ELSE "none"

ReadName ==
  /\ stage = "names"
  /\ Len(program.names) < program.count[ENTR]
  /\ LET i == Len(program.names) + 1
     IN  IF NameOutcome(i) # "none" THEN End(NameOutcome(i))
         ELSE /\ program' = [program EXCEPT !.names = Append(@,
                              [at |-> NameAt(i) + 1, length |-> ByteAt(NameAt(i))])]
              /\ UNCHANGED <<fileVars, stage, refusal, sections,
                             table, offset, host>>

(* Fields of the record of function i. *)
FlagsOf(i)     == ByteAt(Data + program.offsets[ENTR][i] + 6)
CapOf(i)       == ByteAt(Data + program.offsets[ENTR][i] + 10)
ComponentOf(i) == ByteAt(Data + program.offsets[ENTR][i] + 11)

(* The cap of a component is that of the last of its members. *)
Caps ==
  [k \in 0..MaxFunctions - 1 |->
     LET members == {i \in 1..program.count[ENTR] : ComponentOf(i) = k}
     IN  IF members = {} THEN 0 ELSE CapOf(Max(members))]

EndNames ==
  /\ stage = "names"
  /\ Len(program.names) = program.count[ENTR]
  /\ program' = [program EXCEPT !.component_cap = Caps]
  /\ host' \in Hosts
  /\ stage' = "link"
  /\ UNCHANGED <<fileVars, refusal, sections, table, offset>>

-----------------------------------------------------------------------------
(* Linking. *)
ImportStart(i) == sections[HOST].data + program.offsets[HOST][i]

(* The host's first entry with the hash, 0 if there is none. *)
EntryHashed(hash) ==
  LET matches == {h \in DOMAIN host : NameHash(host[h].name) = hash}
  IN  IF matches = {} THEN 0 ELSE Min(matches)

Bits == {1, 2, 4, 8, 16, 32, 64, 128}

(* Some bit of one byte is set in the other. *)
BitsShared(some, all) ==
  \E bit \in Bits : some \div bit % 2 = 1 /\ all \div bit % 2 = 1

(* Every bit of one byte is set in the other. *)
BitsWithin(some, all) ==
  \A bit \in Bits : some \div bit % 2 = 1 => all \div bit % 2 = 1

(* The parameter types read before a mismatch ends the comparison. *)
SignatureOutcome(i, decl) ==
  LET count == ByteAt(ImportStart(i) + 9)
      type(p) == ImportStart(i) + 9 + p
  IN  IF Len(decl.param_types) # count THEN "signature_mismatch"
      ELSE IF \E p \in 1..count : Held(type(p), 1) /\ ByteAt(type(p)) # decl.param_types[p]
           THEN "signature_mismatch"
      ELSE IF ~Held(type(1), count) THEN "stray"
      ELSE "none"

LinkOutcome(i) ==
  LET found == EntryHashed(Word32(ImportStart(i)))
      decl  == host[found]
      kind  == ByteAt(ImportStart(i) + 4)
  IN  IF found = 0 THEN "unknown_import"
      ELSE IF decl.kind # kind THEN "kind_mismatch"
      ELSE IF decl.type # ByteAt(ImportStart(i) + 6) THEN "import_type_mismatch"
      ELSE IF decl.dimension # Word16(ImportStart(i) + 7) THEN "dimension_mismatch"
      ELSE IF kind = Entity
           THEN IF BitsWithin(ByteAt(ImportStart(i) + 5), decl.access) THEN "none"
                ELSE "access_denied"
      ELSE SignatureOutcome(i, decl)

LinkImport ==
  /\ stage = "link"
  /\ Len(program.import_map) < program.count[HOST]
  /\ LET i == Len(program.import_map) + 1
     IN  IF LinkOutcome(i) # "none" THEN End(LinkOutcome(i))
         ELSE /\ program' = [program EXCEPT !.import_map =
                              Append(@, EntryHashed(Word32(ImportStart(i))))]
              /\ UNCHANGED <<fileVars, stage, refusal, sections,
                             table, offset, host>>

EndLink ==
  /\ stage = "link"
  /\ Len(program.import_map) = program.count[HOST]
  /\ stage' = "loaded"
  /\ UNCHANGED <<fileVars, refusal, sections, table, offset,
                 program, host>>

LoadedName(i) ==
  Slice(image.body, program.names[i].at - HeaderSize, program.names[i].length)

(* What strlen makes of a text: it ends before its first zero. *)
Terminated(text) ==
  LET zeros == {k \in DOMAIN text : text[k] = 0}
  IN  IF zeros = {} THEN text ELSE SubSeq(text, 1, Min(zeros) - 1)

(* mcuscript_find_entry, -1 if there is none of that name. *)
FindAnyNamed(name) ==
  LET named == {i \in 1..program.count[ENTR] : LoadedName(i) = Terminated(name)}
  IN  IF named = {} THEN -1 ELSE Min(named) - 1

FindEntry(name) ==
  LET named == {i \in 1..program.count[ENTR] :
                  Invocable(FlagsOf(i)) /\ LoadedName(i) = Terminated(name)}
  IN  IF named = {} THEN -1 ELSE Min(named) - 1

-----------------------------------------------------------------------------
LoaderInit ==
  /\ source \in Sources
  /\ image = Encode(source)
  /\ delivery = "none"
  /\ decoded = DecodeOf(image)
  /\ stage = "encoded"
  /\ refusal = "ok"
  /\ sections = NoSections
  /\ table = CNST
  /\ offset = 0
  /\ program = NoProgram
  /\ host = <<>>

Loading ==
  \/ Header \/ WalkSection \/ EndSections
  \/ Count \/ ReadEntry \/ EndEntries \/ ReadName \/ EndNames
  \/ LinkImport \/ EndLink

LoaderNext == Deliver \/ Loading

(* mcuscript_load is one call that runs until it returns; whether a file is
   ever delivered is not up to it. *)
LoaderSpec == LoaderInit /\ [][LoaderNext]_loaderVars /\ WF_loaderVars(Loading)

-----------------------------------------------------------------------------
(* Properties. *)

(* The type invariant: the tables read so far are no longer than their
   counts, counts are within the build's limits, and the offsets kept lie in
   the sections they point into. *)
LoaderTypeOK ==
  /\ source \in Sources
  /\ delivery \in {"none", "intact", "cut", "flipped", "written"}
  /\ stage \in {"encoded", "header", "sections", "count", "entries", "names",
                "link", "loaded", "refused", "stray"}
  /\ (refusal = "ok") <=> (stage \notin {"refused", "stray"})
  /\ program.count[CNST] <= MaxConstants
  /\ program.count[HOST] <= MaxImports
  /\ program.count[ENTR] <= MaxFunctions
  /\ \A t \in Tables :
       /\ Len(program.offsets[t]) <= program.count[t]
       /\ Range(program.offsets[t]) \subseteq 1..sections[t].length
  /\ Len(program.names) <= program.count[ENTR]
  /\ Len(program.import_map) <= program.count[HOST]

(* What the compiler encodes, its own decoder reads back unchanged. *)
RoundTrip ==
  stage = "encoded" => decoded = <<source>>

(* A transfer that lost its end or flipped a bit never becomes a program. *)
DamageRefused == delivery \in {"cut", "flipped"} => stage # "loaded"

(* A size that a u32 has no room to pad, or a size_t none to add to the header
   of its section: the three largest there are, or the eleven largest where a
   size_t is no wider than a u32. *)
Lost(size) == size + Padding(size) >= Words32 \/ 8 + size + Padding(size) >= SizeT

Overlong(type) == Lost(sections[type].length)

(* The loader reads nothing the buffer does not hold, whatever file it is,
   unless some section is overlong. *)
StaysInBuffer == stage = "stray" => \E type \in CriticalSections : Overlong(type)

(* What a loaded program points at is in the file it was loaded from: the
   code, each constant's value, each import's record with its parameters, each
   function's record and name.  The interpreter and the accessors read them
   without another look at the length. *)
ViewsHeld ==
  stage = "loaded" =>
    /\ \A type \in CriticalSections :
         Overlong(type) \/ Held(sections[type].data, sections[type].length)
    /\ \A t \in Tables :
         \A i \in DOMAIN program.offsets[t] :
           program.offsets[t][i] + SizeAt(t, sections[t].data + program.offsets[t][i])
             <= sections[t].length
    /\ \A i \in DOMAIN program.names :
         program.names[i].at + program.names[i].length
           <= sections[ENTR].data + sections[ENTR].length

(* load.c:20-23: bounds against the buffer stay; a parser that walks off the
   end of a container it was handed is a defect, whatever the container. *)
NeverStrays == stage # "stray"

Identity == {"profile_mismatch", "unsupported_group", "build_limit",
             "unknown_import", "kind_mismatch", "import_type_mismatch",
             "dimension_mismatch", "access_denied", "signature_mismatch"}

(* Two readers, one format: a file the tools decode is refused by the device
   only because it is not meant for it (a component index outside the table
   is left to the verifier), and what the device reads in place is what the
   tools decoded. *)
ReadersAgree ==
  stage \in {"loaded", "refused", "stray"} /\ decoded # <<>> =>
    LET c == decoded[1]
        n == Len(c.functions)
    IN  IF stage # "loaded"
        THEN refusal \in Identity \/ \E i \in 1..n : c.functions[i].component >= n
        ELSE /\ program.count[CNST] = Len(c.constants)
             /\ program.count[HOST] = Len(c.imports)
             /\ program.count[ENTR] = n
             /\ \A i \in 1..n :
                  LET fn == FunctionAt(image.body, Data - HeaderSize
                                                    + program.offsets[ENTR][i])
                  IN  /\ LoadedName(i) = c.functions[i].name
                      /\ fn.code_offset = c.functions[i].code_offset
                      /\ fn.recursion_cap = c.functions[i].recursion_cap
                      /\ fn.param_count = c.functions[i].param_count
                      /\ fn.local_types = c.functions[i].local_types
             /\ \A k \in 1..Len(c.constants) :
                  LET at == sections[CNST].data - HeaderSize + program.offsets[CNST][k]
                  IN  /\ At(image.body, at) = c.constants[k].type
                      /\ Slice(image.body, at + 1, Width(c.constants[k].type))
                            = c.constants[k].bytes

(* Linking: in a loaded program every import of a file that decodes is bound
   to a host entry of its hash, its kind and type, which grants at least its
   access, and no two imports are bound to one entry. *)
LinkedAsDeclared ==
  stage = "loaded" /\ decoded # <<>> =>
    LET imports == DecodeImports(Section(image.body, HOST))
    IN  /\ IsInjective(program.import_map)
        /\ \A i \in DOMAIN imports :
             LET decl == host[program.import_map[i]]
             IN  /\ NameHash(decl.name) = imports[i].hash
                 /\ decl.kind = imports[i].kind
                 /\ decl.type = imports[i].type
                 /\ decl.dimension = imports[i].dimension
                 /\ Reads(imports[i].access) => Reads(decl.access)
                 /\ Writes(imports[i].access) => Writes(decl.access)
                 /\ decl.kind = HostFunction => decl.param_types = imports[i].param_types

(* Asked for a function's name, a loaded file that decodes has the entry point
   whose name that is and no other.  The question ends at the first zero in it,
   so what is named with a zero is found by no question, and one with the start
   of its name may be found in its place. *)
EntriesFound ==
  stage = "loaded" /\ decoded # <<>> =>
    LET functions == decoded[1].functions
        Meant(i, name) == functions[i].invocable /\ functions[i].name = Terminated(name)
    IN  \A j \in DOMAIN functions :
          LET name == functions[j].name
          IN  /\ \A i \in DOMAIN functions : FindEntry(name) = i - 1 <=> Meant(i, name)
              /\ FindEntry(name) = -1 <=> \A i \in DOMAIN functions : ~Meant(i, name)

(* The walk is at a section to skip whose end wraps round to its beginning. *)
Spinning ==
  /\ stage = "sections"
  /\ offset < Length(image)
  /\ SectionOutcome = "none"
  /\ Slice(image.body, offset - HeaderSize, 4) \notin CriticalSections
  /\ Ahead = offset

(* mcuscript_load returns (or strays), whatever the file, unless it comes to
   such a section: then it never does. *)
LoaderReturns ==
  (stage = "header") ~> (stage \in {"loaded", "refused", "stray"} \/ Spinning)
=============================================================================
