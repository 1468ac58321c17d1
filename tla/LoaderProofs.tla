---------------------------- MODULE LoaderProofs ----------------------------
(***************************************************************************)
(* That the loader keeps its tables and its buffer, refuses what a         *)
(* transfer damaged, and reads of every file what the tools' decode reads; *)
(* and that the tools read back what they encoded.                         *)
(***************************************************************************)
EXTENDS Loader, Lemmas

-----------------------------------------------------------------------------
(* The four sections are different, and three of them are tables. *)
LEMMA SectionsDiffer ==
  /\ CODE # CNST /\ CODE # ENTR /\ CODE # HOST
  /\ CNST # ENTR /\ CNST # HOST /\ ENTR # HOST
  /\ CriticalSections = {CODE, CNST, ENTR, HOST}
  /\ Tables = {CNST, ENTR, HOST}
<1>1. CODE # CNST /\ CODE # ENTR /\ CODE # HOST
  BY DEF CODE, CNST, ENTR, HOST
<1>2. CNST # ENTR /\ CNST # HOST /\ ENTR # HOST
  BY DEF CNST, ENTR, HOST
<1>. QED
  BY <1>1, <1>2 DEF CriticalSections, Tables

(* Words of a buffer. *)
LEMMA Word16Range ==
  ASSUME NEW data \in Seq(Byte), NEW at \in Nat, at + 2 <= Len(data)
  PROVE  U16(data, at) \in 0..Words16 - 1
<1>1. at + 1 \in 1..Len(data) /\ at + 1 + 1 \in 1..Len(data)
  OBVIOUS
<1>2. data[at + 1] \in Byte /\ data[at + 1 + 1] \in Byte
  BY <1>1, ElementOfSeq
<1>3. PICK low \in Byte, high \in Byte : low = data[at + 1] /\ high = data[at + 1 + 1]
  BY <1>2
<1>4. U16(data, at) = low + 256 * high
  BY <1>3 DEF U16, At
<1>5. /\ low \in Int /\ 0 <= low /\ low <= 255
      /\ high \in Int /\ 0 <= high /\ high <= 255
  BY SMT DEF Byte
<1>6. low + 256 * high \in Int /\ 0 <= low + 256 * high /\ low + 256 * high <= 65535
  BY <1>5, SMT
<1>7. Words16 - 1 = 65535
  BY SMT DEF Words16
<1>. QED
  BY <1>4, <1>6, <1>7, SMT

LEMMA Word32Range ==
  ASSUME NEW data \in Seq(Byte), NEW at \in Nat, at + 4 <= Len(data)
  PROVE  U32(data, at) \in 0..Words32 - 1
<1>1. U16(data, at) \in 0..Words16 - 1 /\ U16(data, at + 2) \in 0..Words16 - 1
  BY Word16Range
<1>2. PICK k \in Int : k = Words32 \div Words16 /\ Words32 = Words16 * k
  BY Words32Assumption, SMT DEF Words16
<1>3. k >= 1
  BY <1>2, Words32Assumption, SMT DEF Words16
<1>4. PICK r \in 0..k - 1 : r = U16(data, at + 2) % k
  <2>1. PICK high \in Int : high = U16(data, at + 2)
    BY <1>1
  <2>2. k \in Nat \ {0}
    BY <1>3
  <2>3. high % k \in 0..k - 1
    BY <2>2, Division
  <2>. QED
    BY <2>1, <2>3
<1>5. U32(data, at) = U16(data, at) + Words16 * r
  BY <1>2, <1>4 DEF U32
<1>6. PICK low \in 0..Words16 - 1 : low = U16(data, at)
  BY <1>1
<1>7. low + Words16 * r \in 0..Words16 * k - 1
  <2>1. r \in Int /\ 0 <= r /\ r <= k - 1 /\ low \in Int /\ 0 <= low /\ low <= 65535
    BY <1>3, SMT DEF Words16
  <2>2. 65536 * r >= 0 /\ 65536 * r <= 65536 * k - 65536
    BY <2>1, SMT
  <2>. QED
    BY <2>1, <2>2, SMT DEF Words16
<1>. QED
  BY <1>2, <1>5, <1>6, <1>7

LEMMA PaddingRange ==
  ASSUME NEW n \in Nat
  PROVE  Padding(n) \in 0..3
BY DEF Padding

-----------------------------------------------------------------------------
(* The inductive invariant, in parts.                                       *)
(*                                                                          *)
(* What is known of the file: a damaged one has lost its end or its         *)
(* checksum.                                                                *)
FileInv ==
  /\ source \in Sources
  /\ IsFile(image)
  /\ decoded = DecodeOf(image)
  /\ delivery \in {"none", "intact", "cut", "flipped", "written"}
  /\ delivery = "cut" => image.total_length # Length(image)
  /\ delivery = "flipped" => ~image.checksum_matches

Stages == {"encoded", "header", "sections", "count", "entries", "names",
           "link", "loaded", "refused", "stray"}

(* The stages behind the header, and behind the section walk. *)
Walked == {"count", "entries", "names", "link", "loaded", "stray"}
Passed == {"sections"} \cup Walked

StageInv ==
  /\ stage \in Stages
  /\ (refusal = "ok") <=> (stage \notin {"refused", "stray"})
  /\ (delivery = "none") <=> (stage = "encoded")
  /\ stage = "encoded" => image = Encode(source)
  /\ stage \in Passed => HeaderRefusal = "none"

(* A section that was found lies in the file, unless its size is one whose
   padding is lost. *)
SectionHeld(type) ==
  /\ image.held = HeaderSize
  /\ sections[type].data >= HeaderSize + 8
  /\ Overlong(type) \/ Held(sections[type].data, sections[type].length)

Sections == [present: BOOLEAN, data: Nat, length: 0..Words32 - 1]

SectionsInv ==
  /\ sections \in [CriticalSections -> Sections]
  /\ offset \in Nat
  /\ stage = "sections" => offset >= HeaderSize
  /\ stage \in {"encoded", "header"} => sections = NoSections
  /\ stage \in Walked => \A type \in CriticalSections : sections[type].present
  /\ \A type \in CriticalSections : sections[type].present => SectionHeld(type)

(* What is read of an entry before its length is known. *)
Fixed(t) == IF t = CNST THEN 1 ELSE IF t = HOST THEN 10 ELSE 14

EntryHeld(t, o) ==
  /\ sections[t].present
  /\ o >= 1
  /\ o + Fixed(t) <= sections[t].length
  /\ Held(sections[t].data + o, Fixed(t))
  /\ o + SizeAt(t, sections[t].data + o) <= sections[t].length

NameHeld(name) == name.at + name.length <= sections[ENTR].data + sections[ENTR].length

Name == [at: Nat, length: Byte]

Program ==
  [required_groups: SUBSET Group, count: [Tables -> Byte],
   offsets: [Tables -> Seq(Nat)], names: Seq(Name),
   component_cap: [0..MaxFunctions - 1 -> Byte], import_map: Seq(Nat)]

TablesInv ==
  /\ program \in Program
  /\ program.count[CNST] <= MaxConstants
  /\ program.count[HOST] <= MaxImports
  /\ program.count[ENTR] <= MaxFunctions
  /\ \A t \in Tables :
       /\ Len(program.offsets[t]) <= program.count[t]
       /\ \A i \in DOMAIN program.offsets[t] : EntryHeld(t, program.offsets[t][i])
  /\ Len(program.names) <= program.count[ENTR]
  /\ \A i \in DOMAIN program.names : NameHeld(program.names[i])
  /\ Len(program.import_map) <= program.count[HOST]
  /\ host \in Seq(HostEntry)

(* Which tables are still to come and which are done. *)
Turn(t) == IF t = CNST THEN 0 ELSE IF t = HOST THEN 1 ELSE 2

ToCome(t) == \/ stage \in {"encoded", "header", "sections"}
             \/ stage = "count" /\ Turn(t) >= Turn(table)
             \/ stage = "entries" /\ Turn(t) > Turn(table)

Done(t) == \/ stage \in {"count", "entries"} /\ Turn(t) < Turn(table)
           \/ stage \in {"names", "link", "loaded"}

Widest(t) == IF t = CNST THEN 9 ELSE 10 + MaxParameters

TurnInv ==
  /\ table \in Tables
  /\ stage \in {"encoded", "header", "sections"} => table = CNST
  /\ stage \in {"names", "link", "loaded"} => table = ENTR
  /\ \A t \in Tables : ToCome(t) => program.offsets[t] = <<>>
  /\ \A t \in Tables : Done(t) => Len(program.offsets[t]) = program.count[t]
  /\ stage \in {"encoded", "header", "sections", "count", "entries"} =>
       program.names = <<>>
  /\ stage \in {"encoded", "header", "sections", "count", "entries", "names"} =>
       program.import_map = <<>>
  /\ stage \in {"link", "loaded"} => Len(program.names) = program.count[ENTR]
  /\ stage = "loaded" => Len(program.import_map) = program.count[HOST]
  /\ stage \in {"entries", "names"} => 1 <= offset /\ offset <= DataLength
  /\ stage = "entries" /\ table # ENTR =>
       offset <= 1 + Len(program.offsets[table]) * Widest(table)

LoaderInv == FileInv /\ StageInv /\ SectionsInv /\ TablesInv /\ TurnInv /\ StaysInBuffer

-----------------------------------------------------------------------------
(* Reading inside the file. *)
LEMMA FileShape ==
  ASSUME IsFile(image)
  PROVE  /\ image.body \in Seq(Byte) /\ Len(image.body) \in Nat
         /\ image.held \in 0..HeaderSize
         /\ Length(image) \in Nat /\ Length(image) = image.held + Len(image.body)
         /\ Length(image) >= HeaderSize => image.held = HeaderSize
         /\ Length(image) + 8 <= SizeT
<1>1. image.body \in Seq(Byte) /\ image.held \in 0..HeaderSize
      /\ Length(image) + 8 <= SizeT
  BY DEF IsFile, File
<1>2. Len(image.body) \in Nat
  BY <1>1, LenProperties
<1>3. image.held < HeaderSize => Len(image.body) = 0
  BY EmptySeq DEF IsFile
<1>4. Length(image) = image.held + Len(image.body)
  BY DEF Length
<1>5. PICK n \in Nat, h \in 0..HeaderSize : n = Len(image.body) /\ h = image.held
  BY <1>1, <1>2
<1>6. h < HeaderSize => n = 0
  BY <1>3, <1>5
<1>7. h + n >= HeaderSize => h = HeaderSize
  BY <1>6 DEF HeaderSize
<1>11. h + n \in Nat
  BY DEF HeaderSize
<1>8. Length(image) = h + n /\ h + n \in Nat
  BY <1>4, <1>5, <1>11
<1>9. Length(image) \in Nat
  BY <1>8
<1>10. Length(image) >= HeaderSize => image.held = HeaderSize
  BY <1>5, <1>7, <1>8
<1>. QED
  BY <1>1, <1>2, <1>4, <1>9, <1>10

LEMMA ReadByte ==
  ASSUME IsFile(image), image.held = HeaderSize,
         NEW at \in Nat, at >= HeaderSize, at + 1 <= Length(image)
  PROVE  ByteAt(at) \in Byte
<1>1. (at - HeaderSize) + 1 \in 1..Len(image.body)
  BY FileShape DEF HeaderSize
<1>. QED
  BY <1>1, FileShape, ElementOfSeq DEF ByteAt, At

LEMMA ReadWord16 ==
  ASSUME IsFile(image), image.held = HeaderSize,
         NEW at \in Nat, at >= HeaderSize, at + 2 <= Length(image)
  PROVE  Word16(at) \in 0..Words16 - 1
<1>1. at - HeaderSize \in Nat /\ (at - HeaderSize) + 2 <= Len(image.body)
  BY FileShape DEF HeaderSize
<1>. QED
  BY <1>1, FileShape, Word16Range DEF Word16

LEMMA ReadWord32 ==
  ASSUME IsFile(image), image.held = HeaderSize,
         NEW at \in Nat, at >= HeaderSize, at + 4 <= Length(image)
  PROVE  Word32(at) \in 0..Words32 - 1
<1>1. at - HeaderSize \in Nat /\ (at - HeaderSize) + 4 <= Len(image.body)
  BY FileShape DEF HeaderSize
<1>. QED
  BY <1>1, FileShape, Word32Range DEF Word32

-----------------------------------------------------------------------------
(* A load that ends keeps everything. *)
LEMMA EndKeeps ==
  ASSUME LoaderInv, NEW o, o # "ok", End(o), stage # "encoded",
         o = "stray" => /\ stage \in Passed
                        /\ \A type \in CriticalSections : sections[type].present
                        /\ \E type \in CriticalSections : Overlong(type)
  PROVE  LoaderInv'
<1>. USE DEF End, fileVars
<1>1. stage' = IF o = "stray" THEN "stray" ELSE "refused"
  OBVIOUS
<1>2. FileInv'
  BY DEF LoaderInv, FileInv, Length
<1>3. StageInv'
  BY <1>1 DEF LoaderInv, StageInv, Stages, Passed, Walked, HeaderRefusal, Length
<1>4. SectionsInv'
  BY <1>1 DEF LoaderInv, SectionsInv, Passed, Walked, SectionHeld, Overlong, Held, Length, Sections
<1>5. TablesInv'
  BY <1>1, ZenonT(40)
    DEF LoaderInv, TablesInv, EntryHeld, SizeAt, ByteAt, Fixed, Held, Length, NameHeld
<1>6. TurnInv'
  BY <1>1 DEF LoaderInv, TurnInv, ToCome, Done, DataLength
<1>7. StaysInBuffer'
  BY <1>1 DEF StaysInBuffer, Overlong
<1>. QED
  BY <1>2, <1>3, <1>4, <1>5, <1>6, <1>7 DEF LoaderInv

LEMMA Limits ==
  /\ MaxConstants \in Byte /\ MaxImports \in Byte
  /\ MaxFunctions \in Byte /\ MaxParameters \in Byte
  /\ \A b \in Byte : b \in Nat /\ b <= 255
<1>1. {MaxConstants, MaxImports, MaxFunctions, MaxParameters} \subseteq Byte
  BY LoaderAssumption
<1>2. \A b \in Byte : b \in Nat /\ b <= 255
  BY DEF Byte
<1>. QED
  BY <1>1, <1>2

LEMMA NothingLoaded ==
  /\ NoProgram \in Program
  /\ \A t \in Tables : NoProgram.offsets[t] = <<>> /\ NoProgram.count[t] = 0
  /\ NoProgram.names = <<>> /\ NoProgram.import_map = <<>>
<1>1. [t \in Tables |-> 0] \in [Tables -> Byte]
  BY DEF Byte
<1>2. [t \in Tables |-> <<>>] \in [Tables -> Seq(Nat)]
  OBVIOUS
<1>3. [k \in 0..MaxFunctions - 1 |-> 0] \in [0..MaxFunctions - 1 -> Byte]
  BY DEF Byte
<1>4. <<>> \in Seq(Name) /\ <<>> \in Seq(Nat) /\ {} \in SUBSET Group
  OBVIOUS
<1>. QED
  BY <1>1, <1>2, <1>3, <1>4 DEF NoProgram, Program

LEMMA NothingFound ==
  /\ NoSections \in [CriticalSections -> Sections]
  /\ \A type \in CriticalSections : ~NoSections[type].present /\ NoSections[type].length = 0
<1>1. 0 \in 0..Words32 - 1
  BY Words32Assumption
<1>. QED
  BY <1>1 DEF NoSections, Sections

(* Tables that hold nothing. *)
LEMMA EmptyTables ==
  ASSUME program = NoProgram, sections = NoSections, host \in Seq(HostEntry)
  PROVE  TablesInv
<1>1. MaxConstants \in Nat /\ MaxImports \in Nat /\ MaxFunctions \in Nat
  BY Limits
<1>2. CNST \in Tables /\ HOST \in Tables /\ ENTR \in Tables
  BY SectionsDiffer
<1>3. Len(<<>>) = 0 /\ DOMAIN <<>> = {}
  OBVIOUS
<1>. QED
  BY <1>1, <1>2, <1>3, NothingLoaded DEF TablesInv

LEMMA InitKeeps ==
  LoaderInit => LoaderInv
<1>. SUFFICES ASSUME LoaderInit PROVE LoaderInv
  OBVIOUS
<1>. USE DEF LoaderInit
<1>1. IsFile(image)
  BY FilesAssumption
<1>2. FileInv
  BY <1>1 DEF FileInv
<1>3. StageInv
  BY DEF StageInv, Stages, Passed, Walked
<1>4. SectionsInv
  BY NothingFound DEF SectionsInv, Walked
<1>5. TablesInv
  BY EmptyTables
<1>6. TurnInv
  BY NothingLoaded, SectionsDiffer DEF TurnInv, ToCome, Done
<1>7. StaysInBuffer
  BY DEF StaysInBuffer
<1>. QED
  BY <1>2, <1>3, <1>4, <1>5, <1>6, <1>7 DEF LoaderInv

-----------------------------------------------------------------------------
(* Delivery.  What is cut is shorter than its header says, and what is      *)
(* flipped has no checksum.                                                 *)
LEMMA EncodedLength ==
  ASSUME NEW c \in Sources
  PROVE  /\ IsFile(Encode(c)) /\ Encode(c).held = HeaderSize
         /\ Encode(c).total_length = Length(Encode(c))
<1>1. IsFile(Encode(c))
  BY FilesAssumption
<1>. QED
  BY <1>1 DEF Encode, Length

LEMMA CutIsShort ==
  ASSUME IsFile(image), image.held = HeaderSize, image.total_length = Length(image),
         NEW length \in 0..Length(image) - 1
  PROVE  IsFile(Cut(length)) /\ Cut(length).total_length # Length(Cut(length))
<1>6. length + 8 <= SizeT
  <2>1. PICK n \in Nat : n = Length(image) /\ n + 8 <= SizeT
    BY FileShape
  <2>. QED
    BY <2>1, SizeAssumption
<1>. PICK n \in Nat : n = Len(image.body)
  BY FileShape
<1>1. image.body \in Seq(Byte) /\ length \in 0..28 + n - 1 /\ length \in Nat
  BY FileShape DEF HeaderSize
<1>2. Cut(length) = [image EXCEPT !.held = Min({length, HeaderSize}),
                                  !.body = SubSeq(image.body, 1, length - HeaderSize)]
  BY DEF Cut
<1>3. image \in File
  BY DEF IsFile
<1>4. CASE length <= HeaderSize
  <2>1. Min({length, HeaderSize}) = length
    BY <1>1, <1>4 DEF Min, HeaderSize
  <2>2. SubSeq(image.body, 1, length - HeaderSize) = <<>>
    BY <1>1, <1>4, SubSeqProperties DEF HeaderSize
  <2>3. Cut(length) = [image EXCEPT !.held = length, !.body = <<>>]
    BY <1>2, <2>1, <2>2
  <2>4. length \in 0..HeaderSize
    BY <1>1, <1>4 DEF HeaderSize
  <2>5. <<>> \in Seq(Byte) /\ Len(<<>>) = 0
    OBVIOUS
  <2>6. Cut(length) \in File /\ Cut(length).held = length /\ Cut(length).body = <<>>
        /\ Cut(length).total_length = image.total_length
    BY <1>3, <2>3, <2>4, <2>5 DEF File
  <2>7. Length(Cut(length)) = length
    BY <1>1, <2>5, <2>6 DEF Length
  <2>8. IsFile(Cut(length))
    BY <1>6, <2>6, <2>7 DEF IsFile
  <2>. QED
    BY <2>6, <2>7, <2>8, <1>1, FileShape
<1>5. CASE length > HeaderSize
  <2>1. Min({length, HeaderSize}) = HeaderSize
    BY <1>1, <1>5 DEF Min, HeaderSize
  <2>2. PICK m \in Nat : m = length - HeaderSize /\ m <= n
    BY <1>1, <1>5 DEF HeaderSize
  <2>3. SubSeq(image.body, 1, m) \in Seq(Byte) /\ Len(SubSeq(image.body, 1, m)) = m
    BY <1>1, <2>2, Prefix
  <2>4. Cut(length) = [image EXCEPT !.held = HeaderSize, !.body = SubSeq(image.body, 1, m)]
    BY <1>2, <2>1, <2>2
  <2>5. HeaderSize \in 0..HeaderSize
    BY DEF HeaderSize
  <2>6. Cut(length) \in File /\ Cut(length).held = HeaderSize
        /\ Cut(length).body = SubSeq(image.body, 1, m)
        /\ Cut(length).total_length = image.total_length
    <3>. PICK cut : cut = SubSeq(image.body, 1, m)
      OBVIOUS
    <3>1. cut \in Seq(Byte) /\ Cut(length) = [image EXCEPT !.held = HeaderSize, !.body = cut]
      BY <2>3, <2>4
    <3>2. /\ Cut(length) \in File /\ Cut(length).held = HeaderSize
          /\ Cut(length).body = cut /\ Cut(length).total_length = image.total_length
      BY <1>3, <3>1, <2>5 DEF File
    <3>. QED
      BY <3>2
  <2>7. Length(Cut(length)) = HeaderSize + m
    BY <2>3, <2>6 DEF Length
  <2>8. HeaderSize + m = length
    BY <1>1, <2>2 DEF HeaderSize
  <2>9. IsFile(Cut(length))
    BY <1>6, <2>6, <2>7, <2>8 DEF IsFile, HeaderSize
  <2>. QED
    BY <2>6, <2>7, <2>8, <2>9, <1>1, FileShape
<1>. QED
  BY <1>1, <1>4, <1>5 DEF HeaderSize

LEMMA FlippedIsFile ==
  ASSUME IsFile(image), NEW at \in DOMAIN image.body, NEW byte \in Byte
  PROVE  IsFile(Flipped(at, byte)) /\ ~Flipped(at, byte).checksum_matches
<1>1. image.body \in Seq(Byte) /\ image \in File
  BY DEF IsFile, File
<1>2. at \in 1..Len(image.body)
  BY <1>1, LenProperties
<1>3. /\ [image.body EXCEPT ![at] = byte] \in Seq(Byte) /\ image.body # <<>>
      /\ Len([image.body EXCEPT ![at] = byte]) = Len(image.body)
  BY <1>1, <1>2, ExceptSeq, EmptySeq
<1>4. Flipped(at, byte) = [image EXCEPT !.body = [image.body EXCEPT ![at] = byte],
                                        !.checksum_matches = FALSE]
  BY <1>1 DEF Flipped, File
<1>5. Flipped(at, byte) \in File /\ Flipped(at, byte).held = image.held
      /\ ~Flipped(at, byte).checksum_matches
  BY <1>1, <1>3, <1>4 DEF File
<1>6. ~(image.held < HeaderSize) /\ Length(image) + 8 <= SizeT
  BY <1>3 DEF IsFile
<1>7. Length(Flipped(at, byte)) = Length(image)
  BY <1>1, <1>3, <1>4 DEF Length, File
<1>. QED
  BY <1>5, <1>6, <1>7 DEF IsFile

LEMMA DeliverKeeps ==
  ASSUME LoaderInv, Deliver
  PROVE  LoaderInv'
<1>. USE DEF Deliver
<1>1. stage = "encoded" /\ image = Encode(source) /\ source \in Sources
  BY DEF DeliverIntact, DeliverCut, DeliverFlipped, DeliverWritten,
         LoaderInv, StageInv, FileInv
<1>2. IsFile(image) /\ image.held = HeaderSize /\ image.total_length = Length(image)
  BY <1>1, EncodedLength
<1>3. /\ IsFile(image')
      /\ delivery' \in {"intact", "cut", "flipped", "written"}
      /\ delivery' = "cut" => image'.total_length # Length(image')
      /\ delivery' = "flipped" => ~image'.checksum_matches
  <2>1. CASE DeliverIntact
    BY <2>1, <1>2 DEF DeliverIntact
  <2>2. CASE DeliverCut
    <3>1. PICK length \in 0..Length(image) - 1 : image' = Cut(length)
      BY <2>2 DEF DeliverCut
    <3>2. IsFile(Cut(length)) /\ Cut(length).total_length # Length(Cut(length))
      BY <1>2, CutIsShort
    <3>. QED
      BY <2>2, <3>1, <3>2 DEF DeliverCut
  <2>3. CASE DeliverFlipped
    <3>1. PICK at \in DOMAIN image.body : image' = Flipped(at, (image.body[at] + 1) % 256)
      BY <2>3 DEF DeliverFlipped
    <3>2. image.body[at] \in Byte
      BY <1>2, FileShape, LenProperties, ElementOfSeq
    <3>3. (image.body[at] + 1) % 256 \in Byte
      BY <3>2 DEF Byte
    <3>4. IsFile(image') /\ ~image'.checksum_matches
      BY <1>2, <3>1, <3>3, FlippedIsFile
    <3>. QED
      BY <2>3, <3>4 DEF DeliverFlipped
  <2>4. CASE DeliverWritten
    BY <2>4, <1>1, FilesAssumption DEF DeliverWritten
  <2>. QED
    BY <2>1, <2>2, <2>3, <2>4
<1>4. /\ stage' = "header" /\ program' = NoProgram /\ refusal' = "ok"
      /\ decoded' = DecodeOf(image')
      /\ UNCHANGED <<source, sections, table, offset, host>>
  OBVIOUS
<1>5. FileInv'
  BY <1>1, <1>3, <1>4 DEF FileInv
<1>6. StageInv'
  BY <1>3, <1>4 DEF StageInv, Stages, Passed, Walked
<1>7. sections = NoSections /\ offset \in Nat /\ table = CNST /\ host \in Seq(HostEntry)
  BY <1>1 DEF LoaderInv, SectionsInv, TablesInv, TurnInv
<1>8. SectionsInv'
  BY <1>4, <1>7, NothingFound DEF SectionsInv, Walked
<1>9. TablesInv'
  <2>. USE DEF TablesInv, EntryHeld, NameHeld
  <2>1. CNST \in Tables /\ HOST \in Tables /\ ENTR \in Tables
    BY SectionsDiffer
  <2>2. Len(<<>>) = 0 /\ DOMAIN <<>> = {}
    OBVIOUS
  <2>. QED
    BY <1>4, <1>7, <2>1, <2>2, Limits, NothingLoaded
<1>10. TurnInv'
  BY <1>4, <1>7, NothingLoaded, SectionsDiffer DEF TurnInv, ToCome, Done
<1>11. StaysInBuffer'
  BY <1>4 DEF StaysInBuffer
<1>. QED
  BY <1>5, <1>6, <1>8, <1>9, <1>10, <1>11 DEF LoaderInv

-----------------------------------------------------------------------------
(* The header.  One that is taken has all of its bytes. *)
LEMMA HeaderTaken ==
  ASSUME IsFile(image), HeaderRefusal = "none"
  PROVE  /\ Length(image) >= HeaderSize /\ image.held = HeaderSize
         /\ image.total_length = Length(image)
         /\ image.checksum_matches
<1>1. ~(Length(image) < HeaderSize) /\ image.total_length = Length(image)
      /\ image.checksum_matches
  BY DEF HeaderRefusal
<1>2. Length(image) >= HeaderSize
  BY <1>1, FileShape DEF HeaderSize
<1>. QED
  BY <1>1, <1>2, FileShape

LEMMA HeaderKeeps ==
  ASSUME LoaderInv, Header
  PROVE  LoaderInv'
<1>1. stage = "header" /\ HeaderRefusal # "ok" /\ HeaderRefusal # "stray"
  BY DEF Header, HeaderRefusal
<1>2. CASE HeaderRefusal # "none"
  <2>1. End(HeaderRefusal)
    BY <1>2 DEF Header
  <2>. QED
    BY <1>1, <2>1, EndKeeps
<1>3. CASE HeaderRefusal = "none"
  <2>1. /\ program' = [program EXCEPT !.required_groups = image.required_groups]
        /\ stage' = "sections" /\ offset' = HeaderSize
        /\ UNCHANGED <<source, image, delivery, decoded, refusal, sections, table, host>>
    BY <1>3 DEF Header, fileVars
  <2>2. FileInv'
    BY <2>1 DEF LoaderInv, FileInv, Length
  <2>3. StageInv'
    BY <1>1, <1>3, <2>1 DEF LoaderInv, StageInv, Stages, Passed, Walked, HeaderRefusal, Length
  <2>4. SectionsInv'
    <3>1. sections = NoSections
      BY <1>1 DEF LoaderInv, SectionsInv
    <3>. QED
      BY <2>1, <3>1, NothingFound DEF SectionsInv, Walked, HeaderSize
  <2>5. /\ program' \in Program
        /\ program'.count = program.count /\ program'.offsets = program.offsets
        /\ program'.names = program.names /\ program'.import_map = program.import_map
    <3>1. image.required_groups \in SUBSET Group
      BY DEF LoaderInv, FileInv, IsFile, File
    <3>2. program \in Program
      BY DEF LoaderInv, TablesInv
    <3>. QED
      BY <2>1, <3>1, <3>2 DEF Program
  <2>6. TablesInv'
    BY <2>1, <2>5, ZenonT(40)
      DEF LoaderInv, TablesInv, EntryHeld, SizeAt, ByteAt, Fixed, Held, Length, NameHeld
  <2>7. TurnInv'
    BY <1>1, <2>1, <2>5 DEF LoaderInv, TurnInv, ToCome, Done
  <2>8. StaysInBuffer'
    BY <2>1 DEF StaysInBuffer
  <2>. QED
    BY <2>2, <2>3, <2>4, <2>6, <2>7, <2>8 DEF LoaderInv
<1>. QED
  BY <1>2, <1>3

-----------------------------------------------------------------------------
(* The section walk. *)
LEMMA PaddedSize ==
  ASSUME NEW size \in 0..Words32 - 1
  PROVE  /\ (size + Padding(size)) % Words32 \in 0..Words32 - 1
         /\ ~Lost(size) => /\ (size + Padding(size)) % Words32 = size + Padding(size)
                          /\ 8 + size + Padding(size) < SizeT
<1>1. PICK p \in 0..3 : p = Padding(size)
  BY PaddingRange
<1>2. Words32 \in Nat \ {0} /\ size \in Nat
  BY Words32Assumption
<1>3. (size + p) % Words32 \in 0..Words32 - 1
  BY <1>2, Division
<1>4. ~Lost(size) => size + p \in 0..Words32 - 1 /\ 8 + size + p < SizeT
  BY <1>1, <1>2, SizeAssumption DEF Lost
<1>5. size + p \in 0..Words32 - 1 => (size + p) % Words32 = size + p
  BY <1>2, WordItself
<1>. QED
  BY <1>1, <1>3, <1>4, <1>5

(* A section the walk takes lies in the file. *)
LEMMA SectionTaken ==
  ASSUME IsFile(image), image.held = HeaderSize, offset \in Nat, offset >= HeaderSize,
         SectionOutcome = "none"
  PROVE  /\ Word32(offset + 4) \in 0..Words32 - 1
         /\ Ahead \in Nat /\ offset <= Ahead
         /\ Lost(Word32(offset + 4)) \/ Held(offset + 8, Word32(offset + 4))
<1>. PICK n \in Nat, w \in Nat : n = Length(image) /\ w = SizeT /\ n + 8 <= w
  BY FileShape, SizeAssumption
<1>1. ~(offset + 8 > n) /\ ~(Ahead > n) /\ ~(Ahead < offset)
  BY DEF SectionOutcome
<1>2. offset + 8 <= n /\ offset + 4 \in Nat /\ offset + 4 >= HeaderSize
      /\ (offset + 4) + 4 <= n
  BY <1>1 DEF HeaderSize
<1>3. Word32(offset + 4) \in 0..Words32 - 1
  BY <1>2, ReadWord32
<1>4. PICK size \in 0..Words32 - 1 : size = Word32(offset + 4)
  BY <1>3
<1>5. Padded = (size + Padding(size)) % Words32
  BY <1>4 DEF Padded
<1>6. Padded \in 0..Words32 - 1
  BY <1>5, PaddedSize
<1>7. Padded \in Nat
  BY <1>6, Words32Assumption
<1>8. ~Lost(size) => Padded = size + Padding(size) /\ 8 + size + Padding(size) < w
  BY <1>5, PaddedSize
<1>9. PICK q \in Nat, p \in 0..3 : q = Padded /\ p = Padding(size)
  BY <1>7, PaddingRange
<1>10. PICK a \in Nat : a = Ahead /\ a = (offset + 8 + q) % w
  <2>1. offset + 8 + q \in Int /\ w \in Nat \ {0}
    OBVIOUS
  <2>2. (offset + 8 + q) % w \in 0..w - 1
    BY <2>1, Division
  <2>. QED
    BY <1>9, <2>2 DEF Ahead
<1>11. offset <= a /\ a <= n
  BY <1>1, <1>10
<1>12. size \in Nat
  BY Words32Assumption
<1>13. ASSUME ~Lost(size) PROVE (offset + 8) + size <= n
  <2>1. q = size + p /\ 8 + q < w
    BY <1>8, <1>9, <1>12, <1>13
  <2>2. CASE offset + 8 + q < w
    <3>1. a = offset + 8 + q
      BY <1>10, <2>2, WordItself
    <3>. QED
      BY <1>11, <1>12, <2>1, <3>1
  <2>3. CASE ~(offset + 8 + q < w)
    <3>1. PICK r \in Nat : r = offset + 8 + q - w /\ r < offset
      BY <2>1, <2>3
    <3>2. r \in 0..w - 1 /\ offset + 8 + q = w * 1 + r
      BY <1>2, <3>1
    <3>3. (offset + 8 + q) % w = r
      BY <3>2, Residue
    <3>. QED
      BY <1>10, <1>11, <3>1, <3>3
  <2>. QED
    BY <2>2, <2>3
<1>. QED
  BY <1>3, <1>4, <1>10, <1>11, <1>13 DEF Held

LEMMA WalkKeeps ==
  ASSUME LoaderInv, WalkSection
  PROVE  LoaderInv'
<1>1. stage = "sections" /\ SectionOutcome # "ok" /\ SectionOutcome # "stray"
  BY DEF WalkSection, SectionOutcome
<1>2. CASE SectionOutcome # "none"
  <2>1. End(SectionOutcome)
    BY <1>2 DEF WalkSection
  <2>. QED
    BY <1>1, <2>1, EndKeeps
<1>3. CASE SectionOutcome = "none"
  <2>. DEFINE type  == Slice(image.body, offset - HeaderSize, 4)
              found == [present |-> TRUE, data |-> offset + 8, length |-> Word32(offset + 4)]
  <2>1. /\ sections' = IF type \in CriticalSections
                       THEN [sections EXCEPT ![type] = found] ELSE sections
        /\ offset' = Ahead
        /\ UNCHANGED <<source, image, delivery, decoded, stage, refusal, table, program, host>>
    BY <1>3 DEF WalkSection, fileVars
  <2>2. /\ IsFile(image) /\ image.held = HeaderSize /\ offset \in Nat /\ offset >= HeaderSize
    BY <1>1, HeaderTaken DEF LoaderInv, FileInv, StageInv, Passed, SectionsInv
  <2>3. /\ Word32(offset + 4) \in 0..Words32 - 1 /\ Ahead \in Nat /\ offset <= Ahead
        /\ Lost(Word32(offset + 4)) \/ Held(offset + 8, Word32(offset + 4))
    BY <1>3, <2>2, SectionTaken
  <2>4. FileInv'
    BY <2>1 DEF LoaderInv, FileInv, Length
  <2>5. StageInv'
    BY <2>1 DEF LoaderInv, StageInv, HeaderRefusal, Length
  <2>6. found \in Sections
    BY <2>2, <2>3 DEF Sections
  <2>7. found.data >= HeaderSize + 8
        /\ (Lost(found.length) \/ found.data + found.length <= Length(image))
    BY <2>2, <2>3 DEF Held, HeaderSize
  <2>8. offset' \in Nat /\ offset' >= HeaderSize
    BY <2>1, <2>2, <2>3 DEF HeaderSize
  <2>9. /\ sections \in [CriticalSections -> Sections]
        /\ \A t \in CriticalSections : sections[t].present => SectionHeld(t)
    BY DEF LoaderInv, SectionsInv
  <2>. HIDE DEF type, found
  <2>10. SectionsInv'
    <3>1. sections' \in [CriticalSections -> Sections]
      BY <2>1, <2>6, <2>9
    <3>2. \A t \in CriticalSections : sections'[t] = sections[t] \/ sections'[t] = found
      BY <2>1, <2>9
    <3>3. \A t \in CriticalSections : (sections[t].present => SectionHeld(t))'
      BY <2>1, <2>2, <2>7, <2>9, <3>2 DEF SectionHeld, Overlong, Held, Length
    <3>. QED
      BY <1>1, <2>1, <2>8, <3>1, <3>3 DEF SectionsInv, Walked
  <2>11. TablesInv'
    <3>1. \A t \in Tables : program.offsets[t] = <<>>
      BY <1>1 DEF LoaderInv, TurnInv, ToCome
    <3>2. program.names = <<>>
      BY <1>1 DEF LoaderInv, TurnInv
    <3>3. DOMAIN <<>> = {}
      OBVIOUS
    <3>. QED
      BY <2>1, <3>1, <3>2, <3>3 DEF LoaderInv, TablesInv
  <2>12. TurnInv'
    BY <1>1, <2>1 DEF LoaderInv, TurnInv, ToCome, Done
  <2>13. StaysInBuffer'
    BY <1>1, <2>1 DEF StaysInBuffer
  <2>. QED
    BY <2>4, <2>5, <2>10, <2>11, <2>12, <2>13 DEF LoaderInv
<1>. QED
  BY <1>2, <1>3

LEMMA EndSectionsKeeps ==
  ASSUME LoaderInv, EndSections
  PROVE  LoaderInv'
<1>1. stage = "sections"
  BY DEF EndSections
<1>2. CASE \E type \in CriticalSections : ~sections[type].present
  <2>1. End("missing_section")
    BY <1>2 DEF EndSections
  <2>. QED
    BY <1>1, <2>1, EndKeeps
<1>3. CASE \A type \in CriticalSections : sections[type].present
  <2>1. /\ stage' = "count" /\ table' = CNST
        /\ UNCHANGED <<source, image, delivery, decoded, refusal, sections, offset, program, host>>
    BY <1>3 DEF EndSections, fileVars
  <2>2. FileInv'
    BY <2>1 DEF LoaderInv, FileInv, Length
  <2>3. StageInv'
    BY <1>1, <2>1 DEF LoaderInv, StageInv, Stages, Passed, Walked, HeaderRefusal, Length
  <2>4. SectionsInv'
    BY <1>3, <2>1 DEF LoaderInv, SectionsInv, SectionHeld, Overlong, Held, Length
  <2>5. TablesInv'
    BY <2>1, ZenonT(40)
      DEF LoaderInv, TablesInv, EntryHeld, SizeAt, ByteAt, Fixed, Held, Length, NameHeld
  <2>6. TurnInv'
    <3>1. \A t \in Tables : program.offsets[t] = <<>>
      BY <1>1 DEF LoaderInv, TurnInv, ToCome
    <3>2. program.names = <<>> /\ program.import_map = <<>>
      BY <1>1 DEF LoaderInv, TurnInv
    <3>3. \A t \in Tables : ~(Turn(t) < Turn(CNST))
      BY DEF Turn
    <3>. QED
      BY <2>1, <3>1, <3>2, <3>3, SectionsDiffer DEF TurnInv, ToCome, Done, Turn
  <2>7. StaysInBuffer'
    BY <2>1 DEF StaysInBuffer
  <2>. QED
    BY <2>2, <2>3, <2>4, <2>5, <2>6, <2>7 DEF LoaderInv
<1>. QED
  BY <1>2, <1>3

-----------------------------------------------------------------------------
(* The tables. *)
LEMMA PastTheWalk ==
  ASSUME LoaderInv, stage \in Walked
  PROVE  /\ IsFile(image) /\ image.held = HeaderSize /\ Length(image) \in Nat
         /\ \A type \in CriticalSections :
              /\ sections[type].present /\ sections[type].data \in Nat
              /\ sections[type].data >= HeaderSize + 8
              /\ sections[type].length \in Nat
              /\ Overlong(type) \/ Held(sections[type].data, sections[type].length)
         /\ Tables \subseteq CriticalSections
<1>1. IsFile(image) /\ image.held = HeaderSize
  BY HeaderTaken DEF LoaderInv, FileInv, StageInv, Passed
<1>2. \A type \in CriticalSections : sections[type].present /\ sections[type] \in Sections
  BY DEF LoaderInv, SectionsInv
<1>3. \A type \in CriticalSections : SectionHeld(type)
  BY <1>2 DEF LoaderInv, SectionsInv
<1>4. \A type \in CriticalSections :
        sections[type].data \in Nat /\ sections[type].length \in Nat
  BY <1>2, Words32Assumption DEF Sections
<1>. QED
  BY <1>1, <1>2, <1>3, <1>4, FileShape DEF SectionHeld, Tables

(* A byte past the end of the file that is inside the section. *)
LEMMA OutOfAnOverlong ==
  ASSUME LoaderInv, stage \in Walked, NEW type \in CriticalSections,
         NEW at \in Nat, NEW n \in Nat, at + n <= sections[type].length,
         ~Held(sections[type].data + at, n)
  PROVE  \E t \in CriticalSections : Overlong(t)
<1>1. sections[type].data \in Nat /\ sections[type].length \in Nat /\ Length(image) \in Nat
      /\ (Overlong(type) \/ Held(sections[type].data, sections[type].length))
  BY PastTheWalk
<1>2. ~Held(sections[type].data, sections[type].length)
  BY <1>1 DEF Held
<1>. QED
  BY <1>1, <1>2

LEMMA CountKeeps ==
  ASSUME LoaderInv, Count
  PROVE  LoaderInv'
<1>1. stage = "count" /\ stage \in Walked /\ CountOutcome # "ok"
      /\ table \in Tables /\ table \in CriticalSections
  BY DEF Count, CountOutcome, Walked, LoaderInv, TurnInv, Tables
<1>2. /\ IsFile(image) /\ image.held = HeaderSize
      /\ Data \in Nat /\ Data >= HeaderSize /\ DataLength \in Nat
      /\ \A type \in CriticalSections : sections[type].present
  BY <1>1, PastTheWalk DEF Data, DataLength, HeaderSize
<1>3. CASE CountOutcome # "none"
  <2>1. End(CountOutcome)
    BY <1>3 DEF Count
  <2>2. ASSUME CountOutcome = "stray"
        PROVE  \E type \in CriticalSections : Overlong(type)
    <3>1. ~(DataLength < 1) /\ ~Held(Data, 1)
      BY <2>2 DEF CountOutcome
    <3>2. 0 + 1 <= DataLength /\ ~Held(Data + 0, 1)
      BY <1>2, <3>1
    <3>. QED
      BY <1>1, <3>2, OutOfAnOverlong DEF Data, DataLength
  <2>. QED
    BY <1>1, <1>2, <2>1, <2>2, EndKeeps DEF Passed
<1>4. CASE CountOutcome = "none"
  <2>1. /\ program' = [program EXCEPT !.count[table] = ByteAt(Data)]
        /\ offset' = 1 /\ stage' = "entries"
        /\ UNCHANGED <<source, image, delivery, decoded, refusal, sections, table, host>>
    BY <1>4 DEF Count, fileVars
  <2>2. ~(DataLength < 1) /\ Held(Data, 1) /\ ~(ByteAt(Data) > Limit)
    BY <1>4 DEF CountOutcome
  <2>3. ByteAt(Data) \in Byte
    BY <1>2, <2>2, ReadByte DEF Held
  <2>4. /\ table = CNST => ByteAt(Data) <= MaxConstants
        /\ table = HOST => ByteAt(Data) <= MaxImports
        /\ table = ENTR => ByteAt(Data) <= MaxFunctions
    <3>1. /\ table = CNST => Limit = MaxConstants
          /\ table = HOST => Limit = MaxImports
          /\ table = ENTR => Limit = MaxFunctions
      BY SectionsDiffer DEF Limit
    <3>. QED
      BY <2>2, <2>3, <3>1, Limits
  <2>5. program \in Program /\ program.count \in [Tables -> Byte]
    BY DEF LoaderInv, TablesInv, Program
  <2>6. /\ program' \in Program
        /\ program'.count = [program.count EXCEPT ![table] = ByteAt(Data)]
        /\ program'.offsets = program.offsets
        /\ program'.names = program.names /\ program'.import_map = program.import_map
    <3>1. [program.count EXCEPT ![table] = ByteAt(Data)] \in [Tables -> Byte]
      BY <2>3, <2>5
    <3>2. program' = [program EXCEPT !.count = [program.count EXCEPT ![table] = ByteAt(Data)]]
      BY <2>1, <2>5 DEF Program
    <3>. QED
      BY <2>5, <3>1, <3>2 DEF Program
  <2>7. /\ program.offsets[table] = <<>> /\ program.names = <<>> /\ program.import_map = <<>>
        /\ \A t \in Tables : ToCome(t) => program.offsets[t] = <<>>
        /\ \A t \in Tables : Done(t) => Len(program.offsets[t]) = program.count[t]
    BY <1>1 DEF LoaderInv, TurnInv, ToCome, Turn
  <2>8. FileInv'
    BY <2>1 DEF LoaderInv, FileInv, Length
  <2>9. StageInv'
    BY <1>1, <2>1 DEF LoaderInv, StageInv, Stages, Passed, Walked, HeaderRefusal, Length
  <2>10. SectionsInv'
    BY <1>2, <2>1 DEF LoaderInv, SectionsInv, SectionHeld, Overlong, Held, Length
  <2>11. TablesInv'
    <3>1. \A t \in Tables : program'.count[t] = IF t = table THEN ByteAt(Data) ELSE program.count[t]
      BY <2>5, <2>6
    <3>2. CNST \in Tables /\ HOST \in Tables /\ ENTR \in Tables
      BY SectionsDiffer
    <3>3. Len(<<>>) = 0 /\ DOMAIN <<>> = {} /\ \A b \in Byte : 0 <= b
      BY DEF Byte
    <3>4. /\ program'.count[CNST] <= MaxConstants
          /\ program'.count[HOST] <= MaxImports
          /\ program'.count[ENTR] <= MaxFunctions
      BY <2>4, <3>1, <3>2 DEF LoaderInv, TablesInv
    <3>5. \A t \in Tables : Len(program'.offsets[t]) <= program'.count[t]
      BY <2>3, <2>6, <2>7, <3>1, <3>3 DEF LoaderInv, TablesInv
    <3>6. program'.count[ENTR] \in Byte /\ program'.count[HOST] \in Byte
      BY <2>6, <3>2 DEF Program
    <3>7. /\ Len(program'.names) <= program'.count[ENTR]
          /\ Len(program'.import_map) <= program'.count[HOST]
      BY <2>6, <2>7, <3>3, <3>6
    <3>8. (\A t \in Tables : \A i \in DOMAIN program.offsets[t] : EntryHeld(t, program.offsets[t][i]))'
      BY <2>1, <2>6, ZenonT(40)
        DEF LoaderInv, TablesInv, EntryHeld, SizeAt, ByteAt, Fixed, Held, Length
    <3>9. DOMAIN program'.names = {}
      BY <2>6, <2>7, <3>3
    <3>. QED
      BY <2>1, <2>6, <3>4, <3>5, <3>7, <3>8, <3>9 DEF LoaderInv, TablesInv
  <2>12. TurnInv'
    <3>1. \A t \in Tables : ToCome(t)' => ToCome(t)
      BY <1>1, <2>1, SectionsDiffer DEF ToCome, Turn
    <3>2. \A t \in Tables : Done(t)' => Done(t) /\ t # table
      BY <1>1, <2>1, SectionsDiffer DEF Done, Turn
    <3>3. \A t \in Tables : t # table => program'.count[t] = program.count[t]
      BY <2>5, <2>6
    <3>4. DataLength' = DataLength
      BY <2>1 DEF DataLength
    <3>5. 1 <= offset' /\ offset' <= DataLength'
      BY <1>2, <2>1, <2>2, <3>4
    <3>6. table # ENTR => offset' <= 1 + Len(program'.offsets[table]) * Widest(table)
      <4>1. Widest(table) \in Nat
        BY Limits DEF Widest
      <4>2. Len(program'.offsets[table]) = 0
        BY <2>6, <2>7
      <4>. QED
        BY <2>1, <4>1, <4>2
    <3>. QED
      BY <1>1, <2>1, <2>6, <2>7, <3>1, <3>2, <3>3, <3>5, <3>6 DEF TurnInv
  <2>13. StaysInBuffer'
    BY <2>1 DEF StaysInBuffer
  <2>. QED
    BY <2>8, <2>9, <2>10, <2>11, <2>12, <2>13 DEF LoaderInv
<1>. QED
  BY <1>3, <1>4

(* An entry that is read lies in its section, and is as wide as it says. *)
LEMMA EntryRead ==
  ASSUME LoaderInv, stage = "entries"
  PROVE  /\ EntryOutcome # "ok"
         /\ EntryOutcome = "stray" => \E type \in CriticalSections : Overlong(type)
         /\ EntryOutcome = "none" =>
              /\ EntrySize \in Nat /\ EntrySize >= 1
              /\ EntryHeld(table, offset)
              /\ offset + EntrySize <= DataLength
              /\ table # ENTR => EntrySize <= Widest(table)
<1>1. /\ stage \in Walked /\ table \in CriticalSections /\ table \in {CNST, ENTR, HOST}
      /\ offset \in Nat /\ 1 <= offset
  BY SectionsDiffer DEF Walked, LoaderInv, TurnInv, SectionsInv, Tables
<1>2. /\ IsFile(image) /\ image.held = HeaderSize
      /\ Data \in Nat /\ Data >= HeaderSize /\ DataLength \in Nat
      /\ Length(image) \in Nat /\ sections[table].present
  BY <1>1, PastTheWalk DEF Data, DataLength, HeaderSize
<1>. PICK n \in Nat, d \in Nat, l \in Nat : n = Length(image) /\ d = Data /\ l = DataLength
  BY <1>2
<1>3. \A k \in Nat : offset + k <= l /\ ~Held(d + offset, k) =>
        \E type \in CriticalSections : Overlong(type)
  BY <1>1, OutOfAnOverlong DEF Data, DataLength
<1>4. \A k \in Nat : (d + offset) + k + 1 <= n => ByteAt((d + offset) + k) \in Byte
  <2>. TAKE k \in Nat
  <2>1. (d + offset) + k \in Nat /\ (d + offset) + k >= HeaderSize
    BY <1>1, <1>2 DEF HeaderSize
  <2>. QED
    BY <1>2, <2>1, ReadByte
<1>5. \A b \in Byte : b \in Nat
  BY Limits
<1>6. CASE table = CNST
  <2>1. EntryOutcome = ConstantOutcome /\ EntrySize = 1 + Width(ByteAt(d + offset))
        /\ Fixed(table) = 1 /\ SizeAt(table, d + offset) = 1 + Width(ByteAt(d + offset))
        /\ Widest(table) = 9
    BY <1>6, SectionsDiffer DEF EntryOutcome, EntrySize, Fixed, SizeAt, Widest
  <2>2. ConstantOutcome = "stray" => ~(offset >= l) /\ ~Held(d + offset, 1)
    BY DEF ConstantOutcome
  <2>3. ConstantOutcome = "none" =>
          /\ ~(offset >= l) /\ Held(d + offset, 1)
          /\ ~(offset + 1 + Width(ByteAt(d + offset)) > l)
    BY DEF ConstantOutcome
  <2>4. Width(ByteAt(d + offset)) \in {4, 8}
    BY DEF Width
  <2>5. ~(offset >= l) => offset + 1 <= l
    BY <1>1
  <2>6. ConstantOutcome # "ok"
    BY DEF ConstantOutcome
  <2>7. PICK w \in {4, 8} : w = Width(ByteAt(d + offset))
    BY <2>4
  <2>8. ConstantOutcome = "none" => offset + (1 + w) <= l
    BY <1>1, <2>3, <2>7
  <2>9. EntrySize \in Nat /\ EntrySize >= 1 /\ EntrySize <= 9
    BY <2>1, <2>7
  <2>. QED
    BY <1>1, <1>2, <1>3, <2>1, <2>2, <2>3, <2>5, <2>6, <2>7, <2>8, <2>9
    DEF EntryHeld, Data, DataLength
<1>7. CASE table = HOST
  <2>. DEFINE b == ByteAt((d + offset) + 9)
  <2>0. ByteAt(d + offset + 9) = b
    BY <1>1
  <2>1. EntryOutcome = ImportOutcome /\ EntrySize = 10 + b
        /\ Fixed(table) = 10 /\ SizeAt(table, d + offset) = 10 + b
        /\ Widest(table) = 10 + MaxParameters
    BY <1>7, <2>0, SectionsDiffer DEF EntryOutcome, EntrySize, Fixed, SizeAt, Widest
  <2>2. ImportOutcome = "stray" => ~(offset + 10 > l) /\ ~Held(d + offset, 10)
    BY DEF ImportOutcome
  <2>3. ImportOutcome = "none" =>
          /\ ~(offset + 10 > l) /\ Held(d + offset, 10)
          /\ ~(offset + 10 + b > l) /\ ~(b > MaxParameters)
    BY <2>0 DEF ImportOutcome
  <2>4. Held(d + offset, 10) => b \in Nat
    BY <1>1, <1>4, <1>5 DEF Held
  <2>5. ~(offset + 10 > l) => offset + 10 <= l
    BY <1>1
  <2>6. ImportOutcome # "ok"
    BY DEF ImportOutcome
  <2>. HIDE DEF b
  <2>8. ImportOutcome = "none" =>
          b \in Nat /\ offset + (10 + b) <= l /\ 10 + b <= 10 + MaxParameters
    BY <1>1, <2>3, <2>4, Limits
  <2>. QED
    BY <1>1, <1>2, <1>3, <2>1, <2>2, <2>3, <2>5, <2>6, <2>8
    DEF EntryHeld, Data, DataLength
<1>8. CASE table = ENTR
  <2>. DEFINE b == ByteAt((d + offset) + 13)
  <2>0. ByteAt(d + offset + 13) = b
    BY <1>1
  <2>1. EntryOutcome = FunctionOutcome /\ EntrySize = 14 + b
        /\ Fixed(table) = 14 /\ SizeAt(table, d + offset) = 14 + b
    BY <1>8, <2>0, SectionsDiffer DEF EntryOutcome, EntrySize, Fixed, SizeAt
  <2>2. FunctionOutcome = "stray" => ~(offset + 14 > l) /\ ~Held(d + offset, 14)
    BY DEF FunctionOutcome
  <2>3. FunctionOutcome = "none" =>
          /\ ~(offset + 14 > l) /\ Held(d + offset, 14)
          /\ ~(offset + 14 + b > l)
    BY <2>0 DEF FunctionOutcome
  <2>4. Held(d + offset, 14) => b \in Nat
    BY <1>1, <1>4, <1>5 DEF Held
  <2>5. ~(offset + 14 > l) => offset + 14 <= l
    BY <1>1
  <2>6. FunctionOutcome # "ok"
    BY DEF FunctionOutcome
  <2>. HIDE DEF b
  <2>8. FunctionOutcome = "none" => b \in Nat /\ offset + (14 + b) <= l
    BY <1>1, <2>3, <2>4
  <2>. QED
    BY <1>1, <1>2, <1>3, <1>8, <2>1, <2>2, <2>3, <2>5, <2>6, <2>8
    DEF EntryHeld, Data, DataLength
<1>. QED
  BY <1>1, <1>6, <1>7, <1>8

(* The offset of an entry of the pool or of the imports is its u16. *)
LEMMA KeptWhole ==
  ASSUME NEW t \in Tables, NEW k \in Nat, NEW o \in Nat,
         k < program.count[t], program.count[t] \in Nat,
         t = CNST => program.count[t] <= MaxConstants,
         t = HOST => program.count[t] <= MaxImports,
         t # ENTR, o <= 1 + k * Widest(t)
  PROVE  o % Words16 = o
<1>1. PICK w \in Nat : w = Widest(t)
  BY Limits DEF Widest
<1>2. PICK c \in Nat : c = program.count[t]
  OBVIOUS
<1>3. w >= 1
  BY <1>1, Limits DEF Widest
<1>4. c * w <= Words16 - 1
  <2>1. CASE t = CNST
    <3>1. w = 9 /\ c <= 255
      BY <1>1, <1>2, <2>1, Limits DEF Widest
    <3>. QED
      BY <3>1, SMT DEF Words16
  <2>2. CASE t = HOST
    <3>1. w = 10 + MaxParameters /\ c <= MaxImports
      BY <1>1, <1>2, <2>2, SectionsDiffer DEF Widest
    <3>2. PICK m \in Nat : m = MaxImports
      BY Limits
    <3>3. c * w <= m * w
      <4>1. PICK e \in Nat : m = c + e
        BY <3>1, <3>2
      <4>2. m * w = c * w + e * w
        BY <4>1
      <4>3. e * w \in Nat
        OBVIOUS
      <4>. QED
        BY <4>2, <4>3
    <3>4. m * w < Words16
      BY <3>1, <3>2, LoaderAssumption
    <3>5. Words16 \in Nat
      BY SMT DEF Words16
    <3>. QED
      BY <3>3, <3>4, <3>5
  <2>. QED
    BY <2>1, <2>2, SectionsDiffer
<1>5. k * w + w <= c * w
  <2>0. c - (k + 1) \in Nat
    BY <1>2
  <2>1. PICK e \in Nat : c = (k + 1) + e
    BY <2>0
  <2>2. c * w = (k * w + w) + e * w
    BY <2>1
  <2>3. e * w \in Nat
    OBVIOUS
  <2>. QED
    BY <2>2, <2>3
<1>6. o <= Words16 - 1 /\ Words16 \in Nat \ {0}
  <2>1. Words16 \in Nat \ {0}
    BY SMT DEF Words16
  <2>2. PICK z \in Nat, y \in Nat : z = k * w /\ y = c * w
    OBVIOUS
  <2>3. o <= 1 + z /\ z + w <= y /\ y <= Words16 - 1
    BY <1>1, <1>4, <1>5, <2>2
  <2>. QED
    BY <1>3, <2>1, <2>3
<1>7. o \in 0..Words16 - 1
  BY <1>6
<1>. QED
  BY <1>6, <1>7, WordItself

(* An entry that was read is the last of its table. *)
LEMMA EntryTaken ==
  ASSUME LoaderInv, ReadEntry, EntryOutcome = "none"
  PROVE  \E old \in Seq(Nat), new \in Seq(Nat), k \in Nat :
           /\ old = program.offsets[table] /\ k = Len(old)
           /\ Len(new) = k + 1 /\ DOMAIN new = 1..k + 1
           /\ (\A i \in 1..k : new[i] = old[i]) /\ new[k + 1] = offset
           /\ program' \in Program /\ program'.count = program.count
           /\ program'.names = program.names /\ program'.import_map = program.import_map
           /\ \A t \in Tables : program'.offsets[t] = IF t = table THEN new ELSE program.offsets[t]
<1>1. /\ stage = "entries" /\ table \in Tables
      /\ Len(program.offsets[table]) < program.count[table]
  BY DEF ReadEntry, LoaderInv, TurnInv
<1>2. /\ program' = [program EXCEPT !.offsets[table] = Append(@, Kept(offset))]
      /\ offset' = offset + EntrySize
      /\ UNCHANGED <<source, image, delivery, decoded, stage, refusal, sections, table, host>>
  BY DEF ReadEntry, fileVars
<1>3. /\ program \in Program /\ program.offsets \in [Tables -> Seq(Nat)]
      /\ program.count \in [Tables -> Byte] /\ offset \in Nat /\ 1 <= offset
      /\ table # ENTR => offset <= 1 + Len(program.offsets[table]) * Widest(table)
  BY <1>1 DEF LoaderInv, TablesInv, Program, SectionsInv, TurnInv
<1>4. PICK old \in Seq(Nat), k \in Nat : old = program.offsets[table] /\ k = Len(old)
  BY <1>1, <1>3, LenProperties
<1>5. Kept(offset) = offset
  <2>1. CASE table = ENTR
    BY <2>1 DEF Kept
  <2>2. CASE table # ENTR
    <3>1. /\ k < program.count[table] /\ program.count[table] \in Nat
          /\ table = CNST => program.count[table] <= MaxConstants
          /\ table = HOST => program.count[table] <= MaxImports
          /\ offset <= 1 + k * Widest(table)
      BY <1>1, <1>3, <1>4, <2>2, Limits DEF LoaderInv, TablesInv
    <3>2. offset % Words16 = offset
      BY <1>1, <1>3, <2>2, <3>1, KeptWhole
    <3>. QED
      BY <2>2, <3>2 DEF Kept
  <2>. QED
    BY <2>1, <2>2
<1>6. PICK new \in Seq(Nat) : /\ new = Append(old, offset) /\ Len(new) = k + 1
                              /\ \A i \in 1..k : new[i] = old[i]
                              /\ new[k + 1] = offset /\ DOMAIN new = 1..k + 1
  <2>1. Append(old, offset) \in Seq(Nat)
    BY <1>3
  <2>2. /\ Len(Append(old, offset)) = k + 1
        /\ \A i \in 1..k : Append(old, offset)[i] = old[i]
        /\ Append(old, offset)[k + 1] = offset /\ DOMAIN Append(old, offset) = 1..k + 1
    BY <1>3, <1>4, AppendProperties
  <2>. QED
    BY <2>1, <2>2
<1>7. /\ program' \in Program /\ program'.count = program.count
      /\ program'.offsets = [program.offsets EXCEPT ![table] = new]
      /\ program'.names = program.names /\ program'.import_map = program.import_map
  <2>1. [program.offsets EXCEPT ![table] = new] \in [Tables -> Seq(Nat)]
    BY <1>3
  <2>2. program' = [program EXCEPT !.offsets = [program.offsets EXCEPT ![table] = new]]
    BY <1>1, <1>2, <1>3, <1>4, <1>5, <1>6 DEF Program
  <2>. QED
    BY <1>3, <2>1, <2>2 DEF Program
<1>8. \A t \in Tables : program'.offsets[t] = IF t = table THEN new ELSE program.offsets[t]
  BY <1>3, <1>7
<1>. WITNESS old \in Seq(Nat), new \in Seq(Nat), k \in Nat
<1>. QED
  BY <1>4, <1>6, <1>7, <1>8

LEMMA ReadEntryKeeps ==
  ASSUME LoaderInv, ReadEntry
  PROVE  LoaderInv'
<1>1. /\ stage = "entries" /\ stage \in Walked /\ table \in Tables
      /\ Len(program.offsets[table]) < program.count[table]
      /\ \A type \in CriticalSections : sections[type].present
  BY PastTheWalk DEF ReadEntry, LoaderInv, TurnInv, Walked
<1>2. CASE EntryOutcome # "none"
  <2>1. End(EntryOutcome)
    BY <1>2 DEF ReadEntry
  <2>. QED
    BY <1>1, <2>1, EntryRead, EndKeeps DEF Passed
<1>3. CASE EntryOutcome = "none"
  <2>1. /\ program' = [program EXCEPT !.offsets[table] = Append(@, Kept(offset))]
        /\ offset' = offset + EntrySize
        /\ UNCHANGED <<source, image, delivery, decoded, stage, refusal, sections, table, host>>
    BY <1>3 DEF ReadEntry, fileVars
  <2>2. /\ EntrySize \in Nat /\ EntrySize >= 1 /\ EntryHeld(table, offset)
        /\ offset + EntrySize <= DataLength
        /\ table # ENTR => EntrySize <= Widest(table)
    BY <1>1, <1>3, EntryRead
  <2>3. /\ program \in Program /\ program.offsets \in [Tables -> Seq(Nat)]
        /\ program.count \in [Tables -> Byte] /\ offset \in Nat /\ 1 <= offset
        /\ table # ENTR => offset <= 1 + Len(program.offsets[table]) * Widest(table)
    BY <1>1 DEF LoaderInv, TablesInv, Program, SectionsInv, TurnInv
  <2>4. PICK old \in Seq(Nat), new \in Seq(Nat), k \in Nat :
          /\ old = program.offsets[table] /\ k = Len(old)
          /\ Len(new) = k + 1 /\ DOMAIN new = 1..k + 1
          /\ (\A i \in 1..k : new[i] = old[i]) /\ new[k + 1] = offset
          /\ program' \in Program /\ program'.count = program.count
          /\ program'.names = program.names /\ program'.import_map = program.import_map
          /\ \A t \in Tables : program'.offsets[t] = IF t = table THEN new ELSE program.offsets[t]
    BY <1>3, EntryTaken
  <2>5. PICK c \in Nat : c = program.count[table] /\ k + 1 <= c
    BY <1>1, <2>3, <2>4, Limits
  <2>9. FileInv'
    BY <2>1 DEF LoaderInv, FileInv, Length
  <2>10. StageInv'
    BY <2>1 DEF LoaderInv, StageInv, HeaderRefusal, Length
  <2>11. SectionsInv'
    BY <1>1, <2>1, <2>2, <2>3 DEF LoaderInv, SectionsInv, SectionHeld, Overlong, Held, Length, Walked
  <2>12. TablesInv'
    <3>1. \A t \in Tables : Len(program'.offsets[t]) <= program'.count[t]
      BY <1>1, <2>4, <2>5 DEF LoaderInv, TablesInv
    <3>2. \A t \in CriticalSections : \A o \in Nat : EntryHeld(t, o) <=> EntryHeld(t, o)'
      BY <2>1 DEF EntryHeld, SizeAt, ByteAt, Fixed, Held, Length
    <3>3. ASSUME NEW t \in Tables, NEW i \in DOMAIN program'.offsets[t]
          PROVE  EntryHeld(t, program'.offsets[t][i])
      <4>1. CASE t = table
        <5>1. i \in 1..k + 1 /\ program'.offsets[t][i] = new[i]
          BY <2>4, <3>3, <4>1
        <5>2. CASE i = k + 1
          BY <2>2, <2>4, <4>1, <5>1, <5>2
        <5>3. CASE i \in 1..k
          <6>1. i \in DOMAIN old
            BY <2>4, <5>3, LenProperties
          <6>. QED
            BY <2>4, <4>1, <5>1, <5>3, <6>1 DEF LoaderInv, TablesInv
        <5>. QED
          BY <5>1, <5>2, <5>3
      <4>2. CASE t # table
        BY <2>4, <3>3, <4>2 DEF LoaderInv, TablesInv
      <4>. QED
        BY <4>1, <4>2
    <3>4. (\A t \in Tables : \A i \in DOMAIN program.offsets[t] :
             EntryHeld(t, program.offsets[t][i]))'
      <4>1. \A t \in Tables : \A i \in DOMAIN program'.offsets[t] : program'.offsets[t][i] \in Nat
        <5>1. \A t \in Tables : program'.offsets[t] \in Seq(Nat)
          BY <2>4 DEF Program
        <5>. QED
          BY <5>1, LenProperties, ElementOfSeq
      <4>. QED
        BY <3>2, <3>3, <4>1 DEF Tables
    <3>5. (\A i \in DOMAIN program.names : NameHeld(program.names[i]))'
      BY <2>1, <2>4 DEF LoaderInv, TablesInv, NameHeld
    <3>. QED
      BY <2>1, <2>4, <3>1, <3>4, <3>5 DEF LoaderInv, TablesInv
  <2>13. TurnInv'
    <3>1. \A t \in Tables : (ToCome(t)' <=> ToCome(t)) /\ (Done(t)' <=> Done(t))
      BY <2>1 DEF ToCome, Done
    <3>2. \A t \in Tables : ToCome(t) \/ Done(t) => t # table
      BY <1>1 DEF ToCome, Done, Turn
    <3>3. DataLength' = DataLength
      BY <2>1 DEF DataLength
    <3>4. 1 <= offset' /\ offset' <= DataLength'
      BY <2>1, <2>2, <2>3, <3>3
    <3>5. table # ENTR => offset' <= 1 + Len(program'.offsets[table]) * Widest(table)
      <4>1. SUFFICES ASSUME table # ENTR
                     PROVE  offset' <= 1 + Len(program'.offsets[table]) * Widest(table)
        OBVIOUS
      <4>2. PICK w \in Nat : w = Widest(table)
        <5>1. MaxParameters \in Nat
          BY Limits
        <5>. QED
          BY <5>1 DEF Widest
      <4>3. (k + 1) * w = k * w + w
        OBVIOUS
      <4>4. PICK z \in Nat : z = k * w
        OBVIOUS
      <4>5. offset <= 1 + z /\ EntrySize <= w
        BY <2>2, <2>3, <2>4, <4>1, <4>2, <4>4
      <4>6. offset + EntrySize <= 1 + (z + w)
        BY <2>2, <2>3, <4>5
      <4>7. Len(program'.offsets[table]) = k + 1
        BY <1>1, <2>4
      <4>. QED
        BY <2>1, <4>2, <4>3, <4>4, <4>6, <4>7
    <3>. QED
      BY <1>1, <2>1, <2>4, <3>1, <3>2, <3>4, <3>5 DEF LoaderInv, TurnInv
  <2>14. StaysInBuffer'
    BY <1>1, <2>1 DEF StaysInBuffer
  <2>. QED
    BY <2>9, <2>10, <2>11, <2>12, <2>13, <2>14 DEF LoaderInv
<1>. QED
  BY <1>2, <1>3

LEMMA EndEntriesKeeps ==
  ASSUME LoaderInv, EndEntries
  PROVE  LoaderInv'
<1>1. /\ stage = "entries" /\ table \in Tables
      /\ Len(program.offsets[table]) = program.count[table]
      /\ stage' = IF table = ENTR THEN "names" ELSE "count"
      /\ table' = IF table = CNST THEN HOST ELSE ENTR
      /\ UNCHANGED <<source, image, delivery, decoded, refusal, sections, offset, program, host>>
  BY DEF EndEntries, LoaderInv, TurnInv, fileVars
<1>2. FileInv'
  BY <1>1 DEF LoaderInv, FileInv, Length
<1>3. StageInv'
  BY <1>1 DEF LoaderInv, StageInv, Stages, Passed, Walked, HeaderRefusal, Length
<1>4. SectionsInv'
  BY <1>1 DEF LoaderInv, SectionsInv, SectionHeld, Overlong, Held, Length, Walked
<1>5. TablesInv'
  BY <1>1, ZenonT(40)
    DEF LoaderInv, TablesInv, EntryHeld, SizeAt, ByteAt, Fixed, Held, Length, NameHeld
<1>6. TurnInv'
  <2>1. \A t \in Tables : ToCome(t)' => ToCome(t)
    BY <1>1, SectionsDiffer DEF ToCome, Turn
  <2>2. \A t \in Tables : Done(t)' => Done(t) \/ t = table
    BY <1>1, SectionsDiffer DEF Done, Turn
  <2>3. stage' = "names" => DataLength' = DataLength /\ table' = ENTR
    BY <1>1, SectionsDiffer DEF DataLength
  <2>4. table' \in Tables
    BY <1>1, SectionsDiffer
  <2>. QED
    BY <1>1, <2>1, <2>2, <2>3, <2>4 DEF LoaderInv, TurnInv
<1>7. StaysInBuffer'
  BY <1>1 DEF StaysInBuffer
<1>. QED
  BY <1>2, <1>3, <1>4, <1>5, <1>6, <1>7 DEF LoaderInv

-----------------------------------------------------------------------------
(* The names, and the caps of the components. *)
LEMMA RecordsRead ==
  ASSUME LoaderInv, stage \in {"names", "link", "loaded"}, NEW t \in Tables,
         NEW i \in 1..program.count[t]
  PROVE  /\ i \in DOMAIN program.offsets[t] /\ program.offsets[t][i] \in Nat
         /\ EntryHeld(t, program.offsets[t][i])
         /\ sections[t].data \in Nat /\ sections[t].data >= HeaderSize
         /\ sections[t].length \in Nat /\ Length(image) \in Nat
         /\ IsFile(image) /\ image.held = HeaderSize
<1>1. program.offsets[t] \in Seq(Nat) /\ Len(program.offsets[t]) = program.count[t]
  BY DEF LoaderInv, TablesInv, Program, TurnInv, Done
<1>2. i \in DOMAIN program.offsets[t] /\ program.offsets[t][i] \in Nat
  BY <1>1, LenProperties, ElementOfSeq
<1>3. EntryHeld(t, program.offsets[t][i])
  BY <1>2 DEF LoaderInv, TablesInv
<1>. QED
  BY <1>2, <1>3, PastTheWalk DEF Walked, HeaderSize

(* The bytes of a record's fixed part. *)
LEMMA FieldRead ==
  ASSUME LoaderInv, stage \in {"names", "link", "loaded"}, NEW t \in Tables,
         NEW i \in 1..program.count[t], NEW k \in Nat, k + 1 <= Fixed(t)
  PROVE  /\ sections[t].data + program.offsets[t][i] + k \in Nat
         /\ ByteAt(sections[t].data + program.offsets[t][i] + k) \in Byte
<1>. PICK d \in Nat, o \in Nat, n \in Nat, f \in Nat :
       d = sections[t].data /\ o = program.offsets[t][i] /\ n = Length(image) /\ f = Fixed(t)
  <2>1. Fixed(t) \in Nat
    BY DEF Fixed
  <2>. QED
    BY <2>1, RecordsRead
<1>1. d >= HeaderSize /\ (d + o) + f <= n /\ IsFile(image) /\ image.held = HeaderSize
  BY RecordsRead DEF EntryHeld, Held
<1>2. (d + o) + k \in Nat /\ (d + o) + k >= HeaderSize /\ ((d + o) + k) + 1 <= n
  BY <1>1 DEF HeaderSize
<1>3. ByteAt((d + o) + k) \in Byte
  BY <1>1, <1>2, ReadByte
<1>. QED
  BY <1>2, <1>3

LEMMA NameRead ==
  ASSUME LoaderInv, stage = "names", NEW i \in 1..program.count[ENTR]
  PROVE  /\ NameOutcome(i) # "ok"
         /\ NameOutcome(i) = "stray" => \E type \in CriticalSections : Overlong(type)
         /\ NameOutcome(i) = "none" =>
              /\ NameAt(i) + 1 \in Nat /\ ByteAt(NameAt(i)) \in Byte
              /\ (NameAt(i) + 1) + ByteAt(NameAt(i)) <= sections[ENTR].data + sections[ENTR].length
<1>1. /\ table = ENTR /\ ENTR \in Tables /\ ENTR \in CriticalSections /\ stage \in Walked
      /\ stage \in {"names", "link", "loaded"}
      /\ offset \in Nat /\ offset <= DataLength
  BY SectionsDiffer DEF LoaderInv, TurnInv, SectionsInv, Walked
<1>. PICK d \in Nat, l \in Nat, o \in Nat, n \in Nat :
       d = Data /\ l = DataLength /\ o = program.offsets[ENTR][i] /\ n = Length(image)
  BY <1>1, RecordsRead DEF Data, DataLength
<1>2. /\ d = sections[ENTR].data /\ l = sections[ENTR].length /\ d >= HeaderSize
      /\ IsFile(image) /\ image.held = HeaderSize /\ EntryHeld(ENTR, o)
  BY <1>1, RecordsRead DEF Data, DataLength
<1>3. (d + o) + 14 <= n
  BY <1>2, SectionsDiffer DEF EntryHeld, Fixed, Held
<1>4. PICK w \in Nat : w = Word16(d + o)
  <2>1. d + o \in Nat /\ d + o >= HeaderSize /\ (d + o) + 2 <= n
    BY <1>2, <1>3 DEF HeaderSize
  <2>2. Word16(d + o) \in 0..Words16 - 1
    BY <1>2, <2>1, ReadWord16
  <2>. QED
    BY <2>2
<1>5. NameAt(i) = d + offset + w
  BY <1>4 DEF NameAt
<1>6. NameOutcome(i) = "stray" => ~(w >= l - offset) /\ ~Held(NameAt(i), 1)
  BY <1>4 DEF NameOutcome
<1>7. NameOutcome(i) = "none" =>
        ~(w >= l - offset) /\ Held(NameAt(i), 1) /\ ~(w + 1 + ByteAt(NameAt(i)) > l - offset)
  BY <1>4 DEF NameOutcome
<1>8. NameOutcome(i) # "ok"
  BY DEF NameOutcome
<1>9. ~(w >= l - offset) => (offset + w) + 1 <= l
  BY <1>1
<1>10. NameOutcome(i) = "stray" => \E type \in CriticalSections : Overlong(type)
  <2>1. offset + w \in Nat /\ d + (offset + w) = NameAt(i)
    BY <1>1, <1>5
  <2>. QED
    BY <1>1, <1>2, <1>6, <1>9, <2>1, OutOfAnOverlong
<1>11. NameAt(i) \in Nat /\ NameAt(i) >= HeaderSize /\ NameAt(i) + 1 \in Nat
  BY <1>1, <1>2, <1>5 DEF HeaderSize
<1>12. Held(NameAt(i), 1) => ByteAt(NameAt(i)) \in Byte
  BY <1>2, <1>11, ReadByte DEF Held
<1>13. NameOutcome(i) = "none" => (NameAt(i) + 1) + ByteAt(NameAt(i)) <= d + l
  <2>1. SUFFICES ASSUME NameOutcome(i) = "none"
                 PROVE  (NameAt(i) + 1) + ByteAt(NameAt(i)) <= d + l
    OBVIOUS
  <2>2. PICK b \in Nat : b = ByteAt(NameAt(i))
    BY <1>7, <1>12, <2>1, Limits
  <2>3. ~(w + 1 + b > l - offset)
    BY <1>7, <2>1, <2>2
  <2>4. ((d + offset + w) + 1) + b <= d + l
    BY <1>1, <2>3
  <2>. QED
    BY <1>5, <2>2, <2>4
<1>. QED
  BY <1>2, <1>7, <1>8, <1>10, <1>11, <1>12, <1>13

LEMMA ReadNameKeeps ==
  ASSUME LoaderInv, ReadName
  PROVE  LoaderInv'
<1>. DEFINE i == Len(program.names) + 1
<1>1. /\ stage = "names" /\ stage \in Walked /\ table = ENTR
      /\ program.names \in Seq(Name) /\ program.count[ENTR] \in Byte
      /\ Len(program.names) < program.count[ENTR]
      /\ \A type \in CriticalSections : sections[type].present
  BY PastTheWalk, SectionsDiffer DEF ReadName, LoaderInv, TurnInv, TablesInv, Program, Walked
<1>2. i \in 1..program.count[ENTR] /\ Len(program.names) \in Nat
  BY <1>1, Limits, LenProperties
<1>3. CASE NameOutcome(i) # "none"
  <2>1. End(NameOutcome(i))
    BY <1>3 DEF ReadName
  <2>. QED
    BY <1>1, <1>2, <2>1, NameRead, EndKeeps DEF Passed
<1>4. CASE NameOutcome(i) = "none"
  <2>. DEFINE name == [at |-> NameAt(i) + 1, length |-> ByteAt(NameAt(i))]
  <2>1. /\ program' = [program EXCEPT !.names = Append(@, name)]
        /\ UNCHANGED <<source, image, delivery, decoded, stage, refusal, sections, table, offset, host>>
    BY <1>4 DEF ReadName, fileVars
  <2>2. name \in Name /\ NameHeld(name)
    BY <1>1, <1>2, <1>4, NameRead DEF Name, NameHeld
  <2>. HIDE DEF name
  <2>3. program \in Program
    BY DEF LoaderInv, TablesInv
  <2>4. PICK old \in Seq(Name), k \in Nat : old = program.names /\ k = Len(old)
    BY <1>1, <1>2
  <2>5. PICK new \in Seq(Name) : /\ new = Append(old, name) /\ Len(new) = k + 1
                                 /\ \A j \in 1..k : new[j] = old[j]
                                 /\ new[k + 1] = name /\ DOMAIN new = 1..k + 1
    <3>1. Append(old, name) \in Seq(Name)
      BY <2>2
    <3>2. /\ Len(Append(old, name)) = k + 1
          /\ \A j \in 1..k : Append(old, name)[j] = old[j]
          /\ Append(old, name)[k + 1] = name /\ DOMAIN Append(old, name) = 1..k + 1
      BY <2>2, <2>4, AppendProperties
    <3>. QED
      BY <3>1, <3>2
  <2>6. /\ program' \in Program /\ program'.names = new
        /\ program'.count = program.count /\ program'.offsets = program.offsets
        /\ program'.import_map = program.import_map
    <3>1. program' = [program EXCEPT !.names = new]
      BY <2>1, <2>3, <2>4, <2>5 DEF Program
    <3>. QED
      BY <2>3, <3>1 DEF Program
  <2>7. FileInv'
    BY <2>1 DEF LoaderInv, FileInv, Length
  <2>8. StageInv'
    BY <2>1 DEF LoaderInv, StageInv, HeaderRefusal, Length
  <2>9. SectionsInv'
    BY <2>1 DEF LoaderInv, SectionsInv, SectionHeld, Overlong, Held, Length, Walked
  <2>10. TablesInv'
    <3>1. (\A t \in Tables : \A j \in DOMAIN program.offsets[t] :
             EntryHeld(t, program.offsets[t][j]))'
      BY <2>1, <2>6, ZenonT(40)
        DEF LoaderInv, TablesInv, EntryHeld, SizeAt, ByteAt, Fixed, Held, Length
    <3>2. Len(program'.names) <= program'.count[ENTR]
      BY <1>1, <1>2, <2>4, <2>5, <2>6, Limits
    <3>3. \A j \in DOMAIN program'.names : NameHeld(program'.names[j])
      <4>1. \A j \in 1..k : j \in DOMAIN old
        BY <2>4, LenProperties
      <4>2. \A j \in 1..k : NameHeld(new[j])
        BY <2>4, <2>5, <4>1 DEF LoaderInv, TablesInv
      <4>3. \A j \in 1..k + 1 : j \in 1..k \/ j = k + 1
        OBVIOUS
      <4>. QED
        BY <2>2, <2>5, <2>6, <4>2, <4>3
    <3>4. (\A j \in DOMAIN program.names : NameHeld(program.names[j]))'
      BY <2>1, <3>3 DEF NameHeld
    <3>. QED
      BY <2>1, <2>6, <3>1, <3>2, <3>4 DEF LoaderInv, TablesInv
  <2>11. TurnInv'
    BY <1>1, <2>1, <2>6 DEF LoaderInv, TurnInv, ToCome, Done, DataLength
  <2>12. StaysInBuffer'
    BY <1>1, <2>1 DEF StaysInBuffer
  <2>. QED
    BY <2>7, <2>8, <2>9, <2>10, <2>11, <2>12 DEF LoaderInv
<1>. QED
  BY <1>3, <1>4

LEMMA CapsAreBytes ==
  ASSUME LoaderInv, stage = "names"
  PROVE  Caps \in [0..MaxFunctions - 1 -> Byte]
<1>1. stage \in {"names", "link", "loaded"} /\ table = ENTR /\ ENTR \in Tables
      /\ program.count[ENTR] \in Nat
  BY SectionsDiffer, Limits DEF LoaderInv, TurnInv, TablesInv, Program
<1>2. \A i \in 1..program.count[ENTR] : CapOf(i) \in Byte
  <2>. TAKE i \in 1..program.count[ENTR]
  <2>1. 10 \in Nat /\ 10 + 1 <= Fixed(ENTR)
    BY SectionsDiffer DEF Fixed
  <2>2. ByteAt(sections[ENTR].data + program.offsets[ENTR][i] + 10) \in Byte
    BY <1>1, <2>1, FieldRead
  <2>. QED
    BY <1>1, <2>2 DEF CapOf, Data
<1>3. 0 \in Byte
  BY DEF Byte
<1>4. \A k \in 0..MaxFunctions - 1 :
        LET members == {i \in 1..program.count[ENTR] : ComponentOf(i) = k}
        IN  (IF members = {} THEN 0 ELSE CapOf(Max(members))) \in Byte
  <2>. TAKE k \in 0..MaxFunctions - 1
  <2>. DEFINE members == {i \in 1..program.count[ENTR] : ComponentOf(i) = k}
  <2>1. CASE members = {}
    BY <1>3, <2>1
  <2>2. CASE members # {}
    <3>1. members \in SUBSET Nat /\ members \subseteq 1..program.count[ENTR]
      OBVIOUS
    <3>2. IsFiniteSet(members)
      <4>1. IsFiniteSet(1..program.count[ENTR])
        <5>1. PICK e \in Nat : e = program.count[ENTR]
          BY <1>1
        <5>2. 1 \in Int /\ e \in Int
          OBVIOUS
        <5>3. IsFiniteSet(1..e)
          BY <5>2, FS_Interval
        <5>. QED
          BY <5>1, <5>3
      <4>. HIDE DEF members
      <4>. QED
        BY <3>1, <4>1, FS_Subset
    <3>. HIDE DEF members
    <3>3. Max(members) \in members
      BY <2>2, <3>1, <3>2, MaxOfFinite
    <3>4. CapOf(Max(members)) \in Byte
      BY <1>2, <3>1, <3>3
    <3>. QED
      BY <2>2, <3>4 DEF members
  <2>. QED
    BY <2>1, <2>2
<1>. QED
  BY <1>4 DEF Caps

LEMMA EndNamesKeeps ==
  ASSUME LoaderInv, EndNames
  PROVE  LoaderInv'
<1>1. /\ stage = "names" /\ stage' = "link" /\ host' \in Hosts
      /\ Len(program.names) = program.count[ENTR]
      /\ program' = [program EXCEPT !.component_cap = Caps]
      /\ UNCHANGED <<source, image, delivery, decoded, refusal, sections, table, offset>>
  BY DEF EndNames, fileVars
<1>2. /\ program' \in Program /\ program'.count = program.count
      /\ program'.offsets = program.offsets /\ program'.names = program.names
      /\ program'.import_map = program.import_map
  <2>1. program \in Program /\ Caps \in [0..MaxFunctions - 1 -> Byte]
    BY <1>1, CapsAreBytes DEF LoaderInv, TablesInv
  <2>. QED
    BY <1>1, <2>1 DEF Program
<1>3. FileInv'
  BY <1>1 DEF LoaderInv, FileInv, Length
<1>4. StageInv'
  BY <1>1 DEF LoaderInv, StageInv, Stages, Passed, Walked, HeaderRefusal, Length
<1>5. SectionsInv'
  BY <1>1 DEF LoaderInv, SectionsInv, SectionHeld, Overlong, Held, Length, Walked
<1>6. TablesInv'
  <2>1. host' \in Seq(HostEntry)
    BY <1>1, HostsAssumption
  <2>2. (\A t \in Tables : \A j \in DOMAIN program.offsets[t] :
           EntryHeld(t, program.offsets[t][j]))'
    BY <1>1, <1>2, ZenonT(40) DEF LoaderInv, TablesInv, EntryHeld, SizeAt, ByteAt, Fixed, Held, Length
  <2>3. (\A j \in DOMAIN program.names : NameHeld(program.names[j]))'
    BY <1>1, <1>2 DEF LoaderInv, TablesInv, NameHeld
  <2>. QED
    BY <1>2, <2>1, <2>2, <2>3 DEF LoaderInv, TablesInv
<1>7. TurnInv'
  BY <1>1, <1>2 DEF LoaderInv, TurnInv, ToCome, Done
<1>8. StaysInBuffer'
  BY <1>1 DEF StaysInBuffer
<1>. QED
  BY <1>3, <1>4, <1>5, <1>6, <1>7, <1>8 DEF LoaderInv

-----------------------------------------------------------------------------
(* Linking. *)
LEMMA FirstWithTheHash ==
  ASSUME host \in Seq(HostEntry), NEW hash
  PROVE  \/ EntryHashed(hash) = 0
         \/ /\ EntryHashed(hash) \in DOMAIN host /\ EntryHashed(hash) \in Nat
            /\ NameHash(host[EntryHashed(hash)].name) = hash
<1>. DEFINE matches == {h \in DOMAIN host : NameHash(host[h].name) = hash}
<1>1. DOMAIN host = 1..Len(host) /\ Len(host) \in Nat
  BY LenProperties
<1>2. matches \in SUBSET Nat
  BY <1>1
<1>3. CASE matches = {}
  BY <1>3 DEF EntryHashed
<1>4. CASE matches # {}
  <2>1. EntryHashed(hash) = Min(matches)
    BY <1>4 DEF EntryHashed
  <2>. HIDE DEF matches
  <2>2. Min(matches) \in matches
    BY <1>2, <1>4, MinOfNaturals
  <2>. QED
    BY <1>2, <2>1, <2>2 DEF matches
<1>. QED
  BY <1>3, <1>4

(* An import is linked only if its parameters are in the file too. *)
LEMMA LinkRead ==
  ASSUME LoaderInv, stage = "link", NEW i \in 1..program.count[HOST]
  PROVE  /\ LinkOutcome(i) # "ok"
         /\ LinkOutcome(i) = "stray" => \E type \in CriticalSections : Overlong(type)
         /\ EntryHashed(Word32(ImportStart(i))) \in Nat
<1>1. /\ HOST \in Tables /\ HOST \in CriticalSections /\ stage \in Walked
      /\ stage \in {"names", "link", "loaded"} /\ host \in Seq(HostEntry)
  BY SectionsDiffer DEF LoaderInv, TablesInv, Walked
<1>. PICK d \in Nat, l \in Nat, o \in Nat, n \in Nat :
       d = sections[HOST].data /\ l = sections[HOST].length
       /\ o = program.offsets[HOST][i] /\ n = Length(image)
  BY <1>1, RecordsRead
<1>2. EntryHeld(HOST, o)
  BY <1>1, RecordsRead
<1>3. ImportStart(i) = d + o
  BY DEF ImportStart
<1>4. SizeAt(HOST, d + o) = 10 + ByteAt(d + o + 9)
  BY SectionsDiffer DEF SizeAt
<1>5. ByteAt(d + o + 9) \in Byte
  <2>1. 9 \in Nat /\ 9 + 1 <= Fixed(HOST)
    BY SectionsDiffer DEF Fixed
  <2>. QED
    BY <1>1, <2>1, FieldRead
<1>. PICK b \in Nat : b = ByteAt(d + o + 9)
  BY <1>5, Limits
<1>6. (o + 10) + b <= l
  <2>1. o + (10 + b) <= l
    BY <1>2, <1>4 DEF EntryHeld
  <2>. QED
    BY <2>1
<1>7. LinkOutcome(i) = "stray" => ~Held(ImportStart(i) + 9 + 1, b)
  BY <1>3 DEF LinkOutcome, SignatureOutcome
<1>8. LinkOutcome(i) # "ok"
  BY DEF LinkOutcome, SignatureOutcome
<1>9. LinkOutcome(i) = "stray" => \E type \in CriticalSections : Overlong(type)
  <2>1. ImportStart(i) + 9 + 1 = d + (o + 10) /\ o + 10 \in Nat
    BY <1>3
  <2>. QED
    BY <1>1, <1>6, <1>7, <2>1, OutOfAnOverlong
<1>10. EntryHashed(Word32(ImportStart(i))) \in Nat
  BY <1>1, FirstWithTheHash
<1>. QED
  BY <1>8, <1>9, <1>10

LEMMA LinkImportKeeps ==
  ASSUME LoaderInv, LinkImport
  PROVE  LoaderInv'
<1>. DEFINE i == Len(program.import_map) + 1
            found == EntryHashed(Word32(ImportStart(i)))
<1>1. /\ stage = "link" /\ stage \in Walked
      /\ program.import_map \in Seq(Nat) /\ program.count[HOST] \in Byte
      /\ Len(program.import_map) < program.count[HOST]
      /\ \A type \in CriticalSections : sections[type].present
  BY PastTheWalk, SectionsDiffer DEF LinkImport, LoaderInv, TablesInv, Program, Walked
<1>2. i \in 1..program.count[HOST] /\ Len(program.import_map) \in Nat
  BY <1>1, Limits, LenProperties
<1>3. CASE LinkOutcome(i) # "none"
  <2>1. End(LinkOutcome(i))
    BY <1>3 DEF LinkImport
  <2>. QED
    BY <1>1, <1>2, <2>1, LinkRead, EndKeeps DEF Passed
<1>4. CASE LinkOutcome(i) = "none"
  <2>1. /\ program' = [program EXCEPT !.import_map = Append(@, found)]
        /\ UNCHANGED <<source, image, delivery, decoded, stage, refusal, sections, table, offset, host>>
    BY <1>4 DEF LinkImport, fileVars
  <2>2. found \in Nat
    BY <1>1, <1>2, LinkRead
  <2>. HIDE DEF found
  <2>3. program \in Program
    BY DEF LoaderInv, TablesInv
  <2>4. /\ Append(program.import_map, found) \in Seq(Nat)
        /\ Len(Append(program.import_map, found)) = Len(program.import_map) + 1
    BY <1>1, <2>2, AppendProperties
  <2>5. /\ program' \in Program /\ program'.names = program.names
        /\ program'.count = program.count /\ program'.offsets = program.offsets
        /\ program'.import_map = Append(program.import_map, found)
    BY <2>1, <2>3, <2>4 DEF Program
  <2>6. FileInv'
    BY <2>1 DEF LoaderInv, FileInv, Length
  <2>7. StageInv'
    BY <2>1 DEF LoaderInv, StageInv, HeaderRefusal, Length
  <2>8. SectionsInv'
    BY <2>1 DEF LoaderInv, SectionsInv, SectionHeld, Overlong, Held, Length, Walked
  <2>9. TablesInv'
    <3>1. (\A t \in Tables : \A j \in DOMAIN program.offsets[t] :
             EntryHeld(t, program.offsets[t][j]))'
      BY <2>1, <2>5, ZenonT(40)
        DEF LoaderInv, TablesInv, EntryHeld, SizeAt, ByteAt, Fixed, Held, Length
    <3>2. (\A j \in DOMAIN program.names : NameHeld(program.names[j]))'
      BY <2>1, <2>5 DEF LoaderInv, TablesInv, NameHeld
    <3>3. Len(program'.import_map) <= program'.count[HOST]
      BY <1>1, <1>2, <2>4, <2>5, Limits
    <3>. QED
      BY <2>1, <2>5, <3>1, <3>2, <3>3 DEF LoaderInv, TablesInv
  <2>10. TurnInv'
    BY <1>1, <2>1, <2>5 DEF LoaderInv, TurnInv, ToCome, Done, DataLength
  <2>11. StaysInBuffer'
    BY <1>1, <2>1 DEF StaysInBuffer
  <2>. QED
    BY <2>6, <2>7, <2>8, <2>9, <2>10, <2>11 DEF LoaderInv
<1>. QED
  BY <1>3, <1>4

LEMMA EndLinkKeeps ==
  ASSUME LoaderInv, EndLink
  PROVE  LoaderInv'
<1>1. /\ stage = "link" /\ stage' = "loaded"
      /\ Len(program.import_map) = program.count[HOST]
      /\ UNCHANGED <<source, image, delivery, decoded, refusal, sections, table, offset,
                     program, host>>
  BY DEF EndLink, fileVars
<1>2. FileInv'
  BY <1>1 DEF LoaderInv, FileInv, Length
<1>3. StageInv'
  BY <1>1 DEF LoaderInv, StageInv, Stages, Passed, Walked, HeaderRefusal, Length
<1>4. SectionsInv'
  BY <1>1 DEF LoaderInv, SectionsInv, SectionHeld, Overlong, Held, Length, Walked
<1>5. TablesInv'
  BY <1>1, ZenonT(40)
    DEF LoaderInv, TablesInv, EntryHeld, SizeAt, ByteAt, Fixed, Held, Length, NameHeld
<1>6. TurnInv'
  BY <1>1 DEF LoaderInv, TurnInv, ToCome, Done
<1>7. StaysInBuffer'
  BY <1>1 DEF StaysInBuffer
<1>. QED
  BY <1>2, <1>3, <1>4, <1>5, <1>6, <1>7 DEF LoaderInv

-----------------------------------------------------------------------------
(* The invariant holds, and what it says of the runs' properties. *)
LEMMA StutterKeeps ==
  ASSUME LoaderInv, UNCHANGED loaderVars
  PROVE  LoaderInv'
<1>. USE DEF loaderVars
<1>1. FileInv'
  BY DEF LoaderInv, FileInv, Length
<1>2. StageInv'
  BY DEF LoaderInv, StageInv, HeaderRefusal, Length
<1>3. SectionsInv'
  BY DEF LoaderInv, SectionsInv, SectionHeld, Overlong, Held, Length
<1>4. TablesInv'
  BY ZenonT(40) DEF LoaderInv, TablesInv, EntryHeld, SizeAt, ByteAt, Fixed, Held, Length, NameHeld
<1>5. TurnInv'
  BY DEF LoaderInv, TurnInv, ToCome, Done, DataLength
<1>6. StaysInBuffer'
  BY DEF LoaderInv, StaysInBuffer, Overlong
<1>. QED
  BY <1>1, <1>2, <1>3, <1>4, <1>5, <1>6 DEF LoaderInv

LEMMA StepKeeps ==
  LoaderInv /\ [LoaderNext]_loaderVars => LoaderInv'
<1>. SUFFICES ASSUME LoaderInv, [LoaderNext]_loaderVars PROVE LoaderInv'
  OBVIOUS
<1>1. CASE Deliver
  BY <1>1, DeliverKeeps
<1>2. CASE Header
  BY <1>2, HeaderKeeps
<1>3. CASE WalkSection
  BY <1>3, WalkKeeps
<1>4. CASE EndSections
  BY <1>4, EndSectionsKeeps
<1>5. CASE Count
  BY <1>5, CountKeeps
<1>6. CASE ReadEntry
  BY <1>6, ReadEntryKeeps
<1>7. CASE EndEntries
  BY <1>7, EndEntriesKeeps
<1>8. CASE ReadName
  BY <1>8, ReadNameKeeps
<1>9. CASE EndNames
  BY <1>9, EndNamesKeeps
<1>10. CASE LinkImport
  BY <1>10, LinkImportKeeps
<1>11. CASE EndLink
  BY <1>11, EndLinkKeeps
<1>12. CASE UNCHANGED loaderVars
  BY <1>12, StutterKeeps
<1>. QED
  BY <1>1, <1>2, <1>3, <1>4, <1>5, <1>6, <1>7, <1>8, <1>9, <1>10, <1>11, <1>12
  DEF LoaderNext, Loading

LEMMA LoaderInvHolds ==
  LoaderSpec => []LoaderInv
<1>1. LoaderInit => LoaderInv
  BY InitKeeps
<1>2. LoaderInv /\ [LoaderNext]_loaderVars => LoaderInv'
  BY StepKeeps
<1>. QED
  BY <1>1, <1>2, PTL DEF LoaderSpec

(* Counts stay within the build's limits, and the tables within their counts
   and their sections, whatever the file. *)
THEOREM LoaderKeepsItsTables ==
  LoaderSpec => []LoaderTypeOK
<1>1. LoaderInv => LoaderTypeOK
  <2>. SUFFICES ASSUME LoaderInv PROVE LoaderTypeOK
    OBVIOUS
  <2>1. ASSUME NEW t \in Tables
        PROVE  Range(program.offsets[t]) \subseteq 1..sections[t].length
    <3>1. program.offsets[t] \in Seq(Nat) /\ t \in CriticalSections
      BY DEF LoaderInv, TablesInv, Program, Tables
    <3>2. \A i \in DOMAIN program.offsets[t] : program.offsets[t][i] \in Nat
      BY <3>1, LenProperties, ElementOfSeq
    <3>3. sections[t].length \in Nat
      BY <3>1, Words32Assumption DEF LoaderInv, SectionsInv, Sections
    <3>4. Fixed(t) \in Nat
      BY DEF Fixed
    <3>5. \A i \in DOMAIN program.offsets[t] :
            program.offsets[t][i] >= 1 /\ program.offsets[t][i] + Fixed(t) <= sections[t].length
      BY DEF LoaderInv, TablesInv, EntryHeld
    <3>6. \A i \in DOMAIN program.offsets[t] : program.offsets[t][i] \in 1..sections[t].length
      BY <3>2, <3>3, <3>4, <3>5
    <3>. QED
      BY <3>6 DEF Range
  <2>2. FileInv /\ StageInv /\ TablesInv
    BY DEF LoaderInv
  <2>. QED
    BY <2>1, <2>2 DEF FileInv, StageInv, TablesInv, Stages, LoaderTypeOK
<1>. QED
  BY <1>1, LoaderInvHolds, PTL

(* A file that lost its end or flipped a bit on the way is never loaded. *)
THEOREM DamagedFilesAreRefused ==
  LoaderSpec => []DamageRefused
<1>1. LoaderInv => DamageRefused
  BY HeaderTaken DEF LoaderInv, FileInv, StageInv, Passed, Walked, DamageRefused
<1>. QED
  BY <1>1, LoaderInvHolds, PTL

(* The loader reads past the end of a file only if the size of a section is
   one of the three whose padding is lost. *)
THEOREM LoaderStaysInBuffer ==
  LoaderSpec => []StaysInBuffer
<1>1. LoaderInv => StaysInBuffer
  BY DEF LoaderInv
<1>. QED
  BY <1>1, LoaderInvHolds, PTL

(* What a loaded program points at is in the file. *)
THEOREM ProgramsPointIntoTheirFiles ==
  LoaderSpec => []ViewsHeld
<1>1. LoaderInv => ViewsHeld
  <2>. SUFFICES ASSUME LoaderInv, stage = "loaded" PROVE ViewsHeld
    BY DEF ViewsHeld
  <2>1. \A type \in CriticalSections :
          Overlong(type) \/ Held(sections[type].data, sections[type].length)
    BY PastTheWalk DEF Walked
  <2>2. \A t \in Tables : \A i \in DOMAIN program.offsets[t] :
          program.offsets[t][i] + SizeAt(t, sections[t].data + program.offsets[t][i])
            <= sections[t].length
    BY DEF LoaderInv, TablesInv, EntryHeld
  <2>3. \A i \in DOMAIN program.names :
          program.names[i].at + program.names[i].length
            <= sections[ENTR].data + sections[ENTR].length
    BY DEF LoaderInv, TablesInv, NameHeld
  <2>. QED
    BY <2>1, <2>2, <2>3 DEF ViewsHeld
<1>. QED
  BY <1>1, LoaderInvHolds, PTL

-----------------------------------------------------------------------------
(* The two readers.  Of a file that decodes, the sections found are those    *)
(* the tools find.                                                           *)
Readable == decoded # <<>>

Start(type) == sections[type].data - (HeaderSize + 8)

(* The walk is at one of the file's sections or past the last, and has found
   those behind it. *)
WalkAgrees ==
  /\ \A type \in CriticalSections : sections[type].present =>
       /\ Start(type) \in Typed(image.body, type)
       /\ sections[type].length = U32(image.body, Start(type) + 4)
  /\ stage = "sections" =>
       /\ \/ offset - HeaderSize = Len(image.body)
          \/ offset - HeaderSize \in SectionStarts(image.body)
       /\ \A type \in CriticalSections : \A at \in Typed(image.body, type) :
            sections[type].present <=> at < offset - HeaderSize

(* Where the tools find the entries of a table. *)
Following(body, t) ==
  LET data == Section(body, t)
  IN  IF t = CNST THEN [at \in 1..Len(data) |-> AfterConstant(data, at)]
      ELSE IF t = HOST THEN [at \in 1..Len(data) |-> AfterImport(data, at)]
      ELSE [at \in 1..Len(data) |-> AfterFunction(data, at)]

Cursor(body, t) == Steps(Following(body, t))

Tabled == {"count", "entries", "names", "link", "loaded"}

(* The tables read so far have the tools' entries. *)
TablesAgree ==
  /\ stage \in Tabled => \A t \in Tables :
       /\ ~ToCome(t) => program.count[t] = At(Section(image.body, t), 0)
       /\ \A i \in DOMAIN program.offsets[t] : program.offsets[t][i] = Cursor(image.body, t)[i - 1]
  /\ stage = "entries" => offset = Cursor(image.body, table)[Len(program.offsets[table])]
  /\ stage \in {"names", "link", "loaded"} => offset = Cursor(image.body, ENTR)[program.count[ENTR]]

(* What was refused was not for this device. *)
Excused(outcome) ==
  \/ outcome \in Identity
  \/ \E i \in 1..Len(decoded[1].functions) :
       decoded[1].functions[i].component >= Len(decoded[1].functions)

RefusalAgrees == stage \in {"refused", "stray"} => Excused(refusal)

(* What is kept of the names and of the links is what was checked. *)
NamesInv ==
  stage \in {"names", "link", "loaded"} =>
    \A i \in DOMAIN program.names :
      program.names[i] = [at |-> NameAt(i) + 1, length |-> ByteAt(NameAt(i))]

LinksInv ==
  stage \in {"link", "loaded"} =>
    \A i \in DOMAIN program.import_map :
      /\ LinkOutcome(i) = "none"
      /\ program.import_map[i] = EntryHashed(Word32(ImportStart(i)))

ReadInv == (Readable => WalkAgrees /\ TablesAgree /\ RefusalAgrees) /\ NamesInv /\ LinksInv

(* The next section is behind this one, and in the file. *)
LEMMA NextRange ==
  ASSUME NEW body \in Seq(Byte), NEW at \in Nat, NextSection(body, at) # Stuck
  PROVE  /\ NextSection(body, at) \in Nat /\ NextSection(body, at) <= Len(body)
         /\ at + 8 <= Len(body) /\ U32(body, at + 4) \in 0..Words32 - 1
         /\ NextSection(body, at) =
              at + 8 + (U32(body, at + 4) + Padding(U32(body, at + 4)))
         /\ NextSection(body, at) >= at + 8
         /\ Uppercase(Slice(body, at, 4)[1]) => Slice(body, at, 4) \in CriticalSections
<1>. DEFINE size == U32(body, at + 4)
            next == at + 8 + size + Padding(size)
            type == Slice(body, at, 4)
<1>1. ~(at + 8 > Len(body)) /\ next <= Len(body) /\ NextSection(body, at) = next
      /\ (Uppercase(type[1]) => type \in CriticalSections)
  BY DEF NextSection
<1>2. Len(body) \in Nat
  BY LenProperties
<1>3. at + 8 <= Len(body) /\ at + 4 \in Nat /\ (at + 4) + 4 <= Len(body)
  BY <1>1, <1>2
<1>4. size \in 0..Words32 - 1
  BY <1>3, Word32Range
<1>5. PICK z \in Nat : z = size
  BY <1>4, Words32Assumption
<1>6. PICK p \in 0..3 : p = Padding(size)
  BY <1>5, PaddingRange
<1>. HIDE DEF size, type
<1>7. next = at + 8 + z + p /\ at + 8 + z + p = at + 8 + (z + p)
  BY <1>5, <1>6
<1>8. next \in Nat /\ next >= at + 8 /\ next = at + 8 + (size + Padding(size))
  BY <1>5, <1>6, <1>7
<1>. HIDE DEF next
<1>. QED
  BY <1>1, <1>3, <1>4, <1>8 DEF size, type

(* What is left of a file behind an offset. *)
Left(body) == [at \in Nat |-> IF at >= Len(body) THEN 0 ELSE Len(body) - at]

LEMMA LeftShrinks ==
  ASSUME NEW body \in Seq(Byte)
  PROVE  /\ Left(body) \in [Nat -> Nat]
         /\ \A at \in Nat : at < Len(body) /\ NextSection(body, at) # Stuck =>
              Left(body)[NextSection(body, at)] < Left(body)[at]
<1>1. Len(body) \in Nat
  BY LenProperties
<1>2. ASSUME NEW at \in Nat, at < Len(body), NextSection(body, at) # Stuck
      PROVE  Left(body)[NextSection(body, at)] < Left(body)[at]
  <2>1. PICK n \in Nat : n = NextSection(body, at) /\ n >= at + 8
    BY <1>2, NextRange
  <2>. QED
    BY <1>1, <1>2, <2>1 DEF Left
<1>. QED
  BY <1>1, <1>2 DEF Left

(* The walk of the tools, from an offset on. *)
LEMMA StartsUnfold ==
  ASSUME NEW body \in Seq(Byte)
  PROVE  \A at \in Nat : StartsFrom(body)[at] =
           IF at >= Len(body) THEN {}
           ELSE {at} \cup (IF NextSection(body, at) = Stuck THEN {Stuck}
                           ELSE StartsFrom(body)[NextSection(body, at)])
<1>. DEFINE V == SUBSET (Nat \cup {Stuck})
            from(f, at) == IF at >= Len(body) THEN {}
                           ELSE {at} \cup (IF NextSection(body, at) = Stuck THEN {Stuck}
                                           ELSE f[NextSection(body, at)])
            rule == [f \in [Nat -> V] |-> [at \in Nat |-> from(f, at)]]
            W == CHOOSE w : w = [at \in Nat |-> from(w, at)]
<1>1. ASSUME NEW f \in [Nat -> V], NEW at \in Nat PROVE from(f, at) \in V
  <2>1. NextSection(body, at) # Stuck => f[NextSection(body, at)] \in V
    BY NextRange
  <2>. QED
    BY <2>1
<1>2. rule \in [[Nat -> V] -> [Nat -> V]]
  <2>. HIDE DEF V, from
  <2>. QED
    BY <1>1
<1>3. ASSUME NEW at \in Nat, NEW g \in [Nat -> V], NEW h \in [Nat -> V],
             \A y \in Nat : Left(body)[y] < Left(body)[at] => g[y] = h[y]
      PROVE  rule[g][at] = rule[h][at]
  <2>1. at < Len(body) /\ NextSection(body, at) # Stuck =>
          g[NextSection(body, at)] = h[NextSection(body, at)]
    BY <1>3, NextRange, LeftShrinks
  <2>2. ~(at >= Len(body)) => at < Len(body)
    BY LenProperties
  <2>3. from(g, at) = from(h, at)
    BY <2>1, <2>2
  <2>4. rule[g][at] = from(g, at) /\ rule[h][at] = from(h, at)
    <3>. HIDE DEF V, from
    <3>. QED
      OBVIOUS
  <2>. QED
    BY <2>3, <2>4
<1>4. Recursive(Nat, V, Left(body), rule)
  <2>. HIDE DEF V, rule
  <2>. QED
    BY <1>2, <1>3, LeftShrinks DEF Recursive
<1>5. PICK f \in [Nat -> V] : f = rule[f]
  <2>1. V # {}
    OBVIOUS
  <2>2. Solvable(Nat, V, rule)
    <3>. HIDE DEF V, rule
    <3>. QED
      BY <1>4, <2>1, Recursion
  <2>. HIDE DEF V, rule
  <2>. QED
    BY <2>2 DEF Solvable
<1>6. f = [at \in Nat |-> from(f, at)]
  <2>. HIDE DEF V, from
  <2>. QED
    BY <1>5
<1>7. W = [at \in Nat |-> from(W, at)]
  <2>. HIDE DEF from
  <2>. QED
    BY <1>6
<1>8. StartsFrom(body) = W
  BY Zenon DEF StartsFrom
<1>9. \A at \in Nat : W[at] = from(W, at)
  <2>. HIDE DEF W, from
  <2>. QED
    BY <1>7
<1>. HIDE DEF W
<1>. QED
  BY <1>8, <1>9

(* A walk that refuses nothing: each section is followed by the next or by the
   end, and none begins inside another. *)
Tiles(body, starts) ==
  /\ \A x \in starts : /\ x \in Nat /\ x < Len(body) /\ NextSection(body, x) # Stuck
                       /\ \/ NextSection(body, x) = Len(body)
                          \/ NextSection(body, x) \in starts
  /\ \A x, y \in starts : x < y => y >= NextSection(body, x)

LEMMA StartsTile ==
  ASSUME NEW body \in Seq(Byte), NEW at \in Nat, Stuck \notin StartsFrom(body)[at]
  PROVE  /\ Tiles(body, StartsFrom(body)[at])
         /\ \A x \in StartsFrom(body)[at] : x >= at
<1>. DEFINE Good(n) == /\ Tiles(body, StartsFrom(body)[n])
                       /\ \A x \in StartsFrom(body)[n] : x >= n
            P == {n \in Nat : Stuck \in StartsFrom(body)[n] \/ Good(n)}
<1>0. Len(body) \in Nat
  BY LenProperties
<1>1. ASSUME NEW n \in Nat, \A y \in Nat : Left(body)[y] < Left(body)[n] => y \in P,
             Stuck \notin StartsFrom(body)[n]
      PROVE  Good(n)
  <2>1. CASE n >= Len(body)
    <3>1. StartsFrom(body)[n] = {}
      BY <2>1, StartsUnfold
    <3>. QED
      BY <3>1 DEF Tiles
  <2>2. CASE n < Len(body)
    <3>1. ~(n >= Len(body))
      BY <1>0, <2>2
    <3>2. StartsFrom(body)[n] = {n} \cup (IF NextSection(body, n) = Stuck THEN {Stuck}
                                          ELSE StartsFrom(body)[NextSection(body, n)])
      BY <3>1, StartsUnfold
    <3>3. NextSection(body, n) # Stuck
      BY <1>1, <3>2
    <3>. PICK m \in Nat : m = NextSection(body, n) /\ m >= n + 8 /\ m <= Len(body)
      BY <3>3, NextRange
    <3>. PICK T : T = StartsFrom(body)[m]
      OBVIOUS
    <3>4. StartsFrom(body)[n] = {n} \cup T
      BY <3>2, <3>3
    <3>5. Stuck \notin T
      BY <1>1, <3>4
    <3>6. Good(m)
      <4>1. Left(body)[m] < Left(body)[n]
        BY <2>2, <3>3, LeftShrinks
      <4>2. m \in P
        BY <1>1, <4>1
      <4>. QED
        BY <3>5, <4>2
    <3>7. Tiles(body, T) /\ \A x \in T : x >= m /\ x \in Nat
      BY <3>6 DEF Tiles
    <3>8. m = Len(body) \/ m \in T
      <4>1. CASE m < Len(body)
        <5>1. ~(m >= Len(body))
          BY <1>0, <4>1
        <5>2. StartsFrom(body)[m] = {m} \cup (IF NextSection(body, m) = Stuck THEN {Stuck}
                                              ELSE StartsFrom(body)[NextSection(body, m)])
          BY <5>1, StartsUnfold
        <5>. QED
          BY <5>2
      <4>. QED
        BY <1>0, <4>1
    <3>9. \A x \in {n} \cup T :
            /\ x \in Nat /\ x < Len(body) /\ NextSection(body, x) # Stuck
            /\ NextSection(body, x) = Len(body) \/ NextSection(body, x) \in {n} \cup T
      BY <2>2, <3>3, <3>7, <3>8 DEF Tiles
    <3>10. ASSUME NEW x \in {n} \cup T, NEW y \in {n} \cup T, x < y
           PROVE  y >= NextSection(body, x)
      <4>1. CASE x = n
        <5>1. y \in T
          BY <3>10, <4>1
        <5>. QED
          BY <3>7, <4>1, <5>1
      <4>2. CASE x \in T /\ y = n
        BY <3>7, <3>10, <4>2
      <4>3. CASE x \in T /\ y \in T
        BY <3>7, <3>10, <4>3 DEF Tiles
      <4>. QED
        BY <4>1, <4>2, <4>3
    <3>11. \A x \in {n} \cup T : x >= n
      BY <3>7
    <3>. QED
      BY <3>4, <3>9, <3>10, <3>11 DEF Tiles
  <2>. QED
    BY <1>0, <2>1, <2>2
<1>2. \A n \in Nat : (\A y \in Nat : Left(body)[y] < Left(body)[n] => y \in P) => n \in P
  <2>. HIDE DEF Good
  <2>. QED
    BY <1>1
<1>3. Nat \subseteq P
  <2>. HIDE DEF P
  <2>1. PICK rank \in [Nat -> Nat] : rank = Left(body)
    BY LeftShrinks
  <2>2. \A n \in Nat : (\A y \in Nat : rank[y] < rank[n] => y \in P) => n \in P
    BY <1>2, <2>1
  <2>3. PICK D : D = Nat
    OBVIOUS
  <2>4. /\ rank \in [D -> Nat]
        /\ \A n \in D : (\A y \in D : rank[y] < rank[n] => y \in P) => n \in P
    BY <2>2, <2>3
  <2>5. D \subseteq P
    BY <2>4, RankInduction
  <2>. QED
    BY <2>3, <2>5
<1>. QED
  BY <1>3

-----------------------------------------------------------------------------
(* The cursor of a table, and what it says of one that decodes: it is a byte
   of the table at each entry but, perhaps, behind the last. *)
LEMMA StepsUnfold ==
  ASSUME NEW n \in Nat, NEW following \in [1..n -> Nat \cup {Stuck}]
  PROVE  /\ Steps(following)[0] = 1
         /\ \A k \in Nat : Steps(following)[k + 1] =
              IF Steps(following)[k] \in 1..n THEN following[Steps(following)[k]] ELSE Stuck
<1>. DEFINE V == Nat \cup {Stuck}
            grow == [x \in V |-> IF x \in 1..n THEN following[x] ELSE Stuck]
            step(f, k) == IF k = 0 THEN 1
                          ELSE IF f[k - 1] \in DOMAIN following THEN following[f[k - 1]]
                               ELSE Stuck
            W == CHOOSE w : w = [k \in Nat |-> step(w, k)]
<1>1. grow \in [V -> V] /\ 1 \in V
  OBVIOUS
<1>2. PICK f \in [Nat -> V] : f[0] = 1 /\ \A k \in Nat : f[k + 1] = grow[f[k]]
  <2>1. Iterated(V, 1, grow)
    <3>. HIDE DEF V, grow
    <3>. QED
      BY <1>1, Iterates
  <2>. HIDE DEF V, grow
  <2>. QED
    BY <2>1 DEF Iterated
<1>3. ASSUME NEW k \in Nat PROVE f[k] = step(f, k)
  <2>1. CASE k = 0
    BY <1>2, <2>1
  <2>2. CASE k # 0
    <3>1. k - 1 \in Nat /\ (k - 1) + 1 = k
      BY <2>2
    <3>2. f[k] = grow[f[k - 1]] /\ f[k - 1] \in V
      BY <1>2, <3>1
    <3>. QED
      BY <2>2, <3>2
  <2>. QED
    BY <2>1, <2>2
<1>4. f = [k \in Nat |-> step(f, k)]
  <2>. HIDE DEF V, step
  <2>1. f \in [Nat -> V]
    BY <1>2
  <2>. QED
    BY <1>3, <2>1
<1>5. W = [k \in Nat |-> step(W, k)]
  <2>. HIDE DEF step
  <2>. QED
    BY <1>4
<1>6. Steps(following) = W
  BY Zenon DEF Steps
<1>7. \A k \in Nat : W[k] = step(W, k)
  <2>. HIDE DEF W, step
  <2>. QED
    BY <1>5
<1>. HIDE DEF W
<1>8. W[0] = 1
  BY <1>7
<1>9. ASSUME NEW k \in Nat
      PROVE  W[k + 1] = IF W[k] \in 1..n THEN following[W[k]] ELSE Stuck
  <2>1. k + 1 \in Nat /\ k + 1 # 0 /\ (k + 1) - 1 = k
    OBVIOUS
  <2>2. W[k + 1] = step(W, k + 1)
    BY <1>7, <2>1
  <2>. QED
    BY <2>1, <2>2
<1>. QED
  BY <1>6, <1>8, <1>9

LEMMA CursorsRun ==
  ASSUME NEW data \in Seq(Byte), data # <<>>,
         NEW following \in [1..Len(data) -> Nat \cup {Stuck}],
         Last(Cursors(data, following)) # Stuck
  PROVE  /\ At(data, 0) \in Byte /\ At(data, 0) \in Nat
         /\ \A k \in 1..At(data, 0) + 1 : Cursors(data, following)[k] = Steps(following)[k - 1]
         /\ Last(Cursors(data, following)) = Steps(following)[At(data, 0)]
         /\ Steps(following)[0] = 1
         /\ \A k \in 0..At(data, 0) - 1 :
              /\ Steps(following)[k] \in 1..Len(data)
              /\ Steps(following)[k + 1] = following[Steps(following)[k]]
              /\ Steps(following)[k + 1] # Stuck
<1>1. Len(data) \in Nat /\ Len(data) >= 1 /\ data[1] \in Byte
  BY EmptySeq, LenProperties, ElementOfSeq
<1>2. PICK n \in Nat : n = At(data, 0) /\ n \in Byte
  <2>1. At(data, 0) = data[1] /\ \A b \in Byte : b \in Nat
    BY Limits DEF At
  <2>. QED
    BY <1>1, <2>1
<1>. PICK l \in Nat : l = Len(data)
  BY <1>1
<1>. PICK C : C = Cursors(data, following)
  OBVIOUS
<1>. PICK S : S = Steps(following)
  OBVIOUS
<1>3. C = [k \in 1..n + 1 |-> IF k > l THEN Stuck ELSE S[k - 1]]
  BY <1>2 DEF Cursors
<1>4. Len(C) = n + 1 /\ n + 1 \in 1..n + 1
  BY <1>3
<1>5. Last(C) = C[n + 1]
  BY <1>4 DEF Last
<1>6. ~(n + 1 > l) /\ Last(C) = S[n] /\ S[n] # Stuck
  <2>1. C[n + 1] = IF n + 1 > l THEN Stuck ELSE S[(n + 1) - 1]
    BY <1>3, <1>4
  <2>2. (n + 1) - 1 = n
    OBVIOUS
  <2>. QED
    BY <1>5, <2>1, <2>2
<1>7. \A k \in 1..n + 1 : C[k] = S[k - 1]
  BY <1>3, <1>6
<1>8. S[0] = 1 /\ \A k \in Nat : S[k + 1] = IF S[k] \in 1..l THEN following[S[k]] ELSE Stuck
  BY StepsUnfold
<1>9. \A k \in 0..n : S[k] # Stuck
  <2>. DEFINE Late == {j \in Nat : j <= n /\ S[n - j] = Stuck}
  <2>1. SUFFICES ASSUME Late # {} PROVE FALSE
    <3>1. ASSUME NEW k \in 0..n, S[k] = Stuck PROVE FALSE
      <4>1. n - k \in Nat /\ n - k <= n /\ n - (n - k) = k
        OBVIOUS
      <4>2. n - k \in Late
        BY <3>1, <4>1
      <4>. QED
        BY <2>1, <4>2
    <3>. QED
      BY <3>1
  <2>2. Late \subseteq Nat
    OBVIOUS
  <2>3. PICK j \in Late : \A i \in Late : j <= i
    <3>. HIDE DEF Late
    <3>. QED
      BY <2>1, <2>2, LeastNatural
  <2>4. j # 0
    BY <1>6
  <2>5. n - j \in Nat /\ (n - j) + 1 = n - (j - 1) /\ j - 1 \in Nat /\ j - 1 <= n
    BY <2>4
  <2>6. S[(n - j) + 1] = Stuck
    <3>1. S[n - j] \notin 1..l
      BY DEF Stuck
    <3>. QED
      BY <1>8, <2>5, <3>1
  <2>7. j - 1 \in Late
    BY <2>5, <2>6
  <2>. QED
    BY <2>3, <2>5, <2>7
<1>10. \A k \in 0..n - 1 : S[k] \in 1..l /\ S[k + 1] = following[S[k]] /\ S[k + 1] # Stuck
  <2>. TAKE k \in 0..n - 1
  <2>1. k \in Nat /\ k + 1 \in 0..n
    OBVIOUS
  <2>2. S[k + 1] # Stuck
    BY <1>9, <2>1
  <2>3. S[k + 1] = IF S[k] \in 1..l THEN following[S[k]] ELSE Stuck
    BY <1>8, <2>1
  <2>. QED
    BY <2>2, <2>3
<1>. QED
  BY <1>2, <1>6, <1>7, <1>8, <1>10

-----------------------------------------------------------------------------
(* A part of a sequence, read. *)
LEMMA PartRead ==
  ASSUME NEW body \in Seq(Byte), NEW from \in Nat, NEW length \in Nat,
         from + length <= Len(body), NEW data, data = Slice(body, from, length)
  PROVE  /\ data \in Seq(Byte) /\ Len(data) = length
         /\ \A k \in Nat : k + 1 <= length => At(data, k) = At(body, from + k)
         /\ \A k \in Nat : k + 2 <= length => U16(data, k) = U16(body, from + k)
         /\ \A k \in Nat : k + 4 <= length => U32(data, k) = U32(body, from + k)
         /\ \A k, m \in Nat : k + m <= length => Slice(data, k, m) = Slice(body, from + k, m)
<1>. PICK l \in Nat : l = Len(body)
  BY LenProperties
<1>1. \A i \in 1..l : body[i] \in Byte
  BY LenProperties, ElementOfSeq
<1>2. \A a, m \in Nat : a + m <= l =>
        /\ Slice(body, a, m) \in Seq(Byte) /\ Len(Slice(body, a, m)) = m
        /\ \A i \in 1..m : Slice(body, a, m)[i] = body[a + i]
  <2>. TAKE a \in Nat, m \in Nat
  <2>. HAVE a + m <= l
  <2>1. a + 1 \in Int /\ a + m \in Int /\ \A i \in a + 1..a + m : body[i] \in Byte
    BY <1>1
  <2>2. /\ SubSeq(body, a + 1, a + m) \in Seq(Byte)
        /\ Len(SubSeq(body, a + 1, a + m)) = IF a + 1 <= a + m THEN (a + m) - (a + 1) + 1 ELSE 0
        /\ \A i \in 1..(a + m) - (a + 1) + 1 :
             SubSeq(body, a + 1, a + m)[i] = body[(a + 1) + i - 1]
    BY <2>1, SubSeqProperties
  <2>3. (IF a + 1 <= a + m THEN (a + m) - (a + 1) + 1 ELSE 0) = m
        /\ (a + m) - (a + 1) + 1 = m /\ \A i \in 1..m : (a + 1) + i - 1 = a + i
    OBVIOUS
  <2>. QED
    BY <2>2, <2>3 DEF Slice
<1>3. data \in Seq(Byte) /\ Len(data) = length /\ \A i \in 1..length : data[i] = body[from + i]
  BY <1>2
<1>4. \A k \in Nat : k + 1 <= length => At(data, k) = At(body, from + k)
  <2>. TAKE k \in Nat
  <2>. HAVE k + 1 <= length
  <2>1. k + 1 \in 1..length /\ from + (k + 1) = (from + k) + 1
    OBVIOUS
  <2>. QED
    BY <1>3, <2>1 DEF At
<1>5. \A k \in Nat : k + 2 <= length => U16(data, k) = U16(body, from + k)
  <2>. TAKE k \in Nat
  <2>. HAVE k + 2 <= length
  <2>1. k + 1 \in Nat /\ k + 1 <= length /\ (k + 1) + 1 <= length /\ from + (k + 1) = (from + k) + 1
    OBVIOUS
  <2>2. At(data, k) = At(body, from + k) /\ At(data, k + 1) = At(body, (from + k) + 1)
    BY <1>4, <2>1
  <2>. QED
    BY <2>2 DEF U16
<1>6. \A k \in Nat : k + 4 <= length => U32(data, k) = U32(body, from + k)
  <2>. TAKE k \in Nat
  <2>. HAVE k + 4 <= length
  <2>1. k + 2 \in Nat /\ k + 2 <= length /\ (k + 2) + 2 <= length /\ from + (k + 2) = (from + k) + 2
    OBVIOUS
  <2>2. U16(data, k) = U16(body, from + k) /\ U16(data, k + 2) = U16(body, (from + k) + 2)
    BY <1>5, <2>1
  <2>. QED
    BY <2>2 DEF U32
<1>7. \A k, m \in Nat : k + m <= length => Slice(data, k, m) = Slice(body, from + k, m)
  <2>. TAKE k \in Nat, m \in Nat
  <2>. HAVE k + m <= length
  <2>1. k + 1 \in Int /\ k + m \in Int /\ \A i \in k + 1..k + m : data[i] \in Byte
    <3>1. \A i \in 1..length : data[i] \in Byte
      BY <1>3, ElementOfSeq
    <3>. QED
      BY <3>1
  <2>2. /\ SubSeq(data, k + 1, k + m) \in Seq(Byte)
        /\ Len(SubSeq(data, k + 1, k + m)) = IF k + 1 <= k + m THEN (k + m) - (k + 1) + 1 ELSE 0
        /\ \A i \in 1..(k + m) - (k + 1) + 1 :
             SubSeq(data, k + 1, k + m)[i] = data[(k + 1) + i - 1]
    BY <2>1, SubSeqProperties
  <2>3. (IF k + 1 <= k + m THEN (k + m) - (k + 1) + 1 ELSE 0) = m
        /\ (k + m) - (k + 1) + 1 = m /\ \A i \in 1..m : (k + 1) + i - 1 = k + i
    OBVIOUS
  <2>4. /\ Slice(data, k, m) \in Seq(Byte) /\ Len(Slice(data, k, m)) = m
        /\ \A i \in 1..m : Slice(data, k, m)[i] = data[k + i]
    BY <2>2, <2>3 DEF Slice
  <2>5. from + k \in Nat /\ (from + k) + m <= l
    OBVIOUS
  <2>6. /\ Slice(body, from + k, m) \in Seq(Byte) /\ Len(Slice(body, from + k, m)) = m
        /\ \A i \in 1..m : Slice(body, from + k, m)[i] = body[(from + k) + i]
    BY <1>2, <2>5
  <2>7. \A i \in 1..m : data[k + i] = body[(from + k) + i]
    <3>. TAKE i \in 1..m
    <3>1. k + i \in 1..length /\ from + (k + i) = (from + k) + i
      OBVIOUS
    <3>. QED
      BY <1>3, <3>1
  <2>. PICK x \in Seq(Byte), y \in Seq(Byte) :
         x = Slice(data, k, m) /\ y = Slice(body, from + k, m)
    BY <2>4, <2>6
  <2>8. Len(x) = Len(y) /\ \A i \in 1..Len(x) : x[i] = y[i]
    BY <2>4, <2>6, <2>7
  <2>9. x = y
    BY <2>8, SeqEqual
  <2>. QED
    BY <2>9
<1>. QED
  BY <1>3, <1>4, <1>5, <1>6, <1>7

(* The sections of a file that decodes tile it, and each critical one is there
   once. *)
LEMMA SectionsTile ==
  ASSUME NEW body \in Seq(Byte), SectionsDecode(body)
  PROVE  /\ \A at \in SectionStarts(body) :
              at \in Nat /\ at < Len(body) /\ NextSection(body, at) # Stuck
         /\ Tiles(body, SectionStarts(body))
<1>1. Stuck \notin StartsFrom(body)[0] /\ SectionStarts(body) = StartsFrom(body)[0]
  BY DEF SectionsDecode, SectionStarts
<1>2. Tiles(body, SectionStarts(body))
  BY <1>1, StartsTile
<1>. QED
  BY <1>2 DEF Tiles

LEMMA OneSection ==
  ASSUME NEW body \in Seq(Byte), SectionsDecode(body), NEW type \in CriticalSections
  PROVE  \E at \in SectionStarts(body) :
           /\ at \in Nat /\ at < Len(body) /\ NextSection(body, at) # Stuck
           /\ Typed(body, type) = {at} /\ Slice(body, at, 4) = type
           /\ Section(body, type) = Slice(body, at + 8, U32(body, at + 4))
<1>3. \A at \in SectionStarts(body) :
        at \in Nat /\ at < Len(body) /\ NextSection(body, at) # Stuck
  BY SectionsTile
<1>4. Typed(body, type) \subseteq SectionStarts(body) /\ Cardinality(Typed(body, type)) = 1
  BY DEF Typed, SectionsDecode
<1>5. IsFiniteSet(Typed(body, type))
  <2>1. PICK l \in Nat : l = Len(body)
    BY LenProperties
  <2>2. \A at \in SectionStarts(body) : at \in 0..l
    BY <1>3, <2>1
  <2>3. Typed(body, type) \in SUBSET (0..l)
    BY <1>4, <2>2
  <2>4. IsFiniteSet(0..l)
    BY <2>1, FS_Interval
  <2>. QED
    BY <2>3, <2>4, FS_Subset
<1>6. PICK at : Typed(body, type) = {at}
  BY <1>4, <1>5, FS_Singleton
<1>7. at \in SectionStarts(body) /\ at \in Nat /\ Slice(body, at, 4) = type
  BY <1>3, <1>4, <1>6 DEF Typed
<1>8. Min(Typed(body, type)) = at
  BY <1>6, <1>7, MinOfNaturals
<1>9. Section(body, type) = Slice(body, at + 8, U32(body, at + 4))
  BY <1>8 DEF Section
<1>. QED
  BY <1>3, <1>6, <1>7, <1>9

(* What a loader past the walk reads of a section is what the tools read. *)
SectionRead(type) ==
  LET data == Section(image.body, type)
      at   == sections[type].data
  IN  /\ data \in Seq(Byte) /\ Len(data) = sections[type].length
      /\ at \in Nat /\ at >= HeaderSize + 8 /\ Held(at, Len(data)) /\ ~Overlong(type)
      /\ \A k \in Nat : k + 1 <= Len(data) => At(data, k) = ByteAt(at + k)
      /\ \A k \in Nat : k + 2 <= Len(data) => U16(data, k) = Word16(at + k)
      /\ \A k \in Nat : k + 4 <= Len(data) => U32(data, k) = Word32(at + k)
      /\ \A k, m \in Nat : k + m <= Len(data) =>
           Slice(data, k, m) = Slice(image.body, (at + k) - HeaderSize, m)

LEMMA ReadableDecodes ==
  ASSUME LoaderInv, Readable
  PROVE  /\ Decodes(image) /\ decoded[1] = Decode(image) /\ SectionsDecode(image.body)
         /\ image.body \in Seq(Byte)
<1>1. decoded = DecodeOf(image) /\ IsFile(image)
  BY DEF LoaderInv, FileInv
<1>2. Decodes(image) /\ decoded = <<Decode(image)>>
  BY <1>1 DEF Readable, DecodeOf
<1>. QED
  BY <1>1, <1>2, FileShape DEF Decodes

LEMMA SectionsAgree ==
  ASSUME LoaderInv, Readable, WalkAgrees, stage \in Walked, NEW type \in CriticalSections
  PROVE  SectionRead(type)
<1>1. SectionsDecode(image.body) /\ image.body \in Seq(Byte)
  BY ReadableDecodes
<1>2. PICK at \in SectionStarts(image.body) :
        /\ Typed(image.body, type) = {at}
        /\ Section(image.body, type) = Slice(image.body, at + 8, U32(image.body, at + 4))
        /\ at \in Nat /\ NextSection(image.body, at) # Stuck
  BY <1>1, OneSection
<1>3. /\ sections[type].present /\ sections[type].data \in Nat
      /\ sections[type].data >= HeaderSize + 8
      /\ IsFile(image) /\ image.held = HeaderSize
  BY PastTheWalk
<1>4. Start(type) = at /\ sections[type].length = U32(image.body, at + 4)
  BY <1>2, <1>3 DEF WalkAgrees
<1>. PICK d \in Nat, l \in Nat, n \in Nat :
       d = sections[type].data /\ l = sections[type].length /\ n = Len(image.body)
  BY <1>3, PastTheWalk, FileShape
<1>5. d = at + 8 + HeaderSize /\ d - HeaderSize = at + 8 /\ at + 8 \in Nat
  <2>1. PICK e \in Nat : e = at
    BY <1>2
  <2>2. Start(type) = d - (HeaderSize + 8)
    BY DEF Start
  <2>3. d - (HeaderSize + 8) = e
    BY <1>4, <2>1, <2>2
  <2>4. d = e + 8 + HeaderSize /\ d - HeaderSize = e + 8 /\ e + 8 \in Nat
    BY ONLY <2>3, d \in Nat, e \in Nat DEF HeaderSize
  <2>. QED
    BY <2>1, <2>4
<1>6. at + 8 + l <= n
  <2>1. NextSection(image.body, at) <= n
        /\ NextSection(image.body, at) = at + 8 + (l + Padding(l))
    BY <1>1, <1>2, <1>4, NextRange
  <2>2. PICK p \in 0..3 : p = Padding(l)
    BY PaddingRange
  <2>. QED
    <3>1. PICK e \in Nat : e = at
      BY <1>2
    <3>2. e + 8 + (l + p) <= n
      BY <2>1, <2>2, <3>1
    <3>3. e + 8 + l <= n
      BY ONLY <3>2, e \in Nat, l \in Nat, n \in Nat, p \in 0..3
    <3>. QED
      BY <3>1, <3>3
<1>. PICK data : data = Section(image.body, type)
  OBVIOUS
<1>. PICK body \in Seq(Byte), f \in Nat : body = image.body /\ f = at + 8
  BY <1>1, <1>5
<1>11. f + l <= Len(body) /\ data = Slice(body, f, l)
  BY <1>2, <1>4, <1>6
<1>7. /\ data \in Seq(Byte) /\ Len(data) = l
      /\ \A k \in Nat : k + 1 <= l => At(data, k) = At(image.body, (at + 8) + k)
      /\ \A k \in Nat : k + 2 <= l => U16(data, k) = U16(image.body, (at + 8) + k)
      /\ \A k \in Nat : k + 4 <= l => U32(data, k) = U32(image.body, (at + 8) + k)
      /\ \A k, m \in Nat : k + m <= l => Slice(data, k, m) = Slice(image.body, (at + 8) + k, m)
  <2>1. /\ data \in Seq(Byte) /\ Len(data) = l
        /\ \A k \in Nat : k + 1 <= l => At(data, k) = At(body, f + k)
        /\ \A k \in Nat : k + 2 <= l => U16(data, k) = U16(body, f + k)
        /\ \A k \in Nat : k + 4 <= l => U32(data, k) = U32(body, f + k)
        /\ \A k, m \in Nat : k + m <= l => Slice(data, k, m) = Slice(body, f + k, m)
    BY ONLY <1>11, body \in Seq(Byte), f \in Nat, l \in Nat, PartRead
  <2>. QED
    BY ONLY <2>1, body = image.body, f = at + 8
<1>8. \A k \in Nat : (d + k) - HeaderSize = (at + 8) + k
  BY <1>2, <1>5 DEF HeaderSize
<1>9. Held(d, l)
  <2>1. Length(image) = 28 + n
    BY <1>3, FileShape DEF HeaderSize
  <2>2. PICK e \in Nat : e = at
    BY <1>2
  <2>3. d = e + 36 /\ e + 8 + l <= n
    BY <1>5, <1>6, <2>2 DEF HeaderSize
  <2>4. d + l <= 28 + n
    BY ONLY <2>3, d \in Nat, l \in Nat, n \in Nat, e \in Nat
  <2>. QED
    BY <2>1, <2>4 DEF Held
<1>10. ~Lost(l)
  <2>1. HeaderRefusal = "none"
    BY DEF LoaderInv, StageInv, Passed
  <2>2. image.total_length = Length(image)
    BY <2>1 DEF HeaderRefusal
  <2>3. image.total_length \in 0..Words32 - 1
    BY <1>3 DEF IsFile, File
  <2>4. HeaderSize + n <= Words32 - 1
    BY <1>3, <2>2, <2>3, FileShape
  <2>5. PICK w \in Nat, p \in 0..3 : w = Words32 /\ p = Padding(l) /\ w <= SizeT
    BY Words32Assumption, SizeAssumption, PaddingRange
  <2>6. PICK e \in Nat : e = at
    BY <1>2
  <2>7. e + 8 + (l + p) <= n
    BY <1>1, <1>2, <1>4, <2>5, <2>6, NextRange
  <2>8. 28 + n <= w - 1
    BY <2>4, <2>5 DEF HeaderSize
  <2>9. ~(l + p >= w) /\ 8 + l + p < w
    BY ONLY <2>7, <2>8, e \in Nat, l \in Nat, n \in Nat, p \in 0..3, w \in Nat
  <2>. QED
    BY <2>5, <2>9, SizeAssumption DEF Lost
<1>12. \A k \in Nat : k + 1 <= l => At(data, k) = ByteAt(d + k)
  BY <1>7, <1>8 DEF ByteAt
<1>13. \A k \in Nat : k + 2 <= l => U16(data, k) = Word16(d + k)
  BY <1>7, <1>8 DEF Word16
<1>14. \A k \in Nat : k + 4 <= l => U32(data, k) = Word32(d + k)
  BY <1>7, <1>8 DEF Word32
<1>15. \A k, m \in Nat : k + m <= l =>
         Slice(data, k, m) = Slice(image.body, (d + k) - HeaderSize, m)
  BY <1>7, <1>8
<1>16. d >= HeaderSize + 8 /\ Held(d, Len(data)) /\ ~Overlong(type)
  BY <1>3, <1>7, <1>9, <1>10 DEF Overlong
<1>. QED
  BY <1>7, <1>12, <1>13, <1>14, <1>15, <1>16, ZenonT(40) DEF SectionRead

-----------------------------------------------------------------------------
(* A load that ends is in step with the tools' if what ends it is excused. *)
LEMMA WalkStays ==
  ASSUME WalkAgrees, UNCHANGED <<image, sections>>, stage' # "sections"
  PROVE  WalkAgrees'
BY DEF WalkAgrees, Start

LEMMA EndAgrees ==
  ASSUME LoaderInv, ReadInv, NEW o, End(o), Readable => Excused(o)
  PROVE  ReadInv'
<1>1. /\ stage' \in {"refused", "stray"} /\ refusal' = o
      /\ UNCHANGED <<source, image, delivery, decoded, sections, table, offset, program, host>>
  BY DEF End, fileVars
<1>2. Readable' <=> Readable
  BY <1>1 DEF Readable
<1>3. Readable => WalkAgrees'
  BY <1>1, WalkStays DEF ReadInv
<1>4. Readable => TablesAgree'
  BY <1>1 DEF TablesAgree, Tabled
<1>5. Readable => RefusalAgrees'
  BY <1>1 DEF RefusalAgrees, Excused
<1>6. NamesInv' /\ LinksInv'
  BY <1>1 DEF NamesInv, LinksInv
<1>. QED
  BY <1>2, <1>3, <1>4, <1>5, <1>6 DEF ReadInv

(* Where nothing has been read. *)
LEMMA NothingRead ==
  ASSUME stage \in {"encoded", "header"}, sections = NoSections
  PROVE  ReadInv
<1>1. WalkAgrees
  BY NothingFound DEF WalkAgrees
<1>2. TablesAgree /\ RefusalAgrees
  BY DEF TablesAgree, Tabled, RefusalAgrees
<1>. QED
  BY <1>1, <1>2 DEF ReadInv, NamesInv, LinksInv

LEMMA InitReads ==
  LoaderInit => ReadInv
BY NothingRead DEF LoaderInit

LEMMA DeliverReads ==
  ASSUME LoaderInv, Deliver
  PROVE  ReadInv'
<1>1. stage = "encoded"
  BY DEF Deliver, DeliverIntact, DeliverCut, DeliverFlipped, DeliverWritten
<1>2. stage' = "header" /\ sections' = sections
  BY DEF Deliver
<1>3. sections' = NoSections
  BY <1>1, <1>2 DEF LoaderInv, SectionsInv
<1>4. WalkAgrees'
  BY <1>2, <1>3, NothingFound DEF WalkAgrees
<1>5. TablesAgree' /\ RefusalAgrees'
  BY <1>2 DEF TablesAgree, Tabled, RefusalAgrees
<1>. QED
  BY <1>2, <1>4, <1>5 DEF ReadInv, NamesInv, LinksInv

LEMMA HeaderReads ==
  ASSUME LoaderInv, ReadInv, Header
  PROVE  ReadInv'
<1>1. stage = "header" /\ sections = NoSections
  BY DEF Header, LoaderInv, SectionsInv
<1>2. CASE HeaderRefusal # "none"
  <2>1. End(HeaderRefusal)
    BY <1>2 DEF Header
  <2>2. ASSUME Readable PROVE Excused(HeaderRefusal)
    <3>1. HeaderDecodes(image) /\ IsFile(image)
      BY <2>2, ReadableDecodes DEF Decodes, LoaderInv, FileInv
    <3>2. PICK n \in Nat : n = Length(image) /\ n >= HeaderSize
      BY <3>1, FileShape DEF HeaderDecodes
    <3>3. ~(n < HeaderSize)
      BY <3>2 DEF HeaderSize
    <3>4. image.format_version \in Nat
      BY <3>1 DEF IsFile, File
    <3>5. ~(image.format_version > FormatVersion)
      BY <3>1, <3>4 DEF HeaderDecodes, FormatVersion
    <3>6. HeaderRefusal \in {"profile_mismatch", "unsupported_group"}
      BY <1>2, <3>1, <3>2, <3>3, <3>5 DEF HeaderDecodes, HeaderRefusal
    <3>. QED
      BY <3>6 DEF Excused, Identity
  <2>. QED
    BY <2>1, <2>2, EndAgrees
<1>3. CASE HeaderRefusal = "none"
  <2>1. /\ stage' = "sections" /\ offset' = HeaderSize
        /\ UNCHANGED <<source, image, delivery, decoded, refusal, sections, table, host>>
    BY <1>3 DEF Header, fileVars
  <2>2. Readable' <=> Readable
    BY <2>1 DEF Readable
  <2>3. ASSUME Readable PROVE WalkAgrees'
    <3>1. SectionsDecode(image.body) /\ image.body \in Seq(Byte)
      BY <2>3, ReadableDecodes
    <3>2. SectionStarts(image.body) = StartsFrom(image.body)[0]
      BY DEF SectionStarts
    <3>3. Len(image.body) = 0 \/ 0 \in SectionStarts(image.body)
      <4>1. Len(image.body) \in Nat
        BY <3>1, LenProperties
      <4>2. Len(image.body) # 0 => ~(0 >= Len(image.body))
        BY <4>1
      <4>. PICK body \in Seq(Byte) : body = image.body
        BY <3>1
      <4>3. StartsFrom(body)[0] =
              IF 0 >= Len(body) THEN {}
              ELSE {0} \cup (IF NextSection(body, 0) = Stuck THEN {Stuck}
                             ELSE StartsFrom(body)[NextSection(body, 0)])
        BY StartsUnfold
      <4>4. Len(body) # 0 => 0 \in StartsFrom(body)[0]
        BY <4>2, <4>3
      <4>. QED
        BY <3>2, <4>4
    <3>4. \A type \in CriticalSections : \A at \in Typed(image.body, type) :
            at \in Nat
      BY <3>1, SectionsTile DEF Typed
    <3>5. HeaderSize - HeaderSize = 0
      BY DEF HeaderSize
    <3>6. \A type \in CriticalSections : \A at \in Typed(image.body, type) : ~(at < 0)
      BY <3>4
    <3>. QED
      BY <1>1, <2>1, <3>3, <3>5, <3>6, NothingFound DEF WalkAgrees
  <2>4. TablesAgree' /\ RefusalAgrees'
    BY <2>1 DEF TablesAgree, Tabled, RefusalAgrees
  <2>. QED
    BY <2>1, <2>2, <2>3, <2>4 DEF ReadInv, NamesInv, LinksInv
<1>. QED
  BY <1>2, <1>3

(* A turn of the walk at a section the tools know takes it, if the loader needs
   it, and goes on to the section the tools go on to. *)
LEMMA WalkTakes ==
  ASSUME LoaderInv, Readable, WalkAgrees, stage = "sections", offset < Length(image)
  PROVE  /\ SectionOutcome = "none"
         /\ offset - HeaderSize \in SectionStarts(image.body)
         /\ offset \in Nat /\ offset >= HeaderSize
         /\ Ahead = HeaderSize + NextSection(image.body, offset - HeaderSize)
<1>1. SectionsDecode(image.body) /\ image.body \in Seq(Byte)
  BY ReadableDecodes
<1>2. IsFile(image) /\ image.held = HeaderSize /\ image.total_length = Length(image)
      /\ offset \in Nat /\ offset >= HeaderSize
  BY HeaderTaken DEF LoaderInv, FileInv, StageInv, Passed, SectionsInv
<1>. PICK n \in Nat, at \in Nat : n = Len(image.body) /\ at = offset - HeaderSize
  BY <1>2, FileShape DEF HeaderSize
<1>. PICK body \in Seq(Byte) : body = image.body
  BY <1>1
<1>3. offset = at + HeaderSize /\ Length(image) = HeaderSize + n /\ at < n
  BY <1>2, FileShape DEF HeaderSize
<1>4. at \in SectionStarts(body)
  BY <1>3 DEF WalkAgrees
<1>5. NextSection(body, at) # Stuck
  BY <1>1, <1>4, SectionsTile
<1>6. /\ U32(body, at + 4) \in 0..Words32 - 1
      /\ NextSection(body, at) \in Nat /\ NextSection(body, at) <= n
      /\ NextSection(body, at) = at + 8 + (U32(body, at + 4) + Padding(U32(body, at + 4)))
      /\ at + 8 <= n
      /\ (Uppercase(Slice(body, at, 4)[1]) => Slice(body, at, 4) \in CriticalSections)
  BY <1>5, NextRange
<1>7. Word32(offset + 4) = U32(body, at + 4)
  <2>1. (offset + 4) - HeaderSize = at + 4
    BY <1>3 DEF HeaderSize
  <2>. QED
    BY <2>1 DEF Word32
<1>8. PICK size \in Nat, p \in 0..3 : size = U32(body, at + 4) /\ p = Padding(size)
  BY <1>6, PaddingRange, Words32Assumption
<1>9. size + p \in 0..Words32 - 1
  <2>1. image.total_length \in 0..Words32 - 1
    BY <1>2 DEF IsFile, File
  <2>. PICK w \in Nat : w = Words32
    BY Words32Assumption
  <2>2. 28 + n <= w - 1
    BY <1>2, <1>3, <2>1 DEF HeaderSize
  <2>3. at + 8 + (size + p) <= n
    BY <1>6, <1>8
  <2>. QED
    BY <2>2, <2>3
<1>10. Padded = size + p
  BY <1>7, <1>8, <1>9, WordItself, Words32Assumption DEF Padded
<1>11. Ahead = HeaderSize + NextSection(body, at)
       /\ ~(offset + 8 > Length(image)) /\ ~(Ahead > Length(image)) /\ ~(Ahead < offset)
  <2>1. NextSection(body, at) = at + 8 + (size + p) /\ at + 8 + (size + p) <= n /\ at + 8 <= n
    BY <1>6, <1>8
  <2>2. Length(image) = 28 + n /\ offset = at + 28 /\ HeaderSize = 28
    BY <1>3 DEF HeaderSize
  <2>3. PICK w \in Nat : w = SizeT /\ 28 + n + 8 <= w
    BY <1>2, <2>2, FileShape, SizeAssumption
  <2>4. PICK sum \in Nat : sum = offset + 8 + (size + p)
    BY ONLY <2>2, at \in Nat, size \in Nat, p \in 0..3
  <2>5. sum = 28 + (at + 8 + (size + p)) /\ sum <= 28 + n /\ offset <= sum
    BY <2>1, <2>2, <2>4
  <2>6. sum \in 0..w - 1 /\ w \in Nat \ {0}
    BY <2>3, <2>5
  <2>7. Ahead = sum
    BY <1>10, <2>3, <2>4, <2>6, WordItself DEF Ahead
  <2>. QED
    BY <2>1, <2>2, <2>5, <2>7
<1>12. Slice(body, at, 4) \in CriticalSections => ~sections[Slice(body, at, 4)].present
  <2>1. SUFFICES ASSUME Slice(body, at, 4) \in CriticalSections
                 PROVE  ~sections[Slice(body, at, 4)].present
    OBVIOUS
  <2>2. at \in Typed(body, Slice(body, at, 4))
    <3>1. at # Stuck
      BY DEF Stuck
    <3>. QED
      BY <1>4, <3>1 DEF Typed
  <2>3. ~(at < at)
    OBVIOUS
  <2>. QED
    BY <2>1, <2>2, <2>3 DEF WalkAgrees
<1>13. SectionOutcome = "none"
  BY <1>6, <1>11, <1>12 DEF SectionOutcome
<1>. QED
  BY <1>2, <1>4, <1>11, <1>13

LEMMA WalkReads ==
  ASSUME LoaderInv, ReadInv, WalkSection
  PROVE  ReadInv'
<1>1. stage = "sections" /\ offset < Length(image)
  BY DEF WalkSection
<1>2. CASE SectionOutcome # "none"
  <2>1. End(SectionOutcome)
    BY <1>2 DEF WalkSection
  <2>. QED
    BY <1>1, <1>2, <2>1, WalkTakes, EndAgrees DEF ReadInv
<1>3. CASE SectionOutcome = "none"
  <2>. DEFINE type  == Slice(image.body, offset - HeaderSize, 4)
              found == [present |-> TRUE, data |-> offset + 8, length |-> Word32(offset + 4)]
  <2>1. /\ sections' = IF type \in CriticalSections
                       THEN [sections EXCEPT ![type] = found] ELSE sections
        /\ offset' = Ahead
        /\ UNCHANGED <<source, image, delivery, decoded, stage, refusal, table, program, host>>
    BY <1>3 DEF WalkSection, fileVars
  <2>2. Readable' <=> Readable
    BY <2>1 DEF Readable
  <2>3. ASSUME Readable PROVE WalkAgrees'
    <3>1. SectionsDecode(image.body) /\ image.body \in Seq(Byte) /\ WalkAgrees
      BY <2>3, ReadableDecodes DEF ReadInv
    <3>. PICK body \in Seq(Byte), n \in Nat : body = image.body /\ n = Len(body)
      BY <3>1, LenProperties
    <3>2. /\ offset - HeaderSize \in SectionStarts(body)
          /\ offset \in Nat /\ offset >= HeaderSize
          /\ offset' = HeaderSize + NextSection(body, offset - HeaderSize)
      BY <1>1, <2>1, <2>3, <3>1, WalkTakes
    <3>. PICK at \in Nat : at = offset - HeaderSize
      BY <3>2 DEF HeaderSize
    <3>. PICK starts : starts = SectionStarts(body)
      OBVIOUS
    <3>3. at \in starts /\ Tiles(body, starts) /\ NextSection(body, at) # Stuck
      BY <3>1, <3>2, SectionsTile
    <3>4. PICK next \in Nat : next = NextSection(body, at) /\ next >= at + 8
      BY <3>3, NextRange
    <3>5. offset' - HeaderSize = next /\ (next = n \/ next \in starts)
      BY <3>2, <3>3, <3>4 DEF Tiles, HeaderSize
    <3>6. \A x \in starts : x \in Nat /\ (x < next <=> x <= at)
      BY <3>3, <3>4 DEF Tiles
    <3>7. /\ sections \in [CriticalSections -> Sections]
          /\ \A t \in CriticalSections : sections[t].present =>
               /\ Start(t) \in Typed(body, t)
               /\ sections[t].length = U32(body, Start(t) + 4)
          /\ \A t \in CriticalSections : \A x \in Typed(body, t) :
               sections[t].present <=> x < at
      BY <1>1, <3>1 DEF LoaderInv, SectionsInv, WalkAgrees
    <3>8. \A t \in CriticalSections : \A x \in Typed(body, t) :
            /\ x \in starts /\ Slice(body, x, 4) = t
            /\ t = type => x = at
      <4>1. at \in Typed(body, type)
        BY <3>3 DEF Typed, Stuck
      <4>2. \A t \in CriticalSections : \E x : Typed(body, t) = {x}
        BY <3>1, OneSection
      <4>3. \A t \in CriticalSections : \A x \in Typed(body, t) :
              x \in starts /\ Slice(body, x, 4) = t
        BY DEF Typed
      <4>4. \A t \in CriticalSections : \A x \in Typed(body, t) : t = type => x = at
        <5>. HIDE DEF type
        <5>. QED
          BY <4>1, <4>2
      <4>. QED
        BY <4>3, <4>4
    <3>9. /\ found.present /\ found.data - (HeaderSize + 8) = at
          /\ found.length = U32(body, at + 4)
      <4>1. (offset + 4) - HeaderSize = at + 4 /\ (offset + 8) - (HeaderSize + 8) = at
        BY <3>2 DEF HeaderSize
      <4>. QED
        BY <4>1 DEF Word32
    <3>10. type = Slice(body, at, 4)
      OBVIOUS
    <3>11. at \in Typed(body, type)
      BY <3>3, <3>10 DEF Typed, Stuck
    <3>. HIDE DEF type, found
    <3>12. \A t \in CriticalSections :
             sections'[t] = IF t = type THEN found ELSE sections[t]
      BY <2>1, <3>7
    <3>13. \A t \in CriticalSections : sections'[t].present =>
             /\ sections'[t].data - (HeaderSize + 8) \in Typed(body, t)
             /\ sections'[t].length = U32(body, (sections'[t].data - (HeaderSize + 8)) + 4)
      BY <3>7, <3>9, <3>11, <3>12 DEF Start
    <3>14. \A t \in CriticalSections : \A x \in Typed(body, t) :
             sections'[t].present <=> x < next
      <4>. TAKE t \in CriticalSections
      <4>. TAKE x \in Typed(body, t)
      <4>1. x \in starts /\ x \in Nat /\ (x < next <=> x <= at)
        BY <3>6, <3>8
      <4>2. CASE t = type
        <5>1. x = at /\ sections'[t].present
          BY <3>8, <3>9, <3>12, <4>2
        <5>. QED
          BY <4>1, <5>1
      <4>3. CASE t # type
        <5>1. x # at
          BY <3>8, <3>10, <4>3
        <5>2. sections'[t].present <=> x < at
          BY <3>7, <3>12, <4>3
        <5>. QED
          BY <4>1, <5>1, <5>2
      <4>. QED
        BY <4>2, <4>3
    <3>15. stage' = "sections" /\ image'.body = body
      BY <1>1, <2>1
    <3>. QED
      BY <3>5, <3>13, <3>14, <3>15 DEF WalkAgrees, Start
  <2>4. TablesAgree' /\ RefusalAgrees'
    BY <1>1, <2>1 DEF TablesAgree, Tabled, RefusalAgrees
  <2>. QED
    BY <1>1, <2>1, <2>2, <2>3, <2>4 DEF ReadInv, NamesInv, LinksInv
<1>. QED
  BY <1>2, <1>3

LEMMA EndSectionsReads ==
  ASSUME LoaderInv, ReadInv, EndSections
  PROVE  ReadInv'
<1>1. stage = "sections" /\ offset >= Length(image)
  BY DEF EndSections
<1>2. ASSUME Readable, NEW type \in CriticalSections PROVE sections[type].present
  <2>1. SectionsDecode(image.body) /\ image.body \in Seq(Byte) /\ WalkAgrees
    BY <1>2, ReadableDecodes DEF ReadInv
  <2>2. IsFile(image) /\ image.held = HeaderSize /\ offset \in Nat /\ offset >= HeaderSize
    BY <1>1, HeaderTaken DEF LoaderInv, FileInv, StageInv, Passed, SectionsInv
  <2>. PICK n \in Nat, at \in Nat : n = Len(image.body) /\ at = offset - HeaderSize
    BY <2>2, FileShape DEF HeaderSize
  <2>3. at >= n
    BY <1>1, <2>2, FileShape DEF HeaderSize
  <2>4. PICK x \in SectionStarts(image.body) :
          Typed(image.body, type) = {x} /\ x \in Nat /\ x < n
    BY <2>1, OneSection
  <2>5. x < at
    BY <2>3, <2>4
  <2>. QED
    BY <1>1, <2>1, <2>4, <2>5 DEF WalkAgrees
<1>3. CASE \E type \in CriticalSections : ~sections[type].present
  <2>1. End("missing_section") /\ ~Readable
    BY <1>2, <1>3 DEF EndSections
  <2>. QED
    BY <2>1, EndAgrees
<1>4. CASE \A type \in CriticalSections : sections[type].present
  <2>1. /\ stage' = "count" /\ table' = CNST
        /\ UNCHANGED <<source, image, delivery, decoded, refusal, sections, offset, program, host>>
    BY <1>4 DEF EndSections, fileVars
  <2>2. Readable' <=> Readable
    BY <2>1 DEF Readable
  <2>3. Readable => WalkAgrees'
    BY <2>1, WalkStays DEF ReadInv
  <2>4. TablesAgree'
    <3>1. \A t \in Tables : program.offsets[t] = <<>>
      BY <1>1 DEF LoaderInv, TurnInv, ToCome
    <3>2. \A t \in Tables : ToCome(t)'
      BY <2>1, SectionsDiffer DEF ToCome, Turn
    <3>3. DOMAIN <<>> = {}
      OBVIOUS
    <3>. QED
      BY <2>1, <3>1, <3>2, <3>3 DEF TablesAgree
  <2>5. RefusalAgrees'
    BY <2>1 DEF RefusalAgrees
  <2>. QED
    BY <2>1, <2>2, <2>3, <2>4, <2>5 DEF ReadInv, NamesInv, LinksInv
<1>. QED
  BY <1>3, <1>4

-----------------------------------------------------------------------------
(* The entry behind the one at an offset. *)
LEMMA AfterRange ==
  ASSUME NEW data \in Seq(Byte), NEW at \in 1..Len(data)
  PROVE  /\ AfterConstant(data, at) = Stuck \/ AfterConstant(data, at) \in 1..Len(data)
         /\ AfterImport(data, at) = Stuck \/ AfterImport(data, at) \in 1..Len(data)
         /\ AfterFunction(data, at) = Stuck \/ AfterFunction(data, at) \in 1..Len(data)
<1>. PICK l \in Nat : l = Len(data)
  BY LenProperties
<1>1. \A k \in Nat : k < l => At(data, k) \in Nat
  <2>. TAKE k \in Nat
  <2>. HAVE k < l
  <2>1. k + 1 \in 1..l
    OBVIOUS
  <2>2. data[k + 1] \in Byte /\ \A b \in Byte : b \in Nat
    BY <2>1, ElementOfSeq, Limits
  <2>. QED
    BY <2>2 DEF At
<1>2. AfterConstant(data, at) = Stuck \/ AfterConstant(data, at) \in 1..l
  <2>1. PICK w \in {4, 8} : w = Width(At(data, at))
    BY DEF Width
  <2>. QED
    BY <2>1 DEF AfterConstant
<1>3. AfterImport(data, at) = Stuck \/ AfterImport(data, at) \in 1..l
  <2>1. CASE at + 10 <= l
    <3>1. at + 9 \in Nat /\ at + 9 < l
      BY <2>1
    <3>2. PICK p \in Nat : p = At(data, at + 9)
      BY <1>1, <3>1
    <3>. QED
      BY <3>2 DEF AfterImport
  <2>. QED
    BY <2>1 DEF AfterImport
<1>4. AfterFunction(data, at) = Stuck \/ AfterFunction(data, at) \in 1..l
  <2>1. CASE at + 14 <= l
    <3>1. at + 13 \in Nat /\ at + 13 < l
      BY <2>1
    <3>2. PICK p \in Nat : p = At(data, at + 13)
      BY <1>1, <3>1
    <3>. QED
      BY <3>2 DEF AfterFunction
  <2>. QED
    BY <2>1 DEF AfterFunction
<1>. QED
  BY <1>2, <1>3, <1>4

LEMMA FollowingShape ==
  ASSUME NEW body, NEW t, Section(body, t) \in Seq(Byte)
  PROVE  /\ Following(body, t) \in [1..Len(Section(body, t)) -> Nat \cup {Stuck}]
         /\ \A at \in 1..Len(Section(body, t)) :
              Following(body, t)[at] = Stuck \/ Following(body, t)[at] \in 1..Len(Section(body, t))
<1>. PICK data \in Seq(Byte) : data = Section(body, t)
  OBVIOUS
<1>1. \A at \in 1..Len(data) :
        /\ AfterConstant(data, at) \in 1..Len(data) \cup {Stuck}
        /\ AfterImport(data, at) \in 1..Len(data) \cup {Stuck}
        /\ AfterFunction(data, at) \in 1..Len(data) \cup {Stuck}
  BY AfterRange
<1>2. 1..Len(data) \subseteq Nat
  BY LenProperties
<1>3. Following(body, t) =
        IF t = CNST THEN [at \in 1..Len(data) |-> AfterConstant(data, at)]
        ELSE IF t = HOST THEN [at \in 1..Len(data) |-> AfterImport(data, at)]
        ELSE [at \in 1..Len(data) |-> AfterFunction(data, at)]
  BY DEF Following
<1>. QED
  BY <1>1, <1>2, <1>3

(* The tools' cursor in a table of a file that decodes. *)
CursorRuns(t) ==
  LET data == Section(image.body, t)
      at   == Cursor(image.body, t)
      n    == At(data, 0)
  IN  /\ data \in Seq(Byte) /\ data # <<>> /\ n \in Byte /\ n \in Nat
      /\ at[0] = 1
      /\ \A k \in 0..n : at[k] \in 1..Len(data)
      /\ \A k \in 0..n - 1 : /\ at[k + 1] = Following(image.body, t)[at[k]]
                             /\ Following(image.body, t)[at[k]] # Stuck
      /\ \A k \in 1..n : Cursors(data, Following(image.body, t))[k] = at[k - 1]
      /\ Last(Cursors(data, Following(image.body, t))) = at[n]

LEMMA TableRuns ==
  ASSUME LoaderInv, Readable, NEW t \in Tables, Section(image.body, t) \in Seq(Byte)
  PROVE  CursorRuns(t)
<1>. PICK data \in Seq(Byte) : data = Section(image.body, t)
  OBVIOUS
<1>. PICK following : following = Following(image.body, t)
  OBVIOUS
<1>1. Decodes(image)
  BY ReadableDecodes
<1>2. data # <<>> /\ Last(Cursors(data, following)) # Stuck
  <2>1. CASE t = CNST
    <3>1. following = [at \in 1..Len(data) |-> AfterConstant(data, at)]
      BY <2>1 DEF Following
    <3>2. data # <<>> /\ Last(ConstantCursors(data)) = Len(data)
      BY <1>1, <2>1 DEF Decodes, ConstantsDecode
    <3>3. Len(data) # Stuck
      BY LenProperties DEF Stuck
    <3>. QED
      BY <3>1, <3>2, <3>3 DEF ConstantCursors
  <2>2. CASE t = HOST
    <3>1. following = [at \in 1..Len(data) |-> AfterImport(data, at)]
      BY <2>2, SectionsDiffer DEF Following
    <3>2. data # <<>> /\ Last(ImportCursors(data)) # Stuck
      BY <1>1, <2>2 DEF Decodes, ImportsDecode
    <3>. QED
      BY <3>1, <3>2 DEF ImportCursors
  <2>3. CASE t = ENTR
    <3>1. following = [at \in 1..Len(data) |-> AfterFunction(data, at)]
      BY <2>3, SectionsDiffer DEF Following
    <3>2. data # <<>> /\ Last(FunctionCursors(data)) # Stuck
      BY <1>1, <2>3 DEF Decodes, FunctionsDecode
    <3>. QED
      BY <3>1, <3>2 DEF FunctionCursors
  <2>. QED
    BY <2>1, <2>2, <2>3, SectionsDiffer
<1>3. /\ following \in [1..Len(data) -> Nat \cup {Stuck}]
      /\ \A x \in 1..Len(data) : following[x] = Stuck \/ following[x] \in 1..Len(data)
  BY FollowingShape
<1>. PICK at : at = Steps(following)
  OBVIOUS
<1>4. /\ At(data, 0) \in Byte /\ At(data, 0) \in Nat
      /\ \A k \in 1..At(data, 0) + 1 : Cursors(data, following)[k] = at[k - 1]
      /\ Last(Cursors(data, following)) = at[At(data, 0)]
      /\ at[0] = 1
      /\ \A k \in 0..At(data, 0) - 1 :
           at[k] \in 1..Len(data) /\ at[k + 1] = following[at[k]] /\ at[k + 1] # Stuck
  BY <1>2, <1>3, CursorsRun
<1>. PICK n \in Nat : n = At(data, 0)
  BY <1>4
<1>5. \A k \in 0..n : at[k] \in 1..Len(data)
  <2>. TAKE k \in 0..n
  <2>1. CASE k \in 0..n - 1
    BY <1>4, <2>1
  <2>2. CASE k = n /\ n = 0
    BY <1>2, <1>4, <2>2, EmptySeq, LenProperties
  <2>3. CASE k = n /\ n # 0
    <3>1. n - 1 \in 0..n - 1 /\ (n - 1) + 1 = n
      BY <2>3
    <3>2. at[n - 1] \in 1..Len(data) /\ at[n] = following[at[n - 1]] /\ at[n] # Stuck
      BY <1>4, <3>1
    <3>. QED
      BY <1>3, <2>3, <3>2
  <2>. QED
    BY <2>1, <2>2, <2>3
<1>6. at = Cursor(image.body, t)
  BY DEF Cursor
<1>7. \A k \in 0..n - 1 : at[k + 1] = following[at[k]] /\ following[at[k]] # Stuck
  BY <1>4
<1>8. \A k \in 1..n : Cursors(data, following)[k] = at[k - 1]
  BY <1>4
<1>9. n \in Byte /\ at[0] = 1 /\ Last(Cursors(data, following)) = at[n]
  BY <1>4
<1>. QED
  BY <1>2, <1>5, <1>6, <1>7, <1>8, <1>9, Zenon DEF CursorRuns

(* Of an entry that decodes the loader reads as much as the tools. *)
LEMMA EntryFollows ==
  ASSUME LoaderInv, stage = "entries", SectionRead(table),
         offset \in 1..Len(Section(image.body, table)),
         Following(image.body, table)[offset] # Stuck
  PROVE  /\ offset + EntrySize = Following(image.body, table)[offset]
         /\ \/ EntryOutcome = "none"
            \/ EntryOutcome = "build_limit"
            \/ /\ table = ENTR
               /\ At(Section(image.body, table), offset + 11) >= program.count[ENTR]
<1>. PICK data \in Seq(Byte), l \in Nat, d \in Nat :
       data = Section(image.body, table) /\ l = Len(data) /\ d = Data
  BY LenProperties DEF SectionRead, Data
<1>1. /\ offset \in 1..l /\ DataLength = l /\ table \in {CNST, HOST, ENTR}
      /\ d + l <= Length(image) /\ Length(image) \in Nat
      /\ \A k \in Nat : k + 1 <= l => At(data, k) = ByteAt(d + k)
  BY FileShape, SectionsDiffer
  DEF SectionRead, Data, DataLength, Held, LoaderInv, TurnInv, FileInv
<1>2. \A k \in Nat : offset + k <= l => Held(d + offset, k)
  BY <1>1 DEF Held
<1>3. \A k \in Nat : offset + (k + 1) <= l => At(data, offset + k) = ByteAt(d + offset + k)
  <2>. TAKE k \in Nat
  <2>. HAVE offset + (k + 1) <= l
  <2>1. offset + k \in Nat /\ (offset + k) + 1 <= l /\ d + (offset + k) = d + offset + k
    BY <1>1
  <2>. QED
    BY <1>1, <2>1
<1>4. \A k \in Nat : k + 1 <= l => At(data, k) \in Nat
  <2>. TAKE k \in Nat
  <2>. HAVE k + 1 <= l
  <2>1. data[k + 1] \in Byte
    BY ElementOfSeq
  <2>. QED
    BY <2>1, Limits DEF At
<1>5. CASE table = CNST
  <2>1. /\ EntryOutcome = ConstantOutcome /\ EntrySize = 1 + Width(ByteAt(d + offset))
        /\ Following(image.body, table)[offset] = AfterConstant(data, offset)
    <3>1. EntryOutcome = ConstantOutcome
      BY <1>5, SectionsDiffer DEF EntryOutcome
    <3>2. EntrySize = 1 + Width(ByteAt(d + offset))
      BY <1>5, SectionsDiffer DEF EntrySize, SizeAt
    <3>3. Following(image.body, table) = [at \in 1..l |-> AfterConstant(data, at)]
      BY <1>5 DEF Following
    <3>. QED
      BY <1>1, <3>1, <3>2, <3>3
  <2>2. PICK b : b = At(data, offset)
    OBVIOUS
  <2>3. PICK w \in {4, 8} : w = Width(b)
    BY DEF Width
  <2>4. offset < l /\ b \in PoolType /\ offset + 1 + w <= l
        /\ AfterConstant(data, offset) = offset + 1 + w
    BY <2>1, <2>2, <2>3 DEF AfterConstant
  <2>5. ByteAt(d + offset) = b /\ Held(d + offset, 1)
    BY <1>1, <1>2, <2>2, <2>4
  <2>6. ~(offset >= l) /\ ~(offset + 1 + w > l)
    BY <1>1, <2>4
  <2>7. ConstantOutcome = "none"
    BY <1>1, <2>3, <2>4, <2>5, <2>6 DEF ConstantOutcome
  <2>8. offset + (1 + w) = offset + 1 + w
    BY <1>1
  <2>9. offset + EntrySize = Following(image.body, table)[offset]
    BY <2>1, <2>3, <2>4, <2>5, <2>8
  <2>. QED
    BY <2>1, <2>7, <2>9
<1>6. CASE table = HOST
  <2>1. /\ EntryOutcome = ImportOutcome /\ EntrySize = 10 + ByteAt(d + offset + 9)
        /\ Following(image.body, table)[offset] = AfterImport(data, offset)
    BY <1>1, <1>6, SectionsDiffer DEF EntryOutcome, EntrySize, SizeAt, Following
  <2>2. offset + 10 <= l /\ offset + 10 + At(data, offset + 9) <= l
        /\ AfterImport(data, offset) = offset + 10 + At(data, offset + 9)
    BY <2>1 DEF AfterImport
  <2>3. offset + (9 + 1) <= l /\ offset + 9 \in Nat /\ (offset + 9) + 1 <= l
    BY <1>1, <2>2
  <2>4. PICK b \in Nat : b = At(data, offset + 9)
    BY <1>4, <2>3
  <2>5. ByteAt(d + offset + 9) = b /\ Held(d + offset, 10)
    BY <1>2, <1>3, <2>2, <2>3, <2>4
  <2>6. ~(offset + 10 > l) /\ ~(offset + 10 + b > l)
    BY <1>1, <2>2, <2>4
  <2>7. ImportOutcome \in {"none", "build_limit"}
    BY <1>1, <2>5, <2>6 DEF ImportOutcome
  <2>8. offset + (10 + b) = offset + 10 + b
    BY <1>1
  <2>9. offset + EntrySize = Following(image.body, table)[offset]
    BY <2>1, <2>2, <2>4, <2>5, <2>8
  <2>. QED
    BY <2>1, <2>7, <2>9
<1>7. CASE table = ENTR
  <2>1. /\ EntryOutcome = FunctionOutcome /\ EntrySize = 14 + ByteAt(d + offset + 13)
        /\ Following(image.body, table)[offset] = AfterFunction(data, offset)
    BY <1>1, <1>7, SectionsDiffer DEF EntryOutcome, EntrySize, SizeAt, Following
  <2>2. offset + 14 <= l /\ offset + 14 + At(data, offset + 13) <= l
        /\ AfterFunction(data, offset) = offset + 14 + At(data, offset + 13)
    BY <2>1 DEF AfterFunction
  <2>3. offset + (13 + 1) <= l /\ offset + (11 + 1) <= l
        /\ offset + 13 \in Nat /\ (offset + 13) + 1 <= l
    BY <1>1, <2>2
  <2>4. PICK b \in Nat : b = At(data, offset + 13)
    BY <1>4, <2>3
  <2>5. ByteAt(d + offset + 13) = b /\ Held(d + offset, 14)
        /\ ByteAt(d + offset + 11) = At(data, offset + 11)
    BY <1>2, <1>3, <2>2, <2>3, <2>4
  <2>6. ~(offset + 14 > l) /\ ~(offset + 14 + b > l)
    BY <1>1, <2>2, <2>4
  <2>7. FunctionOutcome = "none" \/ At(data, offset + 11) >= program.count[ENTR]
    BY <1>1, <2>5, <2>6 DEF FunctionOutcome
  <2>8. offset + (14 + b) = offset + 14 + b
    BY <1>1
  <2>9. offset + EntrySize = Following(image.body, table)[offset]
    BY <2>1, <2>2, <2>4, <2>5, <2>8
  <2>. QED
    BY <1>7, <2>1, <2>7, <2>9
<1>. QED
  BY <1>1, <1>5, <1>6, <1>7

-----------------------------------------------------------------------------
(* The steps behind the walk. *)
LEMMA TurnsDiffer ==
  \A t, u \in Tables : Turn(t) \in 0..2 /\ (Turn(t) = Turn(u) => t = u)
BY SectionsDiffer DEF Turn

LEMMA TurnReads ==
  ASSUME ReadInv, stage # "sections",
         UNCHANGED <<image, decoded, sections>>,
         stage' \notin {"sections", "refused", "stray"},
         Readable => TablesAgree', NamesInv', LinksInv'
  PROVE  ReadInv'
<1>1. Readable' <=> Readable
  BY DEF Readable
<1>2. Readable => WalkAgrees'
  BY WalkStays DEF ReadInv
<1>3. RefusalAgrees'
  BY DEF RefusalAgrees
<1>. QED
  BY <1>1, <1>2, <1>3 DEF ReadInv

(* What a file that decodes says of its tables, behind the walk. *)
LEMMA TableRead ==
  ASSUME LoaderInv, ReadInv, Readable, stage \in Walked, NEW t \in Tables
  PROVE  SectionRead(t) /\ CursorRuns(t)
<1>1. t \in CriticalSections /\ WalkAgrees
  BY DEF Tables, ReadInv
<1>2. SectionRead(t)
  BY <1>1, SectionsAgree
<1>3. Section(image.body, t) \in Seq(Byte)
  BY <1>2 DEF SectionRead
<1>. QED
  BY <1>2, <1>3, TableRuns

LEMMA CountReads ==
  ASSUME LoaderInv, ReadInv, Count
  PROVE  ReadInv'
<1>1. stage = "count" /\ stage \in Walked /\ table \in Tables
  BY DEF Count, Walked, LoaderInv, TurnInv
<1>2. ASSUME Readable
      PROVE  /\ CountOutcome \in {"none", "build_limit"}
             /\ ByteAt(Data) = At(Section(image.body, table), 0)
             /\ Cursor(image.body, table)[0] = 1
  <2>1. SectionRead(table) /\ CursorRuns(table)
    BY <1>1, <1>2, TableRead
  <2>. PICK data \in Seq(Byte), d \in Nat, l \in Nat :
         data = Section(image.body, table) /\ d = Data /\ l = DataLength
    BY <2>1, LenProperties DEF SectionRead, Data, DataLength
  <2>2. Len(data) = l /\ Held(d, l) /\ data # <<>> /\ d >= HeaderSize
        /\ \A k \in Nat : k + 1 <= l => At(data, k) = ByteAt(d + k)
    BY <2>1 DEF SectionRead, CursorRuns, Data, DataLength, HeaderSize
  <2>3. l >= 1 /\ ~(l < 1)
    BY <2>2, EmptySeq
  <2>4. Length(image) \in Nat
    BY <1>1, PastTheWalk
  <2>5. Held(d, 1)
    BY <2>2, <2>3, <2>4 DEF Held
  <2>6. CountOutcome \in {"none", "build_limit"}
    BY <2>3, <2>5 DEF CountOutcome
  <2>7. ByteAt(d) = At(data, 0)
    BY <2>2, <2>3
  <2>. QED
    BY <2>1, <2>6, <2>7 DEF CursorRuns
<1>3. CASE CountOutcome # "none"
  <2>1. End(CountOutcome)
    BY <1>3 DEF Count
  <2>2. Readable => Excused(CountOutcome)
    BY <1>2, <1>3 DEF Excused, Identity
  <2>. QED
    BY <2>1, <2>2, EndAgrees
<1>4. CASE CountOutcome = "none"
  <2>1. /\ program' = [program EXCEPT !.count[table] = ByteAt(Data)]
        /\ offset' = 1 /\ stage' = "entries"
        /\ UNCHANGED <<source, image, delivery, decoded, refusal, sections, table, host>>
    BY <1>4 DEF Count, fileVars
  <2>2. program \in Program /\ program.count \in [Tables -> Byte]
    BY DEF LoaderInv, TablesInv, Program
  <2>3. /\ program'.count = [program.count EXCEPT ![table] = ByteAt(Data)]
        /\ program'.offsets = program.offsets
    BY <2>1, <2>2 DEF Program
  <2>4. \A t \in Tables : program'.count[t] = IF t = table THEN ByteAt(Data) ELSE program.count[t]
    BY <2>2, <2>3
  <2>5. ToCome(table) /\ Len(program.offsets[table]) = 0
    <3>1. ToCome(table)
      BY <1>1, TurnsDiffer DEF ToCome
    <3>2. program.offsets[table] = <<>>
      BY <1>1, <3>1 DEF LoaderInv, TurnInv
    <3>. QED
      BY <3>1, <3>2
  <2>6. \A t \in Tables : ~ToCome(t)' /\ t # table => ~ToCome(t)
    <3>. TAKE t \in Tables
    <3>1. PICK m \in 0..2, n \in 0..2 : m = Turn(t) /\ n = Turn(table)
      BY <1>1, TurnsDiffer
    <3>2. (t # table => m # n) /\ (ToCome(t) <=> m >= n) /\ (ToCome(t)' <=> m > n)
      BY <1>1, <2>1, <3>1, TurnsDiffer DEF ToCome, Turn
    <3>. QED
      BY <3>2
  <2>7. ASSUME Readable PROVE TablesAgree'
    <3>1. ASSUME NEW t \in Tables, ~ToCome(t)'
          PROVE  program'.count[t] = At(Section(image.body, t), 0)
      <4>1. CASE t = table
        BY <1>2, <2>4, <2>7, <4>1
      <4>2. CASE t # table
        BY <1>1, <2>4, <2>6, <2>7, <3>1, <4>2 DEF ReadInv, TablesAgree, Tabled
      <4>. QED
        BY <4>1, <4>2
    <3>2. ASSUME NEW t \in Tables, NEW i \in DOMAIN program.offsets[t]
          PROVE  program.offsets[t][i] = Cursor(image.body, t)[i - 1]
      BY <1>1, <2>7, <3>2 DEF ReadInv, TablesAgree, Tabled
    <3>3. offset' = Cursor(image.body, table)[Len(program.offsets[table])]
      BY <1>2, <2>1, <2>5, <2>7
    <3>. QED
      BY <2>1, <2>3, <3>1, <3>2, <3>3 DEF TablesAgree
  <2>8. NamesInv' /\ LinksInv'
    BY <2>1 DEF NamesInv, LinksInv
  <2>. QED
    BY <1>1, <2>1, <2>7, <2>8, TurnReads
<1>. QED
  BY <1>3, <1>4

-----------------------------------------------------------------------------
(* The functions of a file that decodes, and their records. *)
Records(data) == [i \in 1..At(data, 0) |-> FunctionAt(data, Cursor(image.body, ENTR)[i - 1])]

StringsOf(data) ==
  SubSeq(data, Cursor(image.body, ENTR)[At(data, 0)] + 1, Len(data))

LEMMA DecodedFunctions ==
  ASSUME LoaderInv, Readable, CursorRuns(ENTR),
         NEW data, data = Section(image.body, ENTR),
         NEW fs, fs = decoded[1].functions
  PROVE  /\ DOMAIN fs = 1..At(data, 0) /\ Len(fs) = At(data, 0)
         /\ \A i \in 1..At(data, 0) :
              /\ fs[i].name = NameAtOffset(StringsOf(data), Records(data)[i].name_offset)
              /\ fs[i].code_offset = Records(data)[i].code_offset
              /\ fs[i].invocable = Invocable(Records(data)[i].flags)
              /\ fs[i].recursion_cap = Records(data)[i].recursion_cap
              /\ fs[i].component = Records(data)[i].component
              /\ fs[i].param_count = Records(data)[i].param_count
              /\ fs[i].local_types = Records(data)[i].local_types
              /\ NameDecodes(StringsOf(data), Records(data)[i].name_offset)
         /\ \A i, j \in 1..At(data, 0) : fs[i].name = fs[j].name => i = j
<1>1. Decodes(image) /\ fs = DecodeFunctions(data)
  BY ReadableDecodes DEF Decode
<1>. PICK n \in Nat : n = At(data, 0)
  BY DEF CursorRuns
<1>2. /\ \A i \in 1..n : FunctionCursors(data)[i] = Cursor(image.body, ENTR)[i - 1]
      /\ Last(FunctionCursors(data)) = Cursor(image.body, ENTR)[n]
  <2>1. Following(image.body, ENTR) = [at \in 1..Len(data) |-> AfterFunction(data, at)]
    BY SectionsDiffer DEF Following
  <2>. QED
    BY <2>1 DEF CursorRuns, FunctionCursors
<1>3. SubSeq(data, Last(FunctionCursors(data)) + 1, Len(data)) = StringsOf(data)
  BY <1>2 DEF StringsOf
<1>4. \A i \in 1..n : FunctionAt(data, FunctionCursors(data)[i]) = Records(data)[i]
  BY <1>2 DEF Records
<1>. PICK area, rec : area = StringsOf(data) /\ rec = Records(data)
  OBVIOUS
<1>5. fs = [i \in 1..n |->
         [name |-> NameAtOffset(area, FunctionAt(data, FunctionCursors(data)[i]).name_offset),
          code_offset |-> FunctionAt(data, FunctionCursors(data)[i]).code_offset,
          invocable |-> Invocable(FunctionAt(data, FunctionCursors(data)[i]).flags),
          return_type |-> FunctionAt(data, FunctionCursors(data)[i]).return_type,
          max_stack |-> FunctionAt(data, FunctionCursors(data)[i]).max_stack,
          max_call_depth |-> FunctionAt(data, FunctionCursors(data)[i]).max_call_depth,
          recursion_cap |-> FunctionAt(data, FunctionCursors(data)[i]).recursion_cap,
          component |-> FunctionAt(data, FunctionCursors(data)[i]).component,
          param_count |-> FunctionAt(data, FunctionCursors(data)[i]).param_count,
          local_types |-> FunctionAt(data, FunctionCursors(data)[i]).local_types]]
  BY <1>1, <1>3, Zenon DEF DecodeFunctions
<1>6. DOMAIN fs = 1..n
  BY <1>5
<1>7. ASSUME NEW i \in 1..n
      PROVE  /\ fs[i].name = NameAtOffset(area, rec[i].name_offset)
             /\ fs[i].code_offset = rec[i].code_offset
             /\ fs[i].invocable = Invocable(rec[i].flags)
             /\ fs[i].recursion_cap = rec[i].recursion_cap
             /\ fs[i].component = rec[i].component
             /\ fs[i].param_count = rec[i].param_count
             /\ fs[i].local_types = rec[i].local_types
  BY <1>4, <1>5
<1>8. /\ \A i \in 1..n : NameDecodes(area, FunctionAt(data, FunctionCursors(data)[i]).name_offset)
      /\ IsInjective([i \in 1..n |->
           NameAtOffset(area, FunctionAt(data, FunctionCursors(data)[i]).name_offset)])
  BY <1>1, <1>3 DEF Decodes, FunctionsDecode
<1>9. \A i \in 1..n : NameDecodes(area, rec[i].name_offset)
  BY <1>4, <1>8
<1>10. ASSUME NEW i \in 1..n, NEW j \in 1..n, fs[i].name = fs[j].name PROVE i = j
  <2>. DEFINE names == [k \in 1..n |->
         NameAtOffset(area, FunctionAt(data, FunctionCursors(data)[k]).name_offset)]
  <2>1. names[i] = fs[i].name /\ names[j] = fs[j].name /\ DOMAIN names = 1..n
    BY <1>4, <1>7
  <2>2. IsInjective(names)
    BY <1>8
  <2>. HIDE DEF names
  <2>. QED
    BY <1>10, <2>1, <2>2 DEF IsInjective
<1>11. Len(fs) = n
  BY <1>5
<1>. QED
  BY <1>6, <1>7, <1>9, <1>10, <1>11

LEMMA ReadEntryReads ==
  ASSUME LoaderInv, ReadInv, ReadEntry
  PROVE  ReadInv'
<1>1. /\ stage = "entries" /\ stage \in Walked /\ table \in Tables
      /\ Len(program.offsets[table]) < program.count[table]
      /\ program.count[table] \in Nat /\ program.offsets[table] \in Seq(Nat)
  BY Limits DEF ReadEntry, Walked, LoaderInv, TurnInv, TablesInv, Program
<1>. PICK k \in Nat, n \in Nat : k = Len(program.offsets[table]) /\ n = program.count[table]
  BY <1>1, LenProperties
<1>2. \A t \in Tables : ToCome(t) <=> Turn(t) > Turn(table)
  BY <1>1 DEF ToCome
<1>3. ASSUME Readable
      PROVE  /\ CursorRuns(table) /\ At(Section(image.body, table), 0) = n
             /\ offset = Cursor(image.body, table)[k] /\ k \in 0..n - 1
             /\ offset \in 1..Len(Section(image.body, table))
             /\ offset + EntrySize = Cursor(image.body, table)[k + 1]
             /\ EntryOutcome # "none" => Excused(EntryOutcome)
  <2>1. SectionRead(table) /\ CursorRuns(table)
    BY <1>1, <1>3, TableRead
  <2>. PICK data : data = Section(image.body, table)
    OBVIOUS
  <2>2. ~ToCome(table)
    BY <1>1, <1>2, TurnsDiffer
  <2>3. At(data, 0) = n /\ offset = Cursor(image.body, table)[k]
    BY <1>1, <1>3, <2>2 DEF ReadInv, TablesAgree, Tabled
  <2>4. k \in 0..n - 1 /\ k \in 0..n
    BY <1>1
  <2>5. /\ offset \in 1..Len(data)
        /\ Cursor(image.body, table)[k + 1] = Following(image.body, table)[offset]
        /\ Following(image.body, table)[offset] # Stuck
    BY <2>1, <2>3, <2>4 DEF CursorRuns
  <2>6. /\ offset + EntrySize = Following(image.body, table)[offset]
        /\ \/ EntryOutcome = "none"
           \/ EntryOutcome = "build_limit"
           \/ /\ table = ENTR
              /\ At(data, offset + 11) >= program.count[ENTR]
    BY <1>1, <2>1, <2>5, EntryFollows
  <2>7. ASSUME table = ENTR, At(data, offset + 11) >= program.count[ENTR]
        PROVE  Excused(EntryOutcome)
    <3>. PICK fs : fs = decoded[1].functions
      OBVIOUS
    <3>1. k + 1 \in 1..n /\ (k + 1) - 1 = k
      BY <2>4
    <3>2. Len(fs) = n /\ fs[k + 1].component = Records(data)[k + 1].component
      BY <1>3, <2>1, <2>3, <2>7, <3>1, DecodedFunctions
    <3>3. Records(data)[k + 1] = FunctionAt(data, offset)
      BY <2>3, <2>7, <3>1 DEF Records
    <3>4. FunctionAt(data, offset).component = At(data, offset + 11)
      BY DEF FunctionAt
    <3>5. fs[k + 1].component >= Len(fs)
      BY <2>7, <3>2, <3>3, <3>4
    <3>. QED
      BY <3>1, <3>2, <3>5 DEF Excused
  <2>8. EntryOutcome # "none" => Excused(EntryOutcome)
    BY <2>6, <2>7 DEF Excused, Identity
  <2>. QED
    BY <2>1, <2>3, <2>4, <2>5, <2>6, <2>8
<1>4. CASE EntryOutcome # "none"
  <2>1. End(EntryOutcome)
    BY <1>4 DEF ReadEntry
  <2>. QED
    BY <1>3, <1>4, <2>1, EndAgrees
<1>5. CASE EntryOutcome = "none"
  <2>1. /\ offset' = offset + EntrySize
        /\ UNCHANGED <<source, image, delivery, decoded, stage, refusal, sections, table, host>>
    BY <1>5 DEF ReadEntry, fileVars
  <2>2. PICK old \in Seq(Nat), new \in Seq(Nat), m \in Nat :
          /\ old = program.offsets[table] /\ m = Len(old)
          /\ Len(new) = m + 1 /\ DOMAIN new = 1..m + 1
          /\ (\A i \in 1..m : new[i] = old[i]) /\ new[m + 1] = offset
          /\ program' \in Program /\ program'.count = program.count
          /\ program'.names = program.names /\ program'.import_map = program.import_map
          /\ \A t \in Tables : program'.offsets[t] = IF t = table THEN new ELSE program.offsets[t]
    BY <1>5, EntryTaken
  <2>3. m = k
    BY <2>2
  <2>4. ASSUME Readable PROVE TablesAgree'
    <3>1. ASSUME NEW t \in Tables, ~ToCome(t)'
          PROVE  program'.count[t] = At(Section(image.body, t), 0)
      <4>1. ~ToCome(t)
        BY <2>1, <3>1 DEF ToCome
      <4>. QED
        BY <1>1, <2>2, <2>4, <4>1 DEF ReadInv, TablesAgree, Tabled
    <3>2. \A t \in Tables : \A i \in DOMAIN program.offsets[t] :
            program.offsets[t][i] = Cursor(image.body, t)[i - 1]
      BY <1>1, <2>4 DEF ReadInv, TablesAgree, Tabled
    <3>3. ASSUME NEW t \in Tables, NEW i \in DOMAIN program'.offsets[t]
          PROVE  program'.offsets[t][i] = Cursor(image.body, t)[i - 1]
      <4>1. CASE t # table
        BY <2>2, <3>2, <3>3, <4>1
      <4>2. CASE t = table /\ i = k + 1
        <5>1. i - 1 = k
          BY <4>2
        <5>. QED
          BY <1>3, <2>2, <2>3, <2>4, <4>2, <5>1
      <4>3. CASE t = table /\ i # k + 1
        <5>1. program'.offsets[t] = new
          BY <2>2, <4>3
        <5>2. i \in 1..k
          BY <2>2, <2>3, <3>3, <4>3, <5>1
        <5>3. i \in DOMAIN old
          BY <2>2, <2>3, <5>2, LenProperties
        <5>4. new[i] = old[i]
          BY <2>2, <2>3, <5>2
        <5>5. program'.offsets[t][i] = old[i]
          BY <5>1, <5>4
        <5>. QED
          BY <2>2, <3>2, <4>3, <5>3, <5>5
      <4>. QED
        BY <4>1, <4>2, <4>3
    <3>4. offset' = Cursor(image.body, table)[Len(program'.offsets[table])]
      BY <1>1, <1>3, <2>1, <2>2, <2>3, <2>4
    <3>. QED
      BY <1>1, <2>1, <3>1, <3>3, <3>4 DEF TablesAgree
  <2>5. NamesInv' /\ LinksInv'
    BY <1>1, <2>1 DEF NamesInv, LinksInv
  <2>. QED
    BY <1>1, <2>1, <2>4, <2>5, TurnReads
<1>. QED
  BY <1>4, <1>5

LEMMA EndEntriesReads ==
  ASSUME LoaderInv, ReadInv, EndEntries
  PROVE  ReadInv'
<1>1. /\ stage = "entries" /\ table \in Tables
      /\ Len(program.offsets[table]) = program.count[table]
      /\ stage' = IF table = ENTR THEN "names" ELSE "count"
      /\ table' = IF table = CNST THEN HOST ELSE ENTR
      /\ UNCHANGED <<source, image, delivery, decoded, refusal, sections, offset, program, host>>
      /\ program.names = <<>>
  BY DEF EndEntries, LoaderInv, TurnInv, fileVars
<1>2. ASSUME Readable PROVE TablesAgree'
  <2>1. \A t \in Tables : ~ToCome(t)' => ~ToCome(t)
    BY <1>1, SectionsDiffer DEF ToCome, Turn
  <2>2. TablesAgree /\ stage \in Tabled /\ stage' \in Tabled
    BY <1>1, <1>2 DEF ReadInv, Tabled
  <2>3. \A t \in Tables : ~ToCome(t)' => program.count[t] = At(Section(image.body, t), 0)
    BY <2>1, <2>2 DEF TablesAgree
  <2>4. \A t \in Tables : \A i \in DOMAIN program.offsets[t] :
          program.offsets[t][i] = Cursor(image.body, t)[i - 1]
    BY <2>2 DEF TablesAgree
  <2>5. stage' = "names" => offset = Cursor(image.body, ENTR)[program.count[ENTR]]
    <3>1. stage' = "names" => table = ENTR
      BY <1>1
    <3>. QED
      BY <1>1, <2>2, <3>1 DEF TablesAgree
  <2>. QED
    BY <1>1, <2>3, <2>4, <2>5 DEF TablesAgree
<1>3. NamesInv' /\ LinksInv'
  <2>1. DOMAIN program'.names = {}
    BY <1>1
  <2>. QED
    BY <1>1, <2>1 DEF NamesInv, LinksInv
<1>4. stage # "sections" /\ stage' \notin {"sections", "refused", "stray"}
  BY <1>1
<1>. QED
  BY <1>1, <1>2, <1>3, <1>4, TurnReads

-----------------------------------------------------------------------------
(* The records behind the tables. *)
LEMMA RecordAgrees ==
  ASSUME LoaderInv, ReadInv, Readable, stage \in {"names", "link", "loaded"},
         NEW t \in Tables
  PROVE  /\ SectionRead(t) /\ CursorRuns(t)
         /\ program.count[t] = At(Section(image.body, t), 0) /\ program.count[t] \in Nat
         /\ \A i \in 1..program.count[t] :
              /\ program.offsets[t][i] = Cursor(image.body, t)[i - 1]
              /\ program.offsets[t][i] \in Nat
              /\ program.offsets[t][i] + Fixed(t) <= Len(Section(image.body, t))
              /\ program.offsets[t][i] + SizeAt(t, sections[t].data + program.offsets[t][i])
                   <= Len(Section(image.body, t))
<1>1. SectionRead(t) /\ CursorRuns(t)
  BY TableRead DEF Walked
<1>2. ~ToCome(t) /\ stage \in Tabled
  BY DEF ToCome, Tabled
<1>3. program.count[t] = At(Section(image.body, t), 0)
      /\ \A i \in DOMAIN program.offsets[t] :
           program.offsets[t][i] = Cursor(image.body, t)[i - 1]
  BY <1>2 DEF ReadInv, TablesAgree
<1>4. \A i \in 1..program.count[t] :
        /\ i \in DOMAIN program.offsets[t] /\ program.offsets[t][i] \in Nat
        /\ EntryHeld(t, program.offsets[t][i])
  BY RecordsRead
<1>5. Len(Section(image.body, t)) = sections[t].length
  BY <1>1 DEF SectionRead
<1>6. program.count[t] \in Nat
  BY <1>1, <1>3 DEF CursorRuns
<1>. QED
  BY <1>1, <1>3, <1>4, <1>5, <1>6 DEF EntryHeld

(* A byte, and a part, of a part. *)
LEMMA PartOfPart ==
  ASSUME NEW body \in Seq(Byte), NEW from \in Nat, NEW length \in Nat,
         from + length <= Len(body), NEW k \in Nat, NEW m \in Nat, k + m <= length
  PROVE  /\ Slice(body, from, length) \in Seq(Byte)
         /\ Len(Slice(body, from, length)) = length
         /\ m >= 1 => /\ At(Slice(body, from, length), k) = At(body, from + k)
                      /\ At(Slice(body, from, length), k) \in Nat
         /\ Slice(Slice(body, from, length), k, m) = Slice(body, from + k, m)
<1>. PICK data : data = Slice(body, from, length)
  OBVIOUS
<1>1. /\ data \in Seq(Byte) /\ Len(data) = length
      /\ \A j \in Nat : j + 1 <= length => At(data, j) = At(body, from + j)
      /\ \A j, n \in Nat : j + n <= length => Slice(data, j, n) = Slice(body, from + j, n)
  BY PartRead
<1>2. m >= 1 => At(data, k) \in Nat
  <2>1. m >= 1 => k + 1 \in 1..length
    OBVIOUS
  <2>2. m >= 1 => data[k + 1] \in Byte
    BY <1>1, <2>1, ElementOfSeq
  <2>. QED
    BY <2>2, Limits DEF At
<1>3. m >= 1 => k + 1 <= length
  OBVIOUS
<1>. QED
  BY <1>1, <1>2, <1>3

(* A name of the string area, which is the end of the table. *)
LEMMA NameInArea ==
  ASSUME NEW data \in Seq(Byte), NEW c \in Nat, c <= Len(data), NEW w \in Nat,
         NameDecodes(SubSeq(data, c + 1, Len(data)), w)
  PROVE  /\ At(data, c + w) \in Nat /\ c + w + 1 + At(data, c + w) <= Len(data)
         /\ NameAtOffset(SubSeq(data, c + 1, Len(data)), w)
              = Slice(data, c + w + 1, At(data, c + w))
<1>1. PICK m \in Nat : c + m = Len(data)
  <2>1. Len(data) \in Nat
    BY LenProperties
  <2>2. Len(data) - c \in Nat /\ c + (Len(data) - c) = Len(data)
    BY <2>1
  <2>. QED
    BY <2>2
<1>2. c + m <= Len(data) /\ SubSeq(data, c + 1, Len(data)) = Slice(data, c, m)
  BY <1>1 DEF Slice
<1>3. Len(Slice(data, c, m)) = m
  <2>1. c + m <= Len(data) /\ 0 + 0 <= m
    BY <1>2
  <2>. QED
    BY <2>1, PartOfPart
<1>4. w + 1 <= m /\ w + 1 + At(Slice(data, c, m), w) <= m
  <2>1. w < m /\ w + 1 + At(Slice(data, c, m), w) <= m
    BY <1>2, <1>3 DEF NameDecodes
  <2>. QED
    BY <2>1
<1>5. At(Slice(data, c, m), w) = At(data, c + w) /\ At(Slice(data, c, m), w) \in Nat
  <2>1. c + m <= Len(data) /\ w + 1 <= m /\ 1 >= 1
    BY <1>2, <1>4
  <2>. QED
    BY <2>1, PartOfPart
<1>6. PICK b \in Nat : b = At(data, c + w) /\ b = At(Slice(data, c, m), w)
  BY <1>5
<1>7. NameAtOffset(SubSeq(data, c + 1, Len(data)), w) = Slice(data, c + (w + 1), b)
  <2>1. PICK v \in Nat : v = w + 1
    OBVIOUS
  <2>2. c + m <= Len(data) /\ v + b <= m
    BY <1>2, <1>4, <1>6, <2>1
  <2>3. Slice(Slice(data, c, m), v, b) = Slice(data, c + v, b)
    BY <2>2, PartOfPart
  <2>. QED
    BY <1>2, <1>6, <2>1, <2>3 DEF NameAtOffset
<1>8. c + (w + 1) = c + w + 1 /\ c + w + 1 + b <= Len(data)
  BY <1>1, <1>4, <1>6
<1>. QED
  BY <1>6, <1>7, <1>8

(* The name of a function is where the tools find it. *)
LEMMA NamesAgree ==
  ASSUME LoaderInv, ReadInv, Readable, stage \in {"names", "link", "loaded"},
         NEW i \in 1..program.count[ENTR]
  PROVE  /\ NameOutcome(i) = "none"
         /\ decoded[1].functions[i].name =
              Slice(image.body, (NameAt(i) + 1) - HeaderSize, ByteAt(NameAt(i)))
<1>1. ENTR \in Tables /\ table = ENTR /\ Fixed(ENTR) = 14
  BY SectionsDiffer DEF LoaderInv, TurnInv, Fixed
<1>2. /\ SectionRead(ENTR) /\ CursorRuns(ENTR)
      /\ program.count[ENTR] = At(Section(image.body, ENTR), 0) /\ program.count[ENTR] \in Nat
      /\ program.offsets[ENTR][i] = Cursor(image.body, ENTR)[i - 1]
      /\ program.offsets[ENTR][i] \in Nat
      /\ program.offsets[ENTR][i] + 14 <= Len(Section(image.body, ENTR))
  BY <1>1, RecordAgrees
<1>. PICK data \in Seq(Byte), d \in Nat, l \in Nat, o \in Nat, n \in Nat :
       /\ data = Section(image.body, ENTR) /\ d = Data /\ l = Len(data)
       /\ o = program.offsets[ENTR][i] /\ n = program.count[ENTR]
  BY <1>1, <1>2, LenProperties DEF SectionRead, Data
<1>3. /\ DataLength = l /\ Held(d, l) /\ Length(image) \in Nat
      /\ \A k \in Nat : k + 1 <= l => At(data, k) = ByteAt(d + k)
      /\ \A k \in Nat : k + 2 <= l => U16(data, k) = Word16(d + k)
      /\ \A k, m \in Nat : k + m <= l => Slice(data, k, m) = Slice(image.body, (d + k) - HeaderSize, m)
  BY <1>1, <1>2, FileShape DEF SectionRead, Data, DataLength, LoaderInv, FileInv
<1>4. offset = Cursor(image.body, ENTR)[n] /\ offset \in 1..l
  <2>1. offset = Cursor(image.body, ENTR)[n]
    BY DEF ReadInv, TablesAgree
  <2>2. n \in 0..n
    OBVIOUS
  <2>. QED
    BY <1>2, <2>1, <2>2 DEF CursorRuns
<1>5. PICK c \in Nat : c = offset /\ c <= l
  BY <1>4
<1>6. PICK area : area = StringsOf(data)
  OBVIOUS
<1>7. area = SubSeq(data, c + 1, l)
  BY <1>2, <1>4, <1>5, <1>6 DEF StringsOf
<1>8. PICK w \in Nat : w = U16(data, o)
  <2>1. o + 2 <= Len(data)
    BY <1>2
  <2>2. U16(data, o) \in 0..Words16 - 1
    BY <2>1, Word16Range
  <2>. QED
    BY <2>2
<1>9. Word16(d + o) = w /\ Records(data)[i].name_offset = w
  <2>1. o + 2 <= l
    BY <1>2
  <2>2. Word16(d + o) = w
    BY <1>3, <1>8, <2>1
  <2>3. Records(data)[i] = FunctionAt(data, o)
    BY <1>2 DEF Records
  <2>. QED
    BY <1>8, <2>2, <2>3 DEF FunctionAt
<1>10. /\ decoded[1].functions[i].name = NameAtOffset(area, w)
       /\ NameDecodes(area, w)
  <2>1. /\ decoded[1].functions[i].name = NameAtOffset(StringsOf(data), Records(data)[i].name_offset)
        /\ NameDecodes(StringsOf(data), Records(data)[i].name_offset)
    BY <1>2, DecodedFunctions
  <2>. QED
    BY <1>6, <1>9, <2>1
<1>11. PICK b \in Nat :
         /\ b = At(data, c + w) /\ c + w + 1 + b <= l
         /\ NameAtOffset(area, w) = Slice(data, c + w + 1, b)
  <2>1. c <= Len(data) /\ NameDecodes(SubSeq(data, c + 1, Len(data)), w)
    BY <1>5, <1>7, <1>10
  <2>2. /\ At(data, c + w) \in Nat /\ c + w + 1 + At(data, c + w) <= Len(data)
        /\ NameAtOffset(SubSeq(data, c + 1, Len(data)), w)
             = Slice(data, c + w + 1, At(data, c + w))
    BY <2>1, NameInArea
  <2>. QED
    BY <1>7, <2>2
<1>12. NameAt(i) = (d + c) + w /\ (d + c) + w = d + (c + w)
       /\ (d + (c + w)) + 1 = d + (c + w + 1)
  <2>1. NameAt(i) = d + c + w
    BY <1>5, <1>9 DEF NameAt
  <2>. QED
    BY <2>1
<1>13. ByteAt(NameAt(i)) = b
  <2>1. c + w \in Nat /\ (c + w) + 1 <= l
    BY <1>11
  <2>. QED
    BY <1>3, <1>11, <1>12, <2>1
<1>14. Held(NameAt(i), 1)
  BY <1>3, <1>11, <1>12 DEF Held
<1>15. NameOutcome(i) = "none"
  <2>1. Word16(Data + program.offsets[ENTR][i]) = w /\ DataLength - offset = l - c
    BY <1>3, <1>5, <1>9
  <2>2. ~(w >= l - c) /\ ~(w + 1 + b > l - c)
    BY <1>5, <1>11
  <2>. QED
    BY <1>13, <1>14, <2>1, <2>2 DEF NameOutcome
<1>16. NameAtOffset(area, w) = Slice(image.body, (NameAt(i) + 1) - HeaderSize, b)
  <2>1. c + w + 1 \in Nat /\ (c + w + 1) + b <= l
    BY <1>11
  <2>2. Slice(data, c + w + 1, b) = Slice(image.body, (d + (c + w + 1)) - HeaderSize, b)
    BY <1>3, <2>1
  <2>. QED
    BY <1>11, <1>12, <2>2
<1>. QED
  BY <1>10, <1>13, <1>15, <1>16

LEMMA ReadNameReads ==
  ASSUME LoaderInv, ReadInv, ReadName
  PROVE  ReadInv'
<1>. DEFINE i == Len(program.names) + 1
<1>1. /\ stage = "names" /\ program.names \in Seq(Name)
      /\ Len(program.names) < program.count[ENTR] /\ program.count[ENTR] \in Nat
  BY SectionsDiffer, Limits DEF ReadName, LoaderInv, TablesInv, Program
<1>2. i \in 1..program.count[ENTR]
  BY <1>1, LenProperties
<1>3. CASE NameOutcome(i) # "none"
  <2>1. End(NameOutcome(i))
    BY <1>3 DEF ReadName
  <2>2. ~Readable
    BY <1>1, <1>2, <1>3, NamesAgree
  <2>. QED
    BY <2>1, <2>2, EndAgrees
<1>4. CASE NameOutcome(i) = "none"
  <2>. DEFINE name == [at |-> NameAt(i) + 1, length |-> ByteAt(NameAt(i))]
  <2>1. /\ program' = [program EXCEPT !.names = Append(@, name)]
        /\ UNCHANGED <<source, image, delivery, decoded, stage, refusal, sections, table, offset, host>>
    BY <1>4 DEF ReadName, fileVars
  <2>2. /\ program'.names = Append(program.names, name)
        /\ program'.count = program.count /\ program'.offsets = program.offsets
        /\ program'.import_map = program.import_map
    BY <2>1 DEF LoaderInv, TablesInv, Program
  <2>3. /\ \A j : NameAt(j)' = NameAt(j) /\ ByteAt(NameAt(j))' = ByteAt(NameAt(j))
    BY <2>1, <2>2 DEF NameAt, ByteAt, Word16, Data
  <2>. PICK k \in Nat : k = Len(program.names)
    BY <1>1, LenProperties
  <2>. PICK old : old = program.names
    OBVIOUS
  <2>4. name \in Name
    BY <1>1, <1>2, <1>4, NameRead DEF Name
  <2>. HIDE DEF name
  <2>. PICK new : new = Append(old, name)
    OBVIOUS
  <2>5. /\ DOMAIN new = 1..k + 1 /\ (\A j \in 1..k : new[j] = old[j]) /\ new[k + 1] = name
        /\ DOMAIN old = 1..k
    BY <1>1, <2>4, AppendProperties, LenProperties
  <2>6. ASSUME NEW j \in 1..k + 1
        PROVE  new[j] = [at |-> NameAt(j) + 1, length |-> ByteAt(NameAt(j))]
    <3>1. CASE j = k + 1
      BY <2>5, <3>1 DEF name
    <3>2. CASE j \in 1..k
      BY <1>1, <2>5, <3>2 DEF ReadInv, NamesInv
    <3>. QED
      BY <3>1, <3>2
  <2>7. NamesInv'
    BY <2>2, <2>3, <2>5, <2>6 DEF NamesInv
  <2>8. TablesAgree => TablesAgree'
    BY <2>1, <2>2 DEF TablesAgree, ToCome
  <2>9. LinksInv'
    BY <1>1, <2>1 DEF LinksInv
  <2>. QED
    BY <1>1, <2>1, <2>7, <2>8, <2>9, TurnReads DEF ReadInv
<1>. QED
  BY <1>3, <1>4

LEMMA EndNamesReads ==
  ASSUME LoaderInv, ReadInv, EndNames
  PROVE  ReadInv'
<1>1. /\ stage = "names" /\ stage' = "link"
      /\ program' = [program EXCEPT !.component_cap = Caps]
      /\ UNCHANGED <<source, image, delivery, decoded, refusal, sections, table, offset>>
      /\ program.import_map = <<>>
  BY DEF EndNames, fileVars, LoaderInv, TurnInv
<1>2. /\ program'.count = program.count /\ program'.offsets = program.offsets
      /\ program'.names = program.names /\ program'.import_map = program.import_map
  BY <1>1 DEF LoaderInv, TablesInv, Program
<1>3. TablesAgree => TablesAgree'
  BY <1>1, <1>2 DEF TablesAgree, ToCome, Tabled
<1>4. NamesInv'
  <2>1. \A j : NameAt(j)' = NameAt(j) /\ ByteAt(NameAt(j))' = ByteAt(NameAt(j))
    BY <1>1, <1>2 DEF NameAt, ByteAt, Word16, Data
  <2>. QED
    BY <1>1, <1>2, <2>1 DEF ReadInv, NamesInv
<1>5. LinksInv'
  <2>1. DOMAIN program'.import_map = {}
    BY <1>1, <1>2
  <2>. QED
    BY <2>1 DEF LinksInv
<1>. QED
  BY <1>1, <1>3, <1>4, <1>5, TurnReads DEF ReadInv

(* Where the file, the records and the host's table stay, so do the names and
   the links. *)
LEMMA RecordsStay ==
  ASSUME UNCHANGED <<image, sections, host>>, program'.offsets = program.offsets, NEW j
  PROVE  /\ LinkOutcome(j)' = LinkOutcome(j)
         /\ EntryHashed(Word32(ImportStart(j)))' = EntryHashed(Word32(ImportStart(j)))
<1>1. ImportStart(j)' = ImportStart(j)
  BY DEF ImportStart
<1>2. EntryHashed(Word32(ImportStart(j)))' = EntryHashed(Word32(ImportStart(j)))
  BY <1>1 DEF EntryHashed, Word32
<1>3. /\ ByteAt(ImportStart(j) + 4)' = ByteAt(ImportStart(j) + 4)
      /\ ByteAt(ImportStart(j) + 5)' = ByteAt(ImportStart(j) + 5)
      /\ ByteAt(ImportStart(j) + 6)' = ByteAt(ImportStart(j) + 6)
      /\ Word16(ImportStart(j) + 7)' = Word16(ImportStart(j) + 7)
  BY <1>1 DEF ByteAt, Word16
<1>4. ASSUME NEW decl PROVE SignatureOutcome(j, decl)' = SignatureOutcome(j, decl)
  BY <1>1 DEF SignatureOutcome, Held, Length, ByteAt
<1>5. host[EntryHashed(Word32(ImportStart(j)))]' = host[EntryHashed(Word32(ImportStart(j)))]
  BY <1>2
<1>6. SignatureOutcome(j, host[EntryHashed(Word32(ImportStart(j)))])'
        = SignatureOutcome(j, host[EntryHashed(Word32(ImportStart(j)))])
  <2>. PICK decl : decl = host[EntryHashed(Word32(ImportStart(j)))]
    OBVIOUS
  <2>1. SignatureOutcome(j, decl)' = SignatureOutcome(j, decl)
    BY <1>4
  <2>. QED
    BY <1>5, <2>1
<1>. HIDE DEF EntryHashed, ImportStart
<1>7. LinkOutcome(j)' = LinkOutcome(j)
  BY <1>2, <1>3, <1>5, <1>6 DEF LinkOutcome
<1>. QED
  BY <1>2, <1>7

LEMMA LinkImportReads ==
  ASSUME LoaderInv, ReadInv, LinkImport
  PROVE  ReadInv'
<1>. DEFINE i == Len(program.import_map) + 1
            found == EntryHashed(Word32(ImportStart(i)))
<1>1. /\ stage = "link" /\ program.import_map \in Seq(Nat)
      /\ Len(program.import_map) < program.count[HOST] /\ program.count[HOST] \in Nat
  BY SectionsDiffer, Limits DEF LinkImport, LoaderInv, TablesInv, Program
<1>2. i \in 1..program.count[HOST]
  BY <1>1, LenProperties
<1>3. CASE LinkOutcome(i) # "none"
  <2>1. End(LinkOutcome(i))
    BY <1>3 DEF LinkImport
  <2>2. Readable => LinkOutcome(i) # "stray"
    <3>1. ASSUME Readable, NEW type \in CriticalSections PROVE ~Overlong(type)
      <4>1. stage \in Walked /\ WalkAgrees
        BY <1>1, <3>1 DEF Walked, ReadInv
      <4>. QED
        BY <3>1, <4>1, SectionsAgree DEF SectionRead
    <3>. HIDE DEF i
    <3>. QED
      BY <1>1, <1>2, <3>1, LinkRead
  <2>3. LinkOutcome(i) = "stray" \/ LinkOutcome(i) \in Identity
    BY <1>3 DEF LinkOutcome, SignatureOutcome, Identity
  <2>4. Readable => Excused(LinkOutcome(i))
    BY <2>2, <2>3 DEF Excused
  <2>. QED
    BY <2>1, <2>4, EndAgrees
<1>4. CASE LinkOutcome(i) = "none"
  <2>1. /\ program' = [program EXCEPT !.import_map = Append(@, found)]
        /\ UNCHANGED <<source, image, delivery, decoded, stage, refusal, sections, table, offset, host>>
    BY <1>4 DEF LinkImport, fileVars
  <2>2. /\ program'.import_map = Append(program.import_map, found)
        /\ program'.count = program.count /\ program'.offsets = program.offsets
        /\ program'.names = program.names
    BY <2>1 DEF LoaderInv, TablesInv, Program
  <2>3. \A j : /\ LinkOutcome(j)' = LinkOutcome(j)
               /\ EntryHashed(Word32(ImportStart(j)))' = EntryHashed(Word32(ImportStart(j)))
    BY <2>1, <2>2, RecordsStay
  <2>. PICK k \in Nat : k = Len(program.import_map)
    BY <1>1, LenProperties
  <2>. PICK old : old = program.import_map
    OBVIOUS
  <2>4. found \in Nat
    BY <1>1, <1>2, LinkRead
  <2>. HIDE DEF found
  <2>. PICK new : new = Append(old, found)
    OBVIOUS
  <2>5. /\ DOMAIN new = 1..k + 1 /\ (\A j \in 1..k : new[j] = old[j]) /\ new[k + 1] = found
        /\ DOMAIN old = 1..k
    BY <1>1, <2>4, AppendProperties, LenProperties
  <2>6. ASSUME NEW j \in 1..k + 1
        PROVE  LinkOutcome(j) = "none" /\ new[j] = EntryHashed(Word32(ImportStart(j)))
    <3>1. CASE j = k + 1
      BY <1>4, <2>5, <3>1 DEF found
    <3>2. CASE j \in 1..k
      BY <1>1, <2>5, <3>2 DEF ReadInv, LinksInv
    <3>. QED
      BY <3>1, <3>2
  <2>7. LinksInv'
    BY <2>2, <2>3, <2>5, <2>6 DEF LinksInv
  <2>8. TablesAgree => TablesAgree'
    BY <2>1, <2>2 DEF TablesAgree, ToCome
  <2>9. NamesInv'
    <3>1. \A j : NameAt(j)' = NameAt(j) /\ ByteAt(NameAt(j))' = ByteAt(NameAt(j))
      BY <2>1, <2>2 DEF NameAt, ByteAt, Word16, Data
    <3>. QED
      BY <2>1, <2>2, <3>1 DEF ReadInv, NamesInv
  <2>. QED
    BY <1>1, <2>1, <2>7, <2>8, <2>9, TurnReads DEF ReadInv
<1>. QED
  BY <1>3, <1>4

LEMMA EndLinkReads ==
  ASSUME LoaderInv, ReadInv, EndLink
  PROVE  ReadInv'
<1>1. /\ stage = "link" /\ stage' = "loaded"
      /\ UNCHANGED <<source, image, delivery, decoded, refusal, sections, table, offset,
                     program, host>>
  BY DEF EndLink, fileVars
<1>2. TablesAgree => TablesAgree'
  BY <1>1 DEF TablesAgree, ToCome, Tabled
<1>3. NamesInv' /\ LinksInv'
  <2>1. \A j : NameAt(j)' = NameAt(j) /\ ByteAt(NameAt(j))' = ByteAt(NameAt(j))
    BY <1>1 DEF NameAt, ByteAt, Word16, Data
  <2>2. \A j : /\ LinkOutcome(j)' = LinkOutcome(j)
               /\ EntryHashed(Word32(ImportStart(j)))' = EntryHashed(Word32(ImportStart(j)))
    BY <1>1, RecordsStay
  <2>. QED
    BY <1>1, <2>1, <2>2 DEF ReadInv, NamesInv, LinksInv
<1>. QED
  BY <1>1, <1>2, <1>3, TurnReads DEF ReadInv

LEMMA StutterReads ==
  ASSUME ReadInv, UNCHANGED loaderVars
  PROVE  ReadInv'
<1>. USE DEF loaderVars
<1>1. (Readable' <=> Readable) /\ (WalkAgrees => WalkAgrees') /\ (RefusalAgrees => RefusalAgrees')
  BY DEF Readable, WalkAgrees, Start, RefusalAgrees, Excused
<1>2. TablesAgree => TablesAgree'
  BY DEF TablesAgree, ToCome
<1>3. NamesInv' /\ LinksInv'
  <2>1. \A j : NameAt(j)' = NameAt(j) /\ ByteAt(NameAt(j))' = ByteAt(NameAt(j))
    BY DEF NameAt, ByteAt, Word16, Data
  <2>2. \A j : /\ LinkOutcome(j)' = LinkOutcome(j)
               /\ EntryHashed(Word32(ImportStart(j)))' = EntryHashed(Word32(ImportStart(j)))
    BY RecordsStay
  <2>. QED
    BY <2>1, <2>2 DEF ReadInv, NamesInv, LinksInv
<1>. QED
  BY <1>1, <1>2, <1>3 DEF ReadInv

LEMMA StepReads ==
  LoaderInv /\ ReadInv /\ [LoaderNext]_loaderVars => ReadInv'
<1>. SUFFICES ASSUME LoaderInv, ReadInv, [LoaderNext]_loaderVars PROVE ReadInv'
  OBVIOUS
<1>1. CASE Deliver
  BY <1>1, DeliverReads
<1>2. CASE Header
  BY <1>2, HeaderReads
<1>3. CASE WalkSection
  BY <1>3, WalkReads
<1>4. CASE EndSections
  BY <1>4, EndSectionsReads
<1>5. CASE Count
  BY <1>5, CountReads
<1>6. CASE ReadEntry
  BY <1>6, ReadEntryReads
<1>7. CASE EndEntries
  BY <1>7, EndEntriesReads
<1>8. CASE ReadName
  BY <1>8, ReadNameReads
<1>9. CASE EndNames
  BY <1>9, EndNamesReads
<1>10. CASE LinkImport
  BY <1>10, LinkImportReads
<1>11. CASE EndLink
  BY <1>11, EndLinkReads
<1>12. CASE UNCHANGED loaderVars
  BY <1>12, StutterReads
<1>. QED
  BY <1>1, <1>2, <1>3, <1>4, <1>5, <1>6, <1>7, <1>8, <1>9, <1>10, <1>11, <1>12
  DEF LoaderNext, Loading

LEMMA ReadInvHolds ==
  LoaderSpec => [](LoaderInv /\ ReadInv)
<1>1. LoaderInit => LoaderInv /\ ReadInv
  BY InitKeeps, InitReads
<1>2. LoaderInv /\ ReadInv /\ [LoaderNext]_loaderVars => (LoaderInv /\ ReadInv)'
  BY StepKeeps, StepReads
<1>. QED
  BY <1>1, <1>2, PTL DEF LoaderSpec

-----------------------------------------------------------------------------
(* What is read of a loaded program is what the tools decoded. *)
LEMMA LoadedNames ==
  ASSUME LoaderInv, ReadInv, Readable, stage = "loaded", NEW i \in 1..program.count[ENTR]
  PROVE  LoadedName(i) = decoded[1].functions[i].name
<1>1. i \in DOMAIN program.names
  <2>1. Len(program.names) = program.count[ENTR] /\ program.names \in Seq(Name)
    BY DEF LoaderInv, TurnInv, TablesInv, Program
  <2>. QED
    BY <2>1, LenProperties
<1>2. program.names[i] = [at |-> NameAt(i) + 1, length |-> ByteAt(NameAt(i))]
  BY <1>1 DEF ReadInv, NamesInv
<1>3. decoded[1].functions[i].name =
        Slice(image.body, (NameAt(i) + 1) - HeaderSize, ByteAt(NameAt(i)))
  BY NamesAgree
<1>. QED
  BY <1>2, <1>3 DEF LoadedName

(* Asked for the name of a function of a file the tools decode, a program has   *)
(* the entry point that is named what strlen makes of the question (load.c,     *)
(* name_equals and mcuscript_find_entry), and none if there is none.            *)
THEOREM EntryPointsAreFound ==
  LoaderSpec => []EntriesFound
<1>1. LoaderInv /\ ReadInv => EntriesFound
  <2>. SUFFICES ASSUME LoaderInv, ReadInv, stage = "loaded", Readable,
                       NEW q \in DOMAIN decoded[1].functions,
                       NEW name, name = decoded[1].functions[q].name
                PROVE  /\ \A i \in DOMAIN decoded[1].functions :
                            FindEntry(name) = i - 1 <=>
                              /\ decoded[1].functions[i].invocable
                              /\ decoded[1].functions[i].name = Terminated(name)
                       /\ FindEntry(name) = -1 <=>
                            \A i \in DOMAIN decoded[1].functions :
                              ~(/\ decoded[1].functions[i].invocable
                                /\ decoded[1].functions[i].name = Terminated(name))
    BY DEF EntriesFound, Readable
  <2>1. table = ENTR /\ ENTR \in Tables /\ Fixed(ENTR) = 14
    BY SectionsDiffer DEF LoaderInv, TurnInv, Fixed
  <2>2. /\ SectionRead(ENTR) /\ CursorRuns(ENTR)
        /\ program.count[ENTR] = At(Section(image.body, ENTR), 0) /\ program.count[ENTR] \in Nat
        /\ \A j \in 1..program.count[ENTR] :
             /\ program.offsets[ENTR][j] = Cursor(image.body, ENTR)[j - 1]
             /\ program.offsets[ENTR][j] \in Nat
             /\ program.offsets[ENTR][j] + 14 <= Len(Section(image.body, ENTR))
    BY <2>1, RecordAgrees
  <2>. PICK data \in Seq(Byte), n \in Nat :
         data = Section(image.body, ENTR) /\ n = program.count[ENTR]
    BY <2>2 DEF SectionRead
  <2>. PICK fs : fs = decoded[1].functions
    OBVIOUS
  <2>3. /\ DOMAIN fs = 1..n
        /\ \A j \in 1..n : fs[j].invocable = Invocable(Records(data)[j].flags)
        /\ \A j, k \in 1..n : fs[j].name = fs[k].name => j = k
    BY <2>2, DecodedFunctions
  <2>4. \A j \in 1..n : FlagsOf(j) = Records(data)[j].flags
    <3>. TAKE j \in 1..n
    <3>1. PICK o \in Nat, l \in Nat, d \in Nat :
            o = program.offsets[ENTR][j] /\ l = Len(data) /\ d = Data
      BY <2>1, <2>2, LenProperties DEF SectionRead, Data
    <3>2. o + 14 <= l
      BY <2>2, <3>1
    <3>3. o + 6 \in Nat /\ (o + 6) + 1 <= l /\ d + (o + 6) = d + o + 6
      BY <3>2
    <3>4. At(data, o + 6) = ByteAt(d + (o + 6))
      BY <2>1, <2>2, <3>1, <3>3 DEF SectionRead, Data
    <3>5. Records(data)[j] = FunctionAt(data, o)
      BY <2>2, <3>1 DEF Records
    <3>. QED
      BY <3>1, <3>3, <3>4, <3>5 DEF FlagsOf, FunctionAt
  <2>5. \A j \in 1..n : LoadedName(j) = fs[j].name
    BY LoadedNames
  <2>. PICK asked : asked = Terminated(name)
    OBVIOUS
  <2>. DEFINE named == {j \in 1..n : Invocable(FlagsOf(j)) /\ LoadedName(j) = asked}
  <2>6. \A j : j \in named <=> j \in 1..n /\ fs[j].invocable /\ fs[j].name = asked
    <3>1. \A j \in 1..n : Invocable(FlagsOf(j)) <=> fs[j].invocable
      BY <2>3, <2>4, Zenon
    <3>. QED
      BY <2>5, <3>1, Zenon
  <2>7. \A j, k \in named : j = k
    BY <2>3, <2>6, Zenon
  <2>8. FindEntry(name) = IF named = {} THEN -1 ELSE Min(named) - 1
    BY DEF FindEntry
  <2>. HIDE DEF named
  <2>9. CASE named = {}
    <3>1. FindEntry(name) = -1 /\ \A i \in 1..n : i - 1 # -1
      BY <2>8, <2>9
    <3>2. \A i \in 1..n : ~(fs[i].invocable /\ fs[i].name = asked)
      BY <2>6, <2>9
    <3>. QED
      BY <2>3, <3>1, <3>2
  <2>10. CASE named # {}
    <3>1. PICK i \in named : TRUE
      BY <2>10
    <3>2. i \in 1..n /\ i \in Nat /\ named = {i}
      BY <2>6, <2>7, <3>1
    <3>3. Min({i}) = i
      <4>1. Min({i}) \in {i}
        BY <3>2, MinOfNaturals
      <4>. QED
        BY <4>1
    <3>4. FindEntry(name) = i - 1 /\ i - 1 # -1
      BY <2>8, <2>10, <3>2, <3>3
    <3>5. \A j \in 1..n : i - 1 = j - 1 <=> j = i
      BY <3>2
    <3>6. \A j \in 1..n : j = i <=> fs[j].invocable /\ fs[j].name = asked
      BY <2>6, <3>2
    <3>7. \A j \in 1..n : FindEntry(name) = j - 1 <=> fs[j].invocable /\ fs[j].name = asked
      BY <3>4, <3>5, <3>6
    <3>8. fs[i].invocable /\ fs[i].name = asked
      BY <2>6, <3>1
    <3>. QED
      BY <2>3, <3>2, <3>4, <3>7, <3>8
  <2>. QED
    BY <2>9, <2>10
<1>. QED
  BY <1>1, ReadInvHolds, PTL

-----------------------------------------------------------------------------
(* The imports of a file that decodes, and what a loaded program has bound
   them to. *)
LEMMA DecodedImports ==
  ASSUME LoaderInv, Readable, CursorRuns(HOST),
         NEW data, data = Section(image.body, HOST),
         NEW imports, imports = DecodeImports(data)
  PROVE  /\ DOMAIN imports = 1..At(data, 0) /\ Len(imports) = At(data, 0)
         /\ \A i \in 1..At(data, 0) :
              /\ imports[i] = ImportAt(data, Cursor(image.body, HOST)[i - 1])
              /\ ImportDecodes(imports[i])
         /\ \A i, j \in 1..At(data, 0) : imports[i].hash = imports[j].hash => i = j
<1>. PICK n \in Nat : n = At(data, 0)
  BY DEF CursorRuns
<1>1. \A i \in 1..n : ImportCursors(data)[i] = Cursor(image.body, HOST)[i - 1]
  <2>1. Following(image.body, HOST) = [at \in 1..Len(data) |-> AfterImport(data, at)]
    BY SectionsDiffer DEF Following
  <2>. QED
    BY <2>1 DEF CursorRuns, ImportCursors
<1>2. imports = [i \in 1..n |-> ImportAt(data, ImportCursors(data)[i])]
  BY DEF DecodeImports
<1>3. /\ \A i \in DOMAIN imports : ImportDecodes(imports[i])
      /\ IsInjective([i \in DOMAIN imports |-> imports[i].hash])
  BY ReadableDecodes DEF Decodes, ImportsDecode
<1>4. DOMAIN imports = 1..n /\ Len(imports) = n
  BY <1>2
<1>5. \A i \in 1..n : imports[i] = ImportAt(data, Cursor(image.body, HOST)[i - 1])
  BY <1>1, <1>2
<1>6. ASSUME NEW i \in 1..n, NEW j \in 1..n, imports[i].hash = imports[j].hash PROVE i = j
  <2>. DEFINE hashes == [k \in DOMAIN imports |-> imports[k].hash]
  <2>1. DOMAIN hashes = 1..n /\ hashes[i] = hashes[j]
    BY <1>4, <1>6
  <2>2. IsInjective(hashes)
    BY <1>3
  <2>. HIDE DEF hashes
  <2>. QED
    BY <2>1, <2>2 DEF IsInjective
<1>. QED
  BY <1>3, <1>4, <1>5, <1>6

(* The fields of an import's record, read by both. *)
LEMMA ImportFields ==
  ASSUME LoaderInv, ReadInv, Readable, stage = "loaded",
         NEW i \in 1..program.count[HOST],
         NEW imp, imp = DecodeImports(Section(image.body, HOST))[i]
  PROVE  /\ ImportDecodes(imp)
         /\ imp.hash = Word32(ImportStart(i))
         /\ imp.kind = ByteAt(ImportStart(i) + 4)
         /\ imp.access = ByteAt(ImportStart(i) + 5) /\ imp.access \in Nat
         /\ imp.type = ByteAt(ImportStart(i) + 6)
         /\ imp.dimension = Word16(ImportStart(i) + 7)
         /\ imp.param_types \in Seq(Byte)
         /\ Len(imp.param_types) = ByteAt(ImportStart(i) + 9)
         /\ \A p \in 1..Len(imp.param_types) :
              /\ imp.param_types[p] = ByteAt(ImportStart(i) + 9 + p)
              /\ Held(ImportStart(i) + 9 + p, 1)
<1>1. HOST \in Tables /\ Fixed(HOST) = 10
  BY SectionsDiffer DEF Fixed
<1>2. /\ SectionRead(HOST) /\ CursorRuns(HOST)
      /\ program.count[HOST] = At(Section(image.body, HOST), 0)
      /\ program.offsets[HOST][i] = Cursor(image.body, HOST)[i - 1]
      /\ program.offsets[HOST][i] \in Nat
      /\ program.offsets[HOST][i] + 10 <= Len(Section(image.body, HOST))
      /\ program.offsets[HOST][i] + SizeAt(HOST, sections[HOST].data + program.offsets[HOST][i])
           <= Len(Section(image.body, HOST))
  BY <1>1, RecordAgrees
<1>3. PICK data \in Seq(Byte), d \in Nat, l \in Nat, o \in Nat :
        /\ data = Section(image.body, HOST) /\ d = sections[HOST].data /\ l = Len(data)
        /\ o = program.offsets[HOST][i]
  BY <1>2, LenProperties DEF SectionRead
<1>4. /\ Held(d, l) /\ Length(image) \in Nat
      /\ \A k \in Nat : k + 1 <= l => At(data, k) = ByteAt(d + k)
      /\ \A k \in Nat : k + 2 <= l => U16(data, k) = Word16(d + k)
      /\ \A k \in Nat : k + 4 <= l => U32(data, k) = Word32(d + k)
  BY <1>2, <1>3, FileShape DEF SectionRead, LoaderInv, FileInv
<1>5. o + 10 <= l
  BY <1>2, <1>3
<1>6. imp = ImportAt(data, o) /\ ImportDecodes(imp)
  BY <1>2, <1>3, DecodedImports
<1>7. ImportStart(i) = d + o
  BY <1>3 DEF ImportStart
<1>8. \A k \in Nat : k + 1 <= l => At(data, k) \in Byte
  <2>. TAKE k \in Nat
  <2>. HAVE k + 1 <= l
  <2>1. data[k + 1] \in Byte
    BY <1>3, ElementOfSeq
  <2>. QED
    BY <2>1 DEF At
<1>9. \A k \in 0..9 : At(data, o + k) = ByteAt((d + o) + k) /\ At(data, o + k) \in Nat
  <2>. TAKE k \in 0..9
  <2>1. o + k \in Nat /\ (o + k) + 1 <= l /\ d + (o + k) = (d + o) + k
    BY <1>5
  <2>. QED
    BY <1>4, <1>8, <2>1, Limits
<1>10. imp.hash = Word32(ImportStart(i))
  <2>1. o + 4 <= l
    BY <1>5
  <2>2. U32(data, o) = Word32(d + o)
    BY <1>4, <2>1
  <2>. QED
    BY <1>6, <1>7, <2>2 DEF ImportAt
<1>11. imp.dimension = Word16(ImportStart(i) + 7)
  <2>1. o + 7 \in Nat /\ (o + 7) + 2 <= l /\ d + (o + 7) = (d + o) + 7
    BY <1>5
  <2>2. U16(data, o + 7) = Word16(d + (o + 7))
    BY <1>4, <2>1
  <2>. QED
    BY <1>6, <1>7, <2>1, <2>2 DEF ImportAt
<1>12. /\ imp.kind = ByteAt(ImportStart(i) + 4)
       /\ imp.access = ByteAt(ImportStart(i) + 5) /\ imp.access \in Nat
       /\ imp.type = ByteAt(ImportStart(i) + 6)
  BY <1>6, <1>7, <1>9 DEF ImportAt
<1>13. PICK b \in Nat : b = At(data, o + 9) /\ b = ByteAt((d + o) + 9)
  <2>1. 9 \in 0..9
    OBVIOUS
  <2>2. At(data, o + 9) = ByteAt((d + o) + 9) /\ At(data, o + 9) \in Nat
    BY <1>9, <2>1
  <2>. QED
    BY <2>2
<1>14. (o + 10) + b <= l
  <2>1. SizeAt(HOST, d + o) = 10 + ByteAt(d + o + 9)
    BY SectionsDiffer DEF SizeAt
  <2>2. o + (10 + b) <= l
    BY <1>2, <1>3, <1>13, <2>1
  <2>. QED
    BY <2>2
<1>15. imp.param_types = Slice(data, o + 10, b)
  BY <1>6, <1>13 DEF ImportAt
<1>16. /\ Slice(data, o + 10, b) \in Seq(Byte) /\ Len(Slice(data, o + 10, b)) = b
       /\ \A p \in 1..b : Slice(data, o + 10, b)[p] = data[(o + 10) + p]
  <2>1. (o + 10) + 1 \in Int /\ (o + 10) + b \in Int
        /\ \A p \in (o + 10) + 1..(o + 10) + b : data[p] \in Byte
    <3>1. \A p \in 1..l : data[p] \in Byte
      BY <1>3, LenProperties, ElementOfSeq
    <3>. QED
      BY <1>14, <3>1
  <2>2. /\ SubSeq(data, (o + 10) + 1, (o + 10) + b) \in Seq(Byte)
        /\ Len(SubSeq(data, (o + 10) + 1, (o + 10) + b)) =
             IF (o + 10) + 1 <= (o + 10) + b THEN ((o + 10) + b) - ((o + 10) + 1) + 1 ELSE 0
        /\ \A p \in 1..((o + 10) + b) - ((o + 10) + 1) + 1 :
             SubSeq(data, (o + 10) + 1, (o + 10) + b)[p] = data[((o + 10) + 1) + p - 1]
    BY <2>1, SubSeqProperties
  <2>3. (IF (o + 10) + 1 <= (o + 10) + b THEN ((o + 10) + b) - ((o + 10) + 1) + 1 ELSE 0) = b
        /\ ((o + 10) + b) - ((o + 10) + 1) + 1 = b
        /\ \A p \in 1..b : ((o + 10) + 1) + p - 1 = (o + 10) + p
    OBVIOUS
  <2>. QED
    BY <2>2, <2>3 DEF Slice
<1>17. \A p \in 1..b : /\ data[(o + 10) + p] = ByteAt((d + o) + 9 + p)
                       /\ Held((d + o) + 9 + p, 1)
  <2>. TAKE p \in 1..b
  <2>1. /\ o + 9 + p \in Nat /\ (o + 9 + p) + 1 <= l
        /\ d + (o + 9 + p) = (d + o) + 9 + p /\ (o + 9 + p) + 1 = (o + 10) + p
    BY <1>14
  <2>2. At(data, o + 9 + p) = data[(o + 10) + p]
    BY <2>1 DEF At
  <2>3. At(data, o + 9 + p) = ByteAt(d + (o + 9 + p))
    BY <1>4, <2>1
  <2>4. Held((d + o) + 9 + p, 1)
    BY <1>4, <2>1 DEF Held
  <2>. QED
    BY <2>1, <2>2, <2>3, <2>4
<1>18. Len(imp.param_types) = ByteAt(ImportStart(i) + 9)
  BY <1>7, <1>13, <1>15, <1>16
<1>19. \A p \in 1..Len(imp.param_types) :
         /\ imp.param_types[p] = ByteAt(ImportStart(i) + 9 + p)
         /\ Held(ImportStart(i) + 9 + p, 1)
  BY <1>7, <1>15, <1>16, <1>17
<1>20. imp.param_types \in Seq(Byte)
  BY <1>15, <1>16
<1>. QED
  BY <1>6, <1>10, <1>11, <1>12, <1>18, <1>19, <1>20

(* A link that was made is to the first of the host's entries with the
   import's hash, and what it declares is what the import asks for. *)
LEMMA LinkChecked ==
  ASSUME NEW i, LinkOutcome(i) = "none",
         NEW found, found = EntryHashed(Word32(ImportStart(i))),
         NEW decl, decl = host[found],
         NEW kind, kind = ByteAt(ImportStart(i) + 4)
  PROVE  /\ found # 0 /\ decl.kind = kind
         /\ decl.type = ByteAt(ImportStart(i) + 6)
         /\ decl.dimension = Word16(ImportStart(i) + 7)
         /\ kind = Entity => BitsWithin(ByteAt(ImportStart(i) + 5), decl.access)
         /\ kind # Entity => SignatureOutcome(i, decl) = "none"
<1>1. LinkOutcome(i) =
        IF found = 0 THEN "unknown_import"
        ELSE IF decl.kind # kind THEN "kind_mismatch"
        ELSE IF decl.type # ByteAt(ImportStart(i) + 6) THEN "import_type_mismatch"
        ELSE IF decl.dimension # Word16(ImportStart(i) + 7) THEN "dimension_mismatch"
        ELSE IF kind = Entity
             THEN IF BitsWithin(ByteAt(ImportStart(i) + 5), decl.access) THEN "none"
                  ELSE "access_denied"
        ELSE SignatureOutcome(i, decl)
  BY DEF LinkOutcome
<1>. HIDE DEF EntryHashed, ImportStart, ByteAt, Word16, Word32
<1>. QED
  BY <1>1, Zenon

LEMMA SignatureChecked ==
  ASSUME NEW i, NEW decl, SignatureOutcome(i, decl) = "none",
         NEW count \in Nat, count = ByteAt(ImportStart(i) + 9)
  PROVE  /\ Len(decl.param_types) = count
         /\ \A p \in 1..count :
              Held(ImportStart(i) + 9 + p, 1) =>
                ByteAt(ImportStart(i) + 9 + p) = decl.param_types[p]
BY DEF SignatureOutcome

(* Rights are bits of the access. *)
LEMMA RightsWithin ==
  ASSUME NEW some \in Nat, NEW all \in Nat, BitsWithin(some, all)
  PROVE  (Reads(some) => Reads(all)) /\ (Writes(some) => Writes(all))
<1>1. 1 \in Bits /\ 2 \in Bits
  BY DEF Bits
<1>2. /\ some \div 1 % 2 = 1 => all \div 1 % 2 = 1
      /\ some \div 2 % 2 = 1 => all \div 2 % 2 = 1
  BY <1>1 DEF BitsWithin
<1>3. some \div 1 = some /\ all \div 1 = all
  OBVIOUS
<1>. QED
  BY <1>2, <1>3 DEF Reads, Writes

LEMMA ImportBound ==
  ASSUME LoaderInv, ReadInv, Readable, stage = "loaded",
         NEW i \in 1..program.count[HOST],
         NEW imp, imp = DecodeImports(Section(image.body, HOST))[i],
         NEW decl, decl = host[program.import_map[i]]
  PROVE  /\ NameHash(decl.name) = imp.hash
         /\ decl.kind = imp.kind
         /\ decl.type = imp.type
         /\ decl.dimension = imp.dimension
         /\ Reads(imp.access) => Reads(decl.access)
         /\ Writes(imp.access) => Writes(decl.access)
         /\ decl.kind = HostFunction => decl.param_types = imp.param_types
<1>1. i \in DOMAIN program.import_map /\ host \in Seq(HostEntry)
  <2>1. /\ Len(program.import_map) = program.count[HOST] /\ program.import_map \in Seq(Nat)
        /\ host \in Seq(HostEntry)
    BY DEF LoaderInv, TurnInv, TablesInv, Program
  <2>. QED
    BY <2>1, LenProperties
<1>2. /\ LinkOutcome(i) = "none"
      /\ program.import_map[i] = EntryHashed(Word32(ImportStart(i)))
  BY <1>1 DEF ReadInv, LinksInv
<1>3. PICK found, kind : /\ found = EntryHashed(Word32(ImportStart(i)))
                         /\ kind = ByteAt(ImportStart(i) + 4)
  OBVIOUS
<1>4. /\ found # 0 /\ decl.kind = kind
      /\ decl.type = ByteAt(ImportStart(i) + 6)
      /\ decl.dimension = Word16(ImportStart(i) + 7)
      /\ kind = Entity => BitsWithin(ByteAt(ImportStart(i) + 5), decl.access)
      /\ kind # Entity => SignatureOutcome(i, decl) = "none"
  BY <1>2, <1>3, LinkChecked
<1>5. /\ ImportDecodes(imp)
      /\ imp.hash = Word32(ImportStart(i))
      /\ imp.kind = ByteAt(ImportStart(i) + 4)
      /\ imp.access = ByteAt(ImportStart(i) + 5) /\ imp.access \in Nat
      /\ imp.type = ByteAt(ImportStart(i) + 6)
      /\ imp.dimension = Word16(ImportStart(i) + 7)
      /\ imp.param_types \in Seq(Byte)
      /\ Len(imp.param_types) = ByteAt(ImportStart(i) + 9)
      /\ \A p \in 1..Len(imp.param_types) :
           /\ imp.param_types[p] = ByteAt(ImportStart(i) + 9 + p)
           /\ Held(ImportStart(i) + 9 + p, 1)
  BY ImportFields
<1>6. found \in DOMAIN host /\ NameHash(decl.name) = imp.hash
  BY <1>1, <1>2, <1>3, <1>4, <1>5, FirstWithTheHash
<1>7. decl \in HostEntry
  BY <1>1, <1>2, <1>3, <1>6, ElementOfSeq, LenProperties
<1>8. decl.access \in Nat /\ decl.param_types \in Seq(Byte)
  BY <1>7, Limits DEF HostEntry
<1>9. (Reads(imp.access) => Reads(decl.access)) /\ (Writes(imp.access) => Writes(decl.access))
  <2>1. CASE kind = Entity
    BY <1>4, <1>5, <1>8, <2>1, RightsWithin
  <2>2. CASE kind # Entity
    <3>1. imp.access = 0
      BY <1>3, <1>5, <2>2 DEF ImportDecodes
    <3>2. ~Reads(0) /\ ~Writes(0)
      BY DEF Reads, Writes
    <3>. QED
      BY <3>1, <3>2
  <2>. QED
    BY <2>1, <2>2
<1>10. ASSUME decl.kind = HostFunction PROVE decl.param_types = imp.param_types
  <2>1. kind # Entity
    BY <1>4, <1>10 DEF Entity, HostFunction
  <2>2. SignatureOutcome(i, decl) = "none"
    BY <1>4, <2>1
  <2>3. PICK count \in Nat : count = ByteAt(ImportStart(i) + 9)
    BY <1>5, LenProperties
  <2>4. /\ Len(decl.param_types) = count
        /\ \A p \in 1..count :
             Held(ImportStart(i) + 9 + p, 1) =>
               ByteAt(ImportStart(i) + 9 + p) = decl.param_types[p]
    BY <2>2, <2>3, SignatureChecked
  <2>5. PICK x \in Seq(Byte), y \in Seq(Byte) :
          x = decl.param_types /\ y = imp.param_types
    BY <1>5, <1>8
  <2>6. Len(x) = count /\ Len(y) = count
    BY <1>5, <2>3, <2>4, <2>5
  <2>7. \A p \in 1..count : x[p] = y[p]
    BY <1>5, <2>4, <2>5, <2>6
  <2>8. x = y
    BY <2>6, <2>7, SeqEqual
  <2>. QED
    BY <2>5, <2>8
<1>. QED
  BY <1>3, <1>4, <1>5, <1>6, <1>9, <1>10

(* In a loaded program every import of a file the tools decode is bound to a
   host entry that declares it, and no two to one. *)
THEOREM ImportsAreLinkedAsDeclared ==
  LoaderSpec => []LinkedAsDeclared
<1>1. LoaderInv /\ ReadInv => LinkedAsDeclared
  <2>. SUFFICES ASSUME LoaderInv, ReadInv, stage = "loaded", Readable
                PROVE  LinkedAsDeclared
    BY DEF LinkedAsDeclared, Readable
  <2>1. HOST \in Tables
    BY SectionsDiffer
  <2>2. /\ CursorRuns(HOST)
        /\ program.count[HOST] = At(Section(image.body, HOST), 0)
        /\ program.count[HOST] \in Nat
    BY <2>1, RecordAgrees
  <2>3. PICK n \in Nat : n = program.count[HOST]
    BY <2>2
  <2>. PICK imports : imports = DecodeImports(Section(image.body, HOST))
    OBVIOUS
  <2>4. /\ DOMAIN imports = 1..n
        /\ \A i, j \in 1..n : imports[i].hash = imports[j].hash => i = j
    BY <2>2, <2>3, DecodedImports
  <2>5. ASSUME NEW i \in 1..n
        PROVE  LET decl == host[program.import_map[i]]
               IN  /\ NameHash(decl.name) = imports[i].hash
                   /\ decl.kind = imports[i].kind
                   /\ decl.type = imports[i].type
                   /\ decl.dimension = imports[i].dimension
                   /\ Reads(imports[i].access) => Reads(decl.access)
                   /\ Writes(imports[i].access) => Writes(decl.access)
                   /\ decl.kind = HostFunction => decl.param_types = imports[i].param_types
    BY <2>3, ImportBound
  <2>6. DOMAIN program.import_map = 1..n
    <3>1. Len(program.import_map) = program.count[HOST] /\ program.import_map \in Seq(Nat)
      BY DEF LoaderInv, TurnInv, TablesInv, Program
    <3>. QED
      BY <2>3, <3>1, LenProperties
  <2>7. IsInjective(program.import_map)
    <3>1. ASSUME NEW i \in 1..n, NEW j \in 1..n,
                 program.import_map[i] = program.import_map[j]
          PROVE  i = j
      <4>1. imports[i].hash = imports[j].hash
        BY <2>5, <3>1
      <4>. QED
        BY <2>4, <4>1
    <3>. QED
      BY <2>6, <3>1 DEF IsInjective
  <2>. QED
    BY <2>3, <2>4, <2>5, <2>7 DEF LinkedAsDeclared
<1>. QED
  BY <1>1, ReadInvHolds, PTL

(* As many entries are read of each table as the tools decoded. *)
LEMMA DecodedConstants ==
  ASSUME LoaderInv, Readable, CursorRuns(CNST),
         NEW data, data = Section(image.body, CNST),
         NEW cs, cs = decoded[1].constants
  PROVE  /\ DOMAIN cs = 1..At(data, 0) /\ Len(cs) = At(data, 0)
         /\ \A k \in 1..At(data, 0) :
              LET at == Cursor(image.body, CNST)[k - 1]
              IN  cs[k] = [type |-> At(data, at),
                           bytes |-> Slice(data, at + 1, Width(At(data, at)))]
<1>1. cs = DecodeConstants(data)
  BY ReadableDecodes DEF Decode
<1>. PICK n \in Nat : n = At(data, 0)
  BY DEF CursorRuns
<1>2. \A k \in 1..n : ConstantCursors(data)[k] = Cursor(image.body, CNST)[k - 1]
  <2>1. Following(image.body, CNST) = [at \in 1..Len(data) |-> AfterConstant(data, at)]
    BY SectionsDiffer DEF Following
  <2>. QED
    BY <2>1 DEF CursorRuns, ConstantCursors
<1>3. cs = [k \in 1..n |->
              [type |-> At(data, ConstantCursors(data)[k]),
               bytes |-> Slice(data, ConstantCursors(data)[k] + 1,
                               Width(At(data, ConstantCursors(data)[k])))]]
  BY <1>1 DEF DecodeConstants
<1>4. DOMAIN cs = 1..n /\ Len(cs) = n
  BY <1>3
<1>. QED
  BY <1>2, <1>3, <1>4

LEMMA ImportsCounted ==
  ASSUME LoaderInv, Readable, CursorRuns(HOST)
  PROVE  Len(decoded[1].imports) = At(Section(image.body, HOST), 0)
<1>. PICK n \in Nat : n = At(Section(image.body, HOST), 0)
  BY DEF CursorRuns
<1>. PICK imports : imports = DecodeImports(Section(image.body, HOST))
  OBVIOUS
<1>1. DOMAIN imports = 1..n /\ Len(imports) = n
  BY DecodedImports
<1>2. CASE Typed(image.body, hnam) = {}
  <2>1. decoded[1].imports = imports
    BY <1>2, ReadableDecodes DEF Decode
  <2>. QED
    BY <1>1, <2>1
<1>3. CASE Typed(image.body, hnam) # {}
  <2>1. DOMAIN decoded[1].imports = 1..n
    BY <1>1, <1>3, ReadableDecodes DEF Decode
  <2>2. Len([i \in 1..n |-> decoded[1].imports[i]]) = n
    OBVIOUS
  <2>3. decoded[1].imports = [i \in 1..n |-> decoded[1].imports[i]]
    BY <1>1, <1>3, <2>1, ReadableDecodes DEF Decode
  <2>. QED
    BY <2>2, <2>3
<1>. QED
  BY <1>2, <1>3

LEMMA LoadedCounts ==
  ASSUME LoaderInv, ReadInv, Readable, stage = "loaded"
  PROVE  /\ program.count[CNST] = Len(decoded[1].constants)
         /\ program.count[HOST] = Len(decoded[1].imports)
         /\ program.count[ENTR] = Len(decoded[1].functions)
<1>1. CNST \in Tables /\ HOST \in Tables /\ ENTR \in Tables
  BY SectionsDiffer
<1>2. \A t \in Tables : /\ CursorRuns(t)
                        /\ program.count[t] = At(Section(image.body, t), 0)
  BY RecordAgrees
<1>. QED
  BY <1>1, <1>2, DecodedConstants, ImportsCounted, DecodedFunctions

(* What is read in place of a function's record. *)
LEMMA LoadedRecord ==
  ASSUME LoaderInv, ReadInv, Readable, stage = "loaded", NEW i \in 1..program.count[ENTR],
         NEW fn, fn = FunctionAt(image.body, Data - HeaderSize + program.offsets[ENTR][i]),
         NEW record, record = decoded[1].functions[i]
  PROVE  /\ fn.code_offset = record.code_offset
         /\ fn.recursion_cap = record.recursion_cap
         /\ fn.param_count = record.param_count
         /\ fn.local_types = record.local_types
<1>1. ENTR \in Tables /\ table = ENTR /\ Fixed(ENTR) = 14
  BY SectionsDiffer DEF LoaderInv, TurnInv, Fixed
<1>2. /\ SectionRead(ENTR) /\ CursorRuns(ENTR)
      /\ program.count[ENTR] = At(Section(image.body, ENTR), 0) /\ program.count[ENTR] \in Nat
      /\ program.offsets[ENTR][i] = Cursor(image.body, ENTR)[i - 1]
      /\ program.offsets[ENTR][i] \in Nat
      /\ program.offsets[ENTR][i] + 14 <= Len(Section(image.body, ENTR))
      /\ program.offsets[ENTR][i] + SizeAt(ENTR, sections[ENTR].data + program.offsets[ENTR][i])
           <= Len(Section(image.body, ENTR))
  BY <1>1, RecordAgrees
<1>3. PICK data \in Seq(Byte), d \in Nat, l \in Nat, o \in Nat :
        /\ data = Section(image.body, ENTR) /\ d = Data /\ l = Len(data)
        /\ o = program.offsets[ENTR][i] /\ d >= HeaderSize + 8
  BY <1>1, <1>2, LenProperties DEF SectionRead, Data
<1>4. /\ \A k \in Nat : k + 1 <= l => At(data, k) = ByteAt(d + k)
      /\ \A k \in Nat : k + 4 <= l => U32(data, k) = Word32(d + k)
      /\ \A k, m \in Nat : k + m <= l => Slice(data, k, m) = Slice(image.body, (d + k) - HeaderSize, m)
  BY <1>1, <1>2, <1>3 DEF SectionRead, Data
<1>5. o + 14 <= l
  BY <1>2, <1>3
<1>6. Records(data)[i] = FunctionAt(data, o)
  BY <1>2, <1>3 DEF Records
<1>7. /\ record.code_offset = U32(data, o + 2)
      /\ record.recursion_cap = At(data, o + 10)
      /\ record.param_count = At(data, o + 12)
      /\ record.local_types = Slice(data, o + 14, At(data, o + 13))
  <2>1. /\ record.code_offset = Records(data)[i].code_offset
        /\ record.recursion_cap = Records(data)[i].recursion_cap
        /\ record.param_count = Records(data)[i].param_count
        /\ record.local_types = Records(data)[i].local_types
    BY <1>2, <1>3, DecodedFunctions
  <2>. QED
    BY <1>6, <2>1 DEF FunctionAt
<1>8. PICK s \in Int : s = d - HeaderSize + o
  BY DEF HeaderSize
<1>9. \A k \in 0..14 : (d + (o + k)) - HeaderSize = s + k
  BY <1>8 DEF HeaderSize
<1>10. /\ fn.code_offset = U32(image.body, s + 2)
       /\ fn.recursion_cap = At(image.body, s + 10)
       /\ fn.param_count = At(image.body, s + 12)
       /\ fn.local_types = Slice(image.body, s + 14, At(image.body, s + 13))
  BY <1>3, <1>8 DEF FunctionAt
<1>11. \A k \in 0..13 : At(data, o + k) = At(image.body, s + k)
  <2>. TAKE k \in 0..13
  <2>1. o + k \in Nat /\ (o + k) + 1 <= l
    BY <1>5
  <2>2. At(data, o + k) = ByteAt(d + (o + k))
    BY <1>4, <2>1
  <2>3. (d + (o + k)) - HeaderSize = s + k
    BY <1>8 DEF HeaderSize
  <2>4. ByteAt(d + (o + k)) = At(image.body, s + k)
    BY <2>3 DEF ByteAt
  <2>. QED
    BY <2>2, <2>4
<1>12. U32(data, o + 2) = U32(image.body, s + 2)
  <2>1. o + 2 \in Nat /\ (o + 2) + 4 <= l
    BY <1>5
  <2>2. U32(data, o + 2) = Word32(d + (o + 2))
    BY <1>4, <2>1
  <2>. QED
    BY <1>9, <2>2 DEF Word32
<1>13. PICK b \in Nat : b = At(data, o + 13)
  <2>1. o + 13 + 1 \in 1..l
    BY <1>5
  <2>2. data[o + 13 + 1] \in Byte
    BY <1>3, <2>1, ElementOfSeq
  <2>. QED
    BY <2>2, Limits DEF At
<1>14. (o + 14) + b <= l
  <2>1. SizeAt(ENTR, d + o) = 14 + ByteAt(d + o + 13)
    BY SectionsDiffer DEF SizeAt
  <2>2. ByteAt(d + o + 13) = b
    <3>1. o + 13 \in Nat /\ (o + 13) + 1 <= l /\ d + (o + 13) = d + o + 13
      BY <1>5
    <3>. QED
      BY <1>4, <1>13, <3>1
  <2>3. o + (14 + b) <= l
    BY <1>1, <1>2, <1>3, <2>1, <2>2 DEF Data
  <2>. QED
    BY <2>3
<1>15. Slice(data, o + 14, b) = Slice(image.body, s + 14, b)
  <2>1. Slice(data, o + 14, b) = Slice(image.body, (d + (o + 14)) - HeaderSize, b)
    BY <1>4, <1>14
  <2>. QED
    BY <1>9, <2>1
<1>. QED
  BY <1>7, <1>10, <1>11, <1>12, <1>13, <1>15

(* What is read in place of a constant. *)
LEMMA LoadedConstant ==
  ASSUME LoaderInv, ReadInv, Readable, stage = "loaded", NEW k \in 1..program.count[CNST],
         NEW at, at = sections[CNST].data - HeaderSize + program.offsets[CNST][k],
         NEW constant, constant = decoded[1].constants[k]
  PROVE  /\ At(image.body, at) = constant.type
         /\ Slice(image.body, at + 1, Width(constant.type)) = constant.bytes
<1>1. CNST \in Tables /\ Fixed(CNST) = 1
  BY SectionsDiffer DEF Fixed
<1>2. /\ SectionRead(CNST) /\ CursorRuns(CNST)
      /\ program.count[CNST] = At(Section(image.body, CNST), 0) /\ program.count[CNST] \in Nat
      /\ program.offsets[CNST][k] = Cursor(image.body, CNST)[k - 1]
      /\ program.offsets[CNST][k] \in Nat
      /\ program.offsets[CNST][k] + 1 <= Len(Section(image.body, CNST))
      /\ program.offsets[CNST][k] + SizeAt(CNST, sections[CNST].data + program.offsets[CNST][k])
           <= Len(Section(image.body, CNST))
  BY <1>1, RecordAgrees
<1>3. PICK data \in Seq(Byte), d \in Nat, l \in Nat, o \in Nat :
        /\ data = Section(image.body, CNST) /\ d = sections[CNST].data /\ l = Len(data)
        /\ o = program.offsets[CNST][k]
  BY <1>2, LenProperties DEF SectionRead
<1>4. /\ \A j \in Nat : j + 1 <= l => At(data, j) = ByteAt(d + j)
      /\ \A j, m \in Nat : j + m <= l => Slice(data, j, m) = Slice(image.body, (d + j) - HeaderSize, m)
  BY <1>2, <1>3 DEF SectionRead
<1>5. at \in Int /\ (d + o) - HeaderSize = at /\ (d + (o + 1)) - HeaderSize = at + 1
  <2>1. at = d - HeaderSize + o
    BY <1>3
  <2>. QED
    BY <2>1 DEF HeaderSize
<1>6. PICK type : type = At(data, o)
  OBVIOUS
<1>7. constant = [type |-> type, bytes |-> Slice(data, o + 1, Width(type))]
  <2>1. \A j \in 1..At(data, 0) :
          LET c == Cursor(image.body, CNST)[j - 1]
          IN  decoded[1].constants[j] =
                [type |-> At(data, c), bytes |-> Slice(data, c + 1, Width(At(data, c)))]
    BY <1>2, <1>3, DecodedConstants
  <2>2. k \in 1..At(data, 0) /\ o = Cursor(image.body, CNST)[k - 1]
    BY <1>2, <1>3
  <2>. QED
    BY <1>6, <2>1, <2>2
<1>8. type = ByteAt(d + o)
  BY <1>2, <1>3, <1>4, <1>6
<1>9. At(image.body, at) = type
  BY <1>5, <1>8 DEF ByteAt
<1>10. PICK w \in Nat : w = Width(type)
  BY DEF Width
<1>11. (o + 1) + w <= l
  <2>1. SizeAt(CNST, d + o) = 1 + Width(ByteAt(d + o))
    BY SectionsDiffer DEF SizeAt
  <2>2. o + (1 + w) <= l
    BY <1>2, <1>3, <1>8, <1>10, <2>1
  <2>. QED
    BY <2>2
<1>12. Slice(data, o + 1, w) = Slice(image.body, (d + (o + 1)) - HeaderSize, w)
  BY <1>4, <1>11
<1>13. Slice(data, o + 1, w) = Slice(image.body, at + 1, w)
  BY <1>5, <1>12
<1>. QED
  BY <1>7, <1>9, <1>10, <1>13

(* The two readers agree: a file the tools decode is refused only because it
   is not meant for the device, and what the device reads of it in place is
   what the tools decoded. *)
THEOREM ReadersOfAFileAgree ==
  LoaderSpec => []ReadersAgree
<1>1. LoaderInv /\ ReadInv => ReadersAgree
  <2>. SUFFICES ASSUME LoaderInv, ReadInv, Readable, stage \in {"loaded", "refused", "stray"}
                PROVE  ReadersAgree
    BY DEF ReadersAgree, Readable
  <2>1. CASE stage # "loaded"
    <3>1. Excused(refusal)
      BY <2>1 DEF ReadInv, RefusalAgrees
    <3>. QED
      BY <2>1, <3>1 DEF Excused, ReadersAgree
  <2>2. CASE stage = "loaded"
    <3>. PICK c : c = decoded[1]
      OBVIOUS
    <3>1. /\ program.count[CNST] = Len(c.constants)
          /\ program.count[HOST] = Len(c.imports)
          /\ program.count[ENTR] = Len(c.functions)
      BY <2>2, LoadedCounts
    <3>2. ASSUME NEW i \in 1..Len(c.functions),
                 NEW fn, fn = FunctionAt(image.body, Data - HeaderSize + program.offsets[ENTR][i])
          PROVE  /\ LoadedName(i) = c.functions[i].name
                 /\ fn.code_offset = c.functions[i].code_offset
                 /\ fn.recursion_cap = c.functions[i].recursion_cap
                 /\ fn.param_count = c.functions[i].param_count
                 /\ fn.local_types = c.functions[i].local_types
      BY <2>2, <3>1, <3>2, LoadedNames, LoadedRecord
    <3>3. ASSUME NEW k \in 1..Len(c.constants),
                 NEW at, at = sections[CNST].data - HeaderSize + program.offsets[CNST][k]
          PROVE  /\ At(image.body, at) = c.constants[k].type
                 /\ Slice(image.body, at + 1, Width(c.constants[k].type)) = c.constants[k].bytes
      BY <2>2, <3>1, <3>3, LoadedConstant
    <3>. QED
      BY <2>2, <3>1, <3>2, <3>3, ZenonT(40) DEF ReadersAgree
  <2>. QED
    BY <2>1, <2>2
<1>. QED
  BY <1>1, ReadInvHolds, PTL
-----------------------------------------------------------------------------
(* What is encoded is decoded unchanged.  A sequence lies in another from an *)
(* offset on.                                                                *)
Lies(whole, at, part) ==
  /\ at \in Nat /\ at + Len(part) <= Len(whole)
  /\ \A k \in 1..Len(part) : whole[at + k] = part[k]

(* A sequence given by its elements. *)
LEMMA Elements ==
  ASSUME NEW S, NEW n \in Nat, NEW f \in [1..n -> S]
  PROVE  f \in Seq(S) /\ Len(f) = n /\ DOMAIN f = 1..n
<1>1. f \in Seq(S)
  BY SeqDef
<1>2. DOMAIN f = 1..n /\ DOMAIN f = 1..Len(f) /\ Len(f) \in Nat
  BY <1>1, LenProperties
<1>. PICK m \in Nat : m = Len(f)
  BY <1>2
<1>3. 1..n = 1..m
  BY <1>2
<1>4. n > 0 => n \in 1..n
  OBVIOUS
<1>5. m > 0 => m \in 1..m
  OBVIOUS
<1>6. n > 0 => n <= m
  BY <1>3, <1>4
<1>7. m > 0 => m <= n
  BY <1>3, <1>5
<1>8. m = n
  BY <1>6, <1>7
<1>. QED
  BY <1>1, <1>2, <1>8

LEMMA LiesWithin ==
  ASSUME NEW whole \in Seq(Byte), NEW part \in Seq(Byte), NEW sub \in Seq(Byte),
         NEW at, NEW k, Lies(whole, at, part), Lies(part, k, sub)
  PROVE  Lies(whole, at + k, sub)
<1>. PICK w \in Nat, p \in Nat, s \in Nat : w = Len(whole) /\ p = Len(part) /\ s = Len(sub)
  BY LenProperties
<1>1. /\ at \in Nat /\ at + p <= w /\ \A i \in 1..p : whole[at + i] = part[i]
      /\ k \in Nat /\ k + s <= p /\ \A i \in 1..s : part[k + i] = sub[i]
  BY DEF Lies
<1>2. ASSUME NEW i \in 1..s PROVE whole[(at + k) + i] = sub[i]
  <2>1. k + i \in 1..p /\ (at + k) + i = at + (k + i)
    BY <1>1
  <2>. QED
    BY <1>1, <2>1
<1>3. at + k \in Nat /\ (at + k) + s <= w
  BY <1>1
<1>. QED
  BY <1>2, <1>3 DEF Lies

LEMMA LiesJoin ==
  ASSUME NEW a \in Seq(Byte), NEW b \in Seq(Byte)
  PROVE  /\ a \o b \in Seq(Byte) /\ Len(a \o b) = Len(a) + Len(b)
         /\ Lies(a \o b, 0, a) /\ Lies(a \o b, Len(a), b)
<1>. PICK m \in Nat, n \in Nat : m = Len(a) /\ n = Len(b)
  BY LenProperties
<1>. PICK c : c = a \o b
  OBVIOUS
<1>1. /\ c \in Seq(Byte) /\ Len(c) = m + n
      /\ \A i \in 1..m + n : c[i] = IF i <= m THEN a[i] ELSE b[i - m]
  BY ConcatProperties
<1>2. ASSUME NEW i \in 1..m PROVE c[0 + i] = a[i]
  <2>1. i \in 1..m + n /\ i <= m /\ 0 + i = i
    OBVIOUS
  <2>. QED
    BY <1>1, <2>1
<1>3. ASSUME NEW i \in 1..n PROVE c[m + i] = b[i]
  <2>1. m + i \in 1..m + n /\ ~(m + i <= m) /\ (m + i) - m = i
    OBVIOUS
  <2>. QED
    BY <1>1, <2>1
<1>4. 0 + m <= m + n /\ m + n <= m + n
  OBVIOUS
<1>. QED
  BY <1>1, <1>2, <1>3, <1>4 DEF Lies

LEMMA LiesItself ==
  ASSUME NEW a \in Seq(Byte)
  PROVE  Lies(a, 0, a)
<1>. PICK m \in Nat : m = Len(a)
  BY LenProperties
<1>1. \A i \in 1..m : 0 + i = i
  OBVIOUS
<1>. QED
  BY <1>1 DEF Lies

(* What lies there is read there. *)
LEMMA LiesRead ==
  ASSUME NEW whole \in Seq(Byte), NEW part \in Seq(Byte), NEW at, Lies(whole, at, part)
  PROVE  /\ at \in Nat /\ Slice(whole, at, Len(part)) = part
         /\ \A k \in Nat : k + 1 <= Len(part) => At(whole, at + k) = At(part, k)
         /\ \A k \in Nat : k + 2 <= Len(part) => U16(whole, at + k) = U16(part, k)
         /\ \A k \in Nat : k + 4 <= Len(part) => U32(whole, at + k) = U32(part, k)
         /\ \A k, m \in Nat : k + m <= Len(part) => Slice(whole, at + k, m) = Slice(part, k, m)
<1>. PICK w \in Nat, p \in Nat : w = Len(whole) /\ p = Len(part)
  BY LenProperties
<1>1. at \in Nat /\ at + p <= w /\ \A i \in 1..p : whole[at + i] = part[i]
  BY DEF Lies
<1>2. Slice(whole, at, p) = part
  <2>1. at + 1 \in Int /\ at + p \in Int /\ \A i \in at + 1..at + p : whole[i] \in Byte
    BY <1>1, ElementOfSeq
  <2>2. /\ SubSeq(whole, at + 1, at + p) \in Seq(Byte)
        /\ Len(SubSeq(whole, at + 1, at + p)) =
             IF at + 1 <= at + p THEN (at + p) - (at + 1) + 1 ELSE 0
        /\ \A i \in 1..(at + p) - (at + 1) + 1 :
             SubSeq(whole, at + 1, at + p)[i] = whole[(at + 1) + i - 1]
    BY <2>1, SubSeqProperties
  <2>3. (IF at + 1 <= at + p THEN (at + p) - (at + 1) + 1 ELSE 0) = p
        /\ (at + p) - (at + 1) + 1 = p /\ \A i \in 1..p : (at + 1) + i - 1 = at + i
    BY <1>1
  <2>. PICK x \in Seq(Byte) : x = SubSeq(whole, at + 1, at + p)
    BY <2>2
  <2>4. Len(x) = Len(part) /\ \A i \in 1..Len(x) : x[i] = part[i]
    BY <1>1, <2>2, <2>3
  <2>5. x = part
    BY <2>4, SeqEqual
  <2>. QED
    BY <2>5 DEF Slice
<1>3. /\ \A k \in Nat : k + 1 <= p => At(part, k) = At(whole, at + k)
      /\ \A k \in Nat : k + 2 <= p => U16(part, k) = U16(whole, at + k)
      /\ \A k \in Nat : k + 4 <= p => U32(part, k) = U32(whole, at + k)
      /\ \A k, m \in Nat : k + m <= p => Slice(part, k, m) = Slice(whole, at + k, m)
  <2>1. at \in Nat /\ at + p <= Len(whole) /\ part = Slice(whole, at, p)
    BY <1>1, <1>2
  <2>. QED
    BY <2>1, PartRead
<1>. QED
  BY <1>1, <1>2, <1>3

LEMMA ByteLies ==
  ASSUME NEW whole \in Seq(Byte), NEW part \in Seq(Byte), NEW at, Lies(whole, at, part),
         Len(part) >= 1
  PROVE  At(whole, at) = At(part, 0)
<1>1. at + 0 = at /\ 0 + 1 <= Len(part)
  BY LenProperties DEF Lies
<1>2. At(whole, at + 0) = At(part, 0)
  BY <1>1, LiesRead
<1>. QED
  BY <1>1, <1>2

LEMMA Word16Lies ==
  ASSUME NEW whole \in Seq(Byte), NEW part \in Seq(Byte), NEW at, Lies(whole, at, part),
         Len(part) >= 2
  PROVE  U16(whole, at) = U16(part, 0)
<1>1. at + 0 = at /\ 0 + 2 <= Len(part)
  BY LenProperties DEF Lies
<1>2. U16(whole, at + 0) = U16(part, 0)
  BY <1>1, LiesRead
<1>. QED
  BY <1>1, <1>2

LEMMA Word32Lies ==
  ASSUME NEW whole \in Seq(Byte), NEW part \in Seq(Byte), NEW at, Lies(whole, at, part),
         Len(part) >= 4
  PROVE  U32(whole, at) = U32(part, 0)
<1>1. at + 0 = at /\ 0 + 4 <= Len(part)
  BY LenProperties DEF Lies
<1>2. U32(whole, at + 0) = U32(part, 0)
  BY <1>1, LiesRead
<1>. QED
  BY <1>1, <1>2

-----------------------------------------------------------------------------
(* Parts, joined. *)
LEMMA JoinedUnfold ==
  ASSUME NEW parts \in Seq(Seq(Byte))
  PROVE  /\ Joined(parts) \in [0..Len(parts) -> Seq(Byte)]
         /\ Joined(parts)[0] = <<>>
         /\ \A k \in 1..Len(parts) : Joined(parts)[k] = Joined(parts)[k - 1] \o parts[k]
<1>. PICK n \in Nat : n = Len(parts)
  BY LenProperties
<1>. DEFINE D == 0..n
            V == Seq(Byte)
            step(f, k) == IF k = 0 THEN <<>> ELSE f[k - 1] \o parts[k]
            rule == [f \in [D -> V] |-> [k \in D |-> step(f, k)]]
            rank == [k \in D |-> k]
            W == CHOOSE w : w = [k \in D |-> step(w, k)]
<1>1. ASSUME NEW f \in [D -> V], NEW k \in D PROVE step(f, k) \in V
  <2>1. CASE k = 0
    BY <2>1
  <2>2. CASE k # 0
    <3>1. k \in 1..n /\ k - 1 \in D
      BY <2>2
    <3>2. f[k - 1] \in Seq(Byte) /\ parts[k] \in Seq(Byte)
      BY <3>1, ElementOfSeq
    <3>3. f[k - 1] \o parts[k] \in Seq(Byte)
      BY <3>2, ConcatProperties
    <3>. QED
      BY <2>2, <3>3
  <2>. QED
    BY <2>1, <2>2
<1>2. rule \in [[D -> V] -> [D -> V]]
  <2>. HIDE DEF D, V, step
  <2>. QED
    BY <1>1
<1>3. ASSUME NEW k \in D, NEW g \in [D -> V], NEW h \in [D -> V],
             \A y \in D : rank[y] < rank[k] => g[y] = h[y]
      PROVE  rule[g][k] = rule[h][k]
  <2>1. k # 0 => g[k - 1] = h[k - 1]
    <3>1. k # 0 => k - 1 \in D /\ rank[k - 1] < rank[k]
      OBVIOUS
    <3>. QED
      BY <1>3, <3>1
  <2>2. step(g, k) = step(h, k)
    BY <2>1
  <2>3. rule[g][k] = step(g, k) /\ rule[h][k] = step(h, k)
    <3>. HIDE DEF D, V, step
    <3>. QED
      OBVIOUS
  <2>. QED
    BY <2>2, <2>3
<1>4. Recursive(D, V, rank, rule)
  <2>1. rank \in [D -> Nat]
    OBVIOUS
  <2>. HIDE DEF D, V, rule, rank
  <2>. QED
    BY <1>2, <1>3, <2>1 DEF Recursive
<1>5. PICK f \in [D -> V] : f = rule[f]
  <2>1. V # {}
    OBVIOUS
  <2>2. Solvable(D, V, rule)
    <3>. HIDE DEF D, V, rule, rank
    <3>. QED
      BY <1>4, <2>1, Recursion
  <2>. HIDE DEF D, V, rule
  <2>. QED
    BY <2>2 DEF Solvable
<1>6. f = [k \in D |-> step(f, k)]
  <2>. HIDE DEF D, V, step
  <2>. QED
    BY <1>5
<1>7. W = [k \in D |-> step(W, k)]
  <2>. HIDE DEF D, step
  <2>. QED
    BY <1>6
<1>8. Joined(parts) = W
  BY Zenon DEF Joined
<1>. HIDE DEF W
<1>9. \A k \in D : W[k] = step(W, k)
  <2>. HIDE DEF D, step
  <2>. QED
    BY <1>7
<1>12. W[0] = <<>>
  <2>1. 0 \in D
    OBVIOUS
  <2>2. W[0] = step(W, 0)
    <3>. HIDE DEF D, step
    <3>. QED
      BY <1>9, <2>1
  <2>. QED
    BY <2>2
<1>13. ASSUME NEW k \in 1..n PROVE W[k] = W[k - 1] \o parts[k]
  <2>1. k \in D /\ k # 0
    OBVIOUS
  <2>2. W[k] = step(W, k)
    <3>. HIDE DEF D, step
    <3>. QED
      BY <1>9, <2>1
  <2>. QED
    BY <2>1, <2>2
<1>10. ASSUME NEW k \in D PROVE W[k] \in V
  <2>. DEFINE Bad == {j \in D : W[j] \notin V}
  <2>1. SUFFICES ASSUME Bad # {} PROVE FALSE
    BY <1>10
  <2>2. Bad \subseteq Nat
    OBVIOUS
  <2>3. PICK j \in Bad : \A i \in Bad : j <= i
    <3>. HIDE DEF Bad
    <3>. QED
      BY <2>1, <2>2, LeastNatural
  <2>4. j # 0
    <3>1. W[0] \in V
      BY <1>12
    <3>. QED
      BY <3>1
  <2>5. j \in 1..n /\ j - 1 \in D /\ j - 1 \notin Bad
    BY <2>3, <2>4
  <2>6. W[j - 1] \in Seq(Byte) /\ parts[j] \in Seq(Byte)
    BY <2>5, ElementOfSeq
  <2>7. W[j] = W[j - 1] \o parts[j]
    BY <1>13, <2>5
  <2>8. W[j] \in Seq(Byte)
    BY <2>6, <2>7, ConcatProperties
  <2>. QED
    BY <2>8
<1>11. W \in [D -> V]
  <2>1. \E F : W = [k \in D |-> F[k]]
    <3>. PICK F : F = [k \in D |-> step(W, k)]
      OBVIOUS
    <3>1. W = [k \in D |-> F[k]]
      <4>. HIDE DEF D, step
      <4>. QED
        BY <1>7
    <3>. QED
      BY <3>1
  <2>. HIDE DEF D, V
  <2>. QED
    BY <1>10, <2>1
<1>. QED
  BY <1>8, <1>11, <1>12, <1>13

(* Each lies where those before it end. *)
LEMMA JoinedLies ==
  ASSUME NEW parts \in Seq(Seq(Byte))
  PROVE  /\ Flattened(parts) \in Seq(Byte)
         /\ Joined(parts)[0] = <<>>
         /\ \A k \in 0..Len(parts) : Joined(parts)[k] \in Seq(Byte)
         /\ \A k \in 1..Len(parts) :
              /\ Len(Joined(parts)[k]) = Len(Joined(parts)[k - 1]) + Len(parts[k])
              /\ Lies(Flattened(parts), Len(Joined(parts)[k - 1]), parts[k])
<1>. PICK n \in Nat : n = Len(parts)
  BY LenProperties
<1>. PICK J : J = Joined(parts)
  OBVIOUS
<1>1. /\ J \in [0..n -> Seq(Byte)] /\ J[0] = <<>>
      /\ \A k \in 1..n : J[k] = J[k - 1] \o parts[k]
  BY JoinedUnfold
<1>2. \A k \in 0..n : J[k] \in Seq(Byte)
  BY <1>1
<1>3. \A k \in 1..n : /\ J[k - 1] \in Seq(Byte) /\ parts[k] \in Seq(Byte)
                      /\ Len(J[k]) = Len(J[k - 1]) + Len(parts[k])
                      /\ Lies(J[k], 0, J[k - 1])
                      /\ Lies(J[k], Len(J[k - 1]), parts[k])
  <2>. TAKE k \in 1..n
  <2>1. J[k - 1] \in Seq(Byte) /\ parts[k] \in Seq(Byte) /\ J[k] = J[k - 1] \o parts[k]
    <3>1. k - 1 \in 0..n /\ k \in 1..Len(parts)
      OBVIOUS
    <3>. QED
      BY <1>1, <1>2, <3>1, ElementOfSeq
  <2>. PICK a \in Seq(Byte), b \in Seq(Byte) : a = J[k - 1] /\ b = parts[k]
    BY <2>1
  <2>. QED
    BY <2>1, LiesJoin
<1>4. ASSUME NEW k \in 1..n, NEW m \in k..n PROVE Lies(J[m], Len(J[k - 1]), parts[k])
  <2>. DEFINE Bad == {i \in k..n : ~Lies(J[i], Len(J[k - 1]), parts[k])}
  <2>1. SUFFICES ASSUME Bad # {} PROVE FALSE
    BY <1>4
  <2>2. Bad \subseteq Nat
    OBVIOUS
  <2>3. PICK j \in Bad : \A i \in Bad : j <= i
    <3>. HIDE DEF Bad
    <3>. QED
      BY <2>1, <2>2, LeastNatural
  <2>4. j # k
    BY <1>3
  <2>5. j \in 1..n /\ j - 1 \in k..n /\ j - 1 \in 1..n /\ j - 1 \in 0..n /\ j \in 0..n
    BY <2>4
  <2>6. j - 1 \notin Bad
    BY <2>3, <2>5
  <2>7. Lies(J[j - 1], Len(J[k - 1]), parts[k])
    BY <2>5, <2>6
  <2>8. Lies(J[j], 0, J[j - 1])
    BY <1>3, <2>5
  <2>9. J[j] \in Seq(Byte) /\ J[j - 1] \in Seq(Byte) /\ parts[k] \in Seq(Byte)
    BY <1>2, <1>3, <2>5
  <2>. PICK at : at = Len(J[k - 1])
    OBVIOUS
  <2>10. Lies(J[j], 0 + at, parts[k])
    BY <2>7, <2>8, <2>9, LiesWithin
  <2>11. 0 + at = at
    BY <2>7 DEF Lies
  <2>12. Lies(J[j], at, parts[k])
    BY <2>10, <2>11
  <2>. QED
    BY <2>3, <2>12
<1>5. Flattened(parts) = J[n]
  BY DEF Flattened
<1>6. \A k \in 1..n : Lies(J[n], Len(J[k - 1]), parts[k])
  BY <1>4
<1>7. n \in 0..n
  OBVIOUS
<1>8. Flattened(parts) \in Seq(Byte)
  BY <1>2, <1>5, <1>7
<1>9. \A k \in 1..n : Lies(Flattened(parts), Len(J[k - 1]), parts[k])
  BY <1>5, <1>6
<1>10. \A k \in 1..n : Len(J[k]) = Len(J[k - 1]) + Len(parts[k])
  BY <1>3
<1>. QED
  BY <1>1, <1>2, <1>8, <1>9, <1>10

-----------------------------------------------------------------------------
(* Little-endian fields are read as they were written. *)
LEMMA Bytes16Read ==
  ASSUME NEW n \in 0..Words16 - 1
  PROVE  Bytes16(n) \in Seq(Byte) /\ Len(Bytes16(n)) = 2 /\ U16(Bytes16(n), 0) = n
<1>1. n \in Int /\ 0 <= n /\ n <= 65535
  BY SMT DEF Words16
<1>2. n = 256 * (n \div 256) + (n % 256) /\ n % 256 \in 0..255 /\ n \div 256 \in Int
  BY <1>1, Division
<1>3. PICK low \in 0..255, high \in Int : low = n % 256 /\ high = n \div 256
  BY <1>2
<1>4. n = 256 * high + low
  BY <1>2, <1>3
<1>5. high \in 0..255
  BY <1>1, <1>4
<1>6. low \in Byte /\ high \in Byte
  BY <1>5 DEF Byte
<1>7. Bytes16(n) = <<low, high>>
  BY <1>3 DEF Bytes16
<1>8. <<low, high>> \in Seq(Byte) /\ Len(<<low, high>>) = 2
      /\ <<low, high>>[0 + 1] = low /\ <<low, high>>[(0 + 1) + 1] = high
  BY <1>6
<1>9. U16(<<low, high>>, 0) = low + 256 * high
  BY <1>8 DEF U16, At
<1>10. low + 256 * high = n
  BY <1>4, <1>5
<1>. QED
  BY <1>7, <1>8, <1>9, <1>10

LEMMA Bytes32Read ==
  ASSUME NEW n \in 0..Words32 - 1
  PROVE  Bytes32(n) \in Seq(Byte) /\ Len(Bytes32(n)) = 4 /\ U32(Bytes32(n), 0) = n
<1>. DEFINE W == Words16
<1>1. W \in Nat \ {0} /\ W > 0
  BY DEF Words16
<1>2. PICK k \in Int : k = Words32 \div W /\ Words32 = W * k /\ k <= W /\ k >= 1
  <2>1. Words32 \in Nat \ {0} /\ Words32 % W = 0 /\ Words32 \div W <= W
    BY Words32Assumption
  <2>. HIDE DEF W
  <2>2. Words32 = W * (Words32 \div W) + (Words32 % W) /\ Words32 \div W \in Int
    BY <1>1, <2>1, Division
  <2>3. PICK k \in Int : k = Words32 \div W
    BY <2>2
  <2>4. Words32 = W * k /\ k <= W
    BY <1>1, <2>1, <2>2, <2>3
  <2>5. k <= 0 => W * k <= 0
    BY <1>1
  <2>6. k >= 1
    BY <2>1, <2>4, <2>5
  <2>. QED
    BY <2>3, <2>4, <2>6
<1>. HIDE DEF W
<1>3. PICK low \in 0..W - 1, high \in Int : low = n % W /\ high = n \div W /\ n = W * high + low
  <2>1. n \in Int
    BY Words32Assumption
  <2>2. n = W * (n \div W) + (n % W) /\ n % W \in 0..W - 1 /\ n \div W \in Int
    BY <1>1, <2>1, Division
  <2>. QED
    BY <2>2
<1>4. high \in 0..k - 1
  <2>1. n \in Int /\ 0 <= n /\ n < W * k
    BY <1>2, Words32Assumption
  <2>2. high < 0 => W * high <= -W
    BY <1>1
  <2>3. high >= k => W * high >= W * k
    BY <1>1, <1>2
  <2>. QED
    BY <1>1, <1>2, <1>3, <2>1, <2>2, <2>3
<1>5. low \in 0..Words16 - 1 /\ high \in 0..Words16 - 1
  <2>1. low \in 0..W - 1 /\ high \in 0..W - 1
    BY <1>1, <1>2, <1>4
  <2>. QED
    BY <2>1 DEF W
<1>14. PICK a : a = Bytes16(low)
  OBVIOUS
<1>15. PICK b : b = Bytes16(high)
  OBVIOUS
<1>6. /\ a \in Seq(Byte) /\ Len(a) = 2 /\ U16(a, 0) = low
      /\ b \in Seq(Byte) /\ Len(b) = 2 /\ U16(b, 0) = high
  BY <1>5, <1>14, <1>15, Bytes16Read
<1>16. PICK c : c = a \o b
  OBVIOUS
<1>7. Bytes32(n) = c
  BY <1>3, <1>14, <1>15, <1>16 DEF Bytes32, W
<1>8. c \in Seq(Byte) /\ Len(c) = 4 /\ Lies(c, 0, a) /\ Lies(c, 2, b)
  <2>1. c \in Seq(Byte) /\ Len(c) = Len(a) + Len(b) /\ Lies(c, 0, a) /\ Lies(c, Len(a), b)
    BY <1>6, <1>16, LiesJoin
  <2>. QED
    BY <1>6, <2>1
<1>9. U16(c, 0) = low
  <2>0. Len(a) >= 2
    BY <1>6
  <2>1. U16(c, 0) = U16(a, 0)
    BY <1>6, <1>8, <2>0, Word16Lies
  <2>. QED
    BY <1>6, <2>1
<1>10. U16(c, 0 + 2) = high
  <2>0. Len(b) >= 2 /\ 0 + 2 = 2
    BY <1>6
  <2>1. U16(c, 2) = U16(b, 0)
    BY <1>6, <1>8, <2>0, Word16Lies
  <2>. QED
    BY <1>6, <2>1
<1>11. U32(c, 0) = low + W * (high % k)
  BY <1>2, <1>9, <1>10 DEF U32, W
<1>12. high % k = high
  BY <1>2, <1>4, WordItself
<1>13. low + W * high = n
  BY <1>1, <1>3, <1>4
<1>. QED
  BY <1>7, <1>8, <1>11, <1>12, <1>13

(* A section, packed. *)
LEMMA PackedRead ==
  ASSUME NEW type \in Seq(Byte), Len(type) = 4, NEW data \in Seq(Byte), Len(data) < Words32
  PROVE  /\ PackSection(type, data) \in Seq(Byte)
         /\ Len(PackSection(type, data)) = 8 + Len(data) + Padding(Len(data))
         /\ Lies(PackSection(type, data), 0, type)
         /\ U32(PackSection(type, data), 4) = Len(data)
         /\ Lies(PackSection(type, data), 8, data)
<1>. PICK n \in Nat : n = Len(data)
  BY LenProperties
<1>. PICK p \in 0..3 : p = Padding(n)
  BY PaddingRange
<1>. PICK size : size = Bytes32(n)
  OBVIOUS
<1>1. size \in Seq(Byte) /\ Len(size) = 4 /\ U32(size, 0) = n
  <2>1. n \in 0..Words32 - 1
    BY Words32Assumption
  <2>. QED
    BY <2>1, Bytes32Read
<1>. PICK pad : pad = [i \in 1..p |-> 0]
  OBVIOUS
<1>2. pad \in Seq(Byte) /\ Len(pad) = p
  <2>1. \A i \in 1..p : 0 \in Byte
    BY DEF Byte
  <2>2. pad \in [1..p -> Byte] /\ p \in Nat
    BY <2>1
  <2>. QED
    BY <2>2, Elements
<1>. PICK a : a = type \o size
  OBVIOUS
<1>. PICK b : b = a \o data
  OBVIOUS
<1>. PICK c : c = b \o pad
  OBVIOUS
<1>3. PackSection(type, data) = c
  BY DEF PackSection
<1>4. a \in Seq(Byte) /\ Len(a) = 8 /\ Lies(a, 0, type) /\ Lies(a, 4, size)
  <2>1. a \in Seq(Byte) /\ Len(a) = Len(type) + Len(size) /\ Lies(a, 0, type) /\ Lies(a, Len(type), size)
    BY <1>1, LiesJoin
  <2>. QED
    BY <1>1, <2>1
<1>5. b \in Seq(Byte) /\ Len(b) = 8 + n /\ Lies(b, 0, a) /\ Lies(b, 8, data)
  <2>1. b \in Seq(Byte) /\ Len(b) = Len(a) + Len(data) /\ Lies(b, 0, a) /\ Lies(b, Len(a), data)
    BY <1>4, LiesJoin
  <2>. QED
    BY <1>4, <2>1
<1>6. c \in Seq(Byte) /\ Len(c) = (8 + n) + p /\ Lies(c, 0, b)
  <2>1. c \in Seq(Byte) /\ Len(c) = Len(b) + Len(pad) /\ Lies(c, 0, b)
    BY <1>2, <1>5, LiesJoin
  <2>. QED
    BY <1>2, <1>5, <2>1
<1>7. Lies(c, 0 + 0, a)
  BY <1>4, <1>5, <1>6, LiesWithin
<1>8. Lies(c, 0 + 8, data)
  BY <1>5, <1>6, LiesWithin
<1>9. Lies(c, 0, a) /\ Lies(c, 8, data)
  BY <1>7, <1>8
<1>10. Lies(c, 0 + 0, type) /\ Lies(c, 0 + 4, size)
  BY <1>1, <1>4, <1>6, <1>9, LiesWithin
<1>11. Lies(c, 0, type) /\ Lies(c, 4, size)
  BY <1>10
<1>12. U32(c, 4) = n
  <2>0. Len(size) >= 4 /\ size \in Seq(Byte) /\ c \in Seq(Byte) /\ Lies(c, 4, size)
    BY <1>1, <1>6, <1>11
  <2>1. U32(c, 4) = U32(size, 0)
    <3>1. \A w, s \in Seq(Byte) : Lies(w, 4, s) /\ Len(s) >= 4 => U32(w, 4) = U32(s, 0)
      BY Word32Lies
    <3>. QED
      BY <2>0, <3>1, Zenon
  <2>. QED
    BY <1>1, <2>1
<1>13. (8 + n) + p = 8 + n + p
  OBVIOUS
<1>. QED
  BY <1>3, <1>6, <1>9, <1>11, <1>12, <1>13

-----------------------------------------------------------------------------
(* A list of sections that can be walked, packed. *)
Packed(list) == [s \in DOMAIN list |-> PackSection(list[s].type, list[s].data)]

Marks(list) == [k \in 0..Len(list) |-> Len(Joined(Packed(list))[k])]

Walkable(list) ==
  /\ list \in Seq([type: Seq(Byte), data: Seq(Byte)])
  /\ \A s \in DOMAIN list :
       /\ Len(list[s].type) = 4 /\ Len(list[s].data) < Words32
       /\ \A k \in 1..4 : Printable(list[s].type[k])
       /\ Uppercase(list[s].type[1]) => list[s].type \in CriticalSections

(* The sections of a list, packed one after the other. *)
Laid(list, body) == Walkable(list) /\ body = Flattened(Packed(list))

(* A section of some type and data begins there. *)
SectionIs(body, at, type, data) ==
  /\ at \in Nat /\ at + 8 <= Len(body)
  /\ At(body, at) = type[1] /\ Slice(body, at, 4) = type
  /\ U32(body, at + 4) = Len(data) /\ Slice(body, at + 8, Len(data)) = data

LEMMA SectionPacked ==
  ASSUME NEW type \in Seq(Byte), Len(type) = 4, NEW data \in Seq(Byte), Len(data) < Words32,
         NEW body \in Seq(Byte), NEW at, Lies(body, at, PackSection(type, data))
  PROVE  SectionIs(body, at, type, data)
<1>. PICK p : p = PackSection(type, data)
  OBVIOUS
<1>. PICK n \in Nat, g \in 0..3, l \in Nat : n = Len(data) /\ g = Padding(n) /\ l = Len(body)
  <2>1. Len(data) \in Nat /\ Len(body) \in Nat
    BY LenProperties
  <2>. QED
    BY <2>1, PaddingRange
<1>1. /\ p \in Seq(Byte) /\ Len(p) = 8 + n + g /\ Lies(p, 0, type) /\ U32(p, 4) = n
      /\ Lies(p, 8, data)
  BY PackedRead
<1>2. Lies(body, at, p)
  OBVIOUS
<1>3. at \in Nat /\ at + (8 + n + g) <= l
  BY <1>1, <1>2 DEF Lies
<1>4. at + 8 <= l /\ 4 + 4 <= 8 + n + g /\ at + 0 = at
  BY <1>3
<1>5. Lies(body, at + 0, type) /\ Lies(body, at + 8, data)
  BY <1>1, <1>2, LiesWithin
<1>6. Lies(body, at, type)
  BY <1>4, <1>5
<1>7. Slice(body, at, 4) = type
  <2>1. Slice(body, at, Len(type)) = type
    BY <1>6, LiesRead
  <2>. QED
    BY <2>1
<1>8. Slice(body, at + 8, Len(data)) = data
  BY <1>5, LiesRead
<1>9. At(body, at) = type[1]
  <2>1. 1 \in 1..Len(type)
    OBVIOUS
  <2>. QED
    BY <1>6, <2>1 DEF Lies, At
<1>10. U32(body, at + 4) = U32(p, 4)
  <2>1. \A k \in Nat : k + 4 <= Len(p) => U32(body, at + k) = U32(p, k)
    BY <1>1, <1>2, LiesRead
  <2>. QED
    BY <1>1, <1>4, <2>1
<1>. QED
  BY <1>1, <1>3, <1>4, <1>7, <1>8, <1>9, <1>10, Zenon DEF SectionIs

(* Each of them is where it was put, and is followed by the next. *)
LEMMA SectionsLaid ==
  ASSUME NEW list, NEW body, Laid(list, body)
  PROVE  /\ body \in Seq(Byte) /\ Len(list) \in Nat
         /\ Marks(list) \in [0..Len(list) -> Nat]
         /\ Marks(list)[0] = 0 /\ Marks(list)[Len(list)] = Len(body)
         /\ \A s \in 1..Len(list) :
              /\ SectionIs(body, Marks(list)[s - 1], list[s].type, list[s].data)
              /\ Marks(list)[s] >= Marks(list)[s - 1] + 8 /\ Marks(list)[s] <= Len(body)
              /\ NextSection(body, Marks(list)[s - 1]) = Marks(list)[s]
<1>. Walkable(list) /\ body = Flattened(Packed(list))
  BY DEF Laid
<1>. PICK n \in Nat : n = Len(list) /\ DOMAIN list = 1..n
  BY LenProperties DEF Walkable
<1>. PICK P : P = Packed(list)
  OBVIOUS
<1>. PICK J : J = Joined(P)
  OBVIOUS
<1>. PICK M : M = Marks(list)
  OBVIOUS
<1>1. ASSUME NEW s \in 1..n
      PROVE  /\ list[s].type \in Seq(Byte) /\ list[s].data \in Seq(Byte)
             /\ Len(list[s].type) = 4 /\ Len(list[s].data) < Words32
             /\ \A k \in 1..4 : Printable(list[s].type[k])
             /\ Uppercase(list[s].type[1]) => list[s].type \in CriticalSections
             /\ P[s] = PackSection(list[s].type, list[s].data) /\ P[s] \in Seq(Byte)
             /\ Len(P[s]) = 8 + Len(list[s].data) + Padding(Len(list[s].data))
  <2>1. list[s] \in [type: Seq(Byte), data: Seq(Byte)]
    BY ElementOfSeq DEF Walkable
  <2>2. P[s] = PackSection(list[s].type, list[s].data)
    BY DEF Packed
  <2>3. list[s].type \in Seq(Byte) /\ list[s].data \in Seq(Byte)
    BY <2>1
  <2>4. /\ Len(list[s].type) = 4 /\ Len(list[s].data) < Words32
        /\ \A k \in 1..4 : Printable(list[s].type[k])
        /\ Uppercase(list[s].type[1]) => list[s].type \in CriticalSections
    BY DEF Walkable
  <2>5. /\ PackSection(list[s].type, list[s].data) \in Seq(Byte)
        /\ Len(PackSection(list[s].type, list[s].data)) =
             8 + Len(list[s].data) + Padding(Len(list[s].data))
    BY <2>3, <2>4, PackedRead
  <2>. QED
    BY <2>2, <2>3, <2>4, <2>5
<1>2. P \in Seq(Seq(Byte)) /\ Len(P) = n
  <2>1. P = [s \in 1..n |-> PackSection(list[s].type, list[s].data)]
    BY DEF Packed
  <2>2. P \in [1..n -> Seq(Byte)]
    BY <1>1, <2>1
  <2>. QED
    BY <2>2, Elements
<1>3. /\ body \in Seq(Byte) /\ J[0] = <<>>
      /\ \A k \in 0..n : J[k] \in Seq(Byte)
      /\ \A k \in 1..n : Len(J[k]) = Len(J[k - 1]) + Len(P[k]) /\ Lies(body, Len(J[k - 1]), P[k])
  BY <1>2, JoinedLies
<1>4. M = [k \in 0..n |-> Len(J[k])]
  BY DEF Marks
<1>5. \A k \in 0..n : M[k] = Len(J[k]) /\ M[k] \in Nat
  BY <1>3, <1>4, LenProperties
<1>6. M \in [0..n -> Nat] /\ M[0] = 0 /\ M[n] = Len(body)
  <2>1. M \in [0..n -> Nat]
    BY <1>4, <1>5
  <2>2. Len(<<>>) = 0 /\ 0 \in 0..n /\ n \in 0..n
    OBVIOUS
  <2>3. body = J[n]
    BY <1>2 DEF Flattened
  <2>. QED
    BY <1>3, <1>5, <2>1, <2>2, <2>3
<1>7. ASSUME NEW s \in 1..n
      PROVE  /\ SectionIs(body, M[s - 1], list[s].type, list[s].data)
             /\ M[s] >= M[s - 1] + 8 /\ M[s] <= Len(body)
             /\ NextSection(body, M[s - 1]) = M[s]
  <2>. PICK type \in Seq(Byte), data \in Seq(Byte) : type = list[s].type /\ data = list[s].data
    BY <1>1
  <2>1. s - 1 \in 0..n /\ s \in 0..n
    OBVIOUS
  <2>2. M[s - 1] = Len(J[s - 1]) /\ M[s] = Len(J[s]) /\ M[s - 1] \in Nat /\ M[s] \in Nat
    BY <1>5, <2>1
  <2>3. Lies(body, M[s - 1], PackSection(type, data))
    BY <1>1, <1>3, <2>2
  <2>4. Len(type) = 4 /\ Len(data) < Words32
    BY <1>1
  <2>5. SectionIs(body, M[s - 1], type, data)
    BY <1>3, <2>3, <2>4, SectionPacked
  <2>12. PICK at \in Nat, next \in Nat : at = M[s - 1] /\ next = M[s]
    BY <2>2
  <2>13. PICK z \in Nat, g \in 0..3, l \in Nat : z = Len(data) /\ g = Padding(z) /\ l = Len(body)
    <3>1. Len(data) \in Nat /\ Len(body) \in Nat
      BY <1>3, LenProperties
    <3>. QED
      BY <3>1, PaddingRange
  <2>6. next = at + (8 + z + g)
    BY <1>1, <1>3, <2>2, <2>12, <2>13
  <2>7. next <= l
    <3>1. at + Len(P[s]) <= l
      BY <1>1, <2>3, <2>12, <2>13 DEF Lies
    <3>. QED
      BY <1>1, <2>6, <2>12, <2>13, <3>1
  <2>8. next = at + 8 + z + g /\ next >= at + 8 /\ ~(at + 8 > l)
    BY <2>6, <2>7
  <2>9. U32(body, at + 4) = z /\ Slice(body, at, 4) = type
    BY <2>5, <2>12, <2>13 DEF SectionIs
  <2>10. /\ \A k \in 1..4 : Printable(type[k])
         /\ Uppercase(type[1]) => type \in CriticalSections
    BY <1>1
  <2>11. NextSection(body, at) = next
    BY <2>7, <2>8, <2>9, <2>10, <2>13 DEF NextSection
  <2>. QED
    BY <2>5, <2>7, <2>8, <2>11, <2>12, <2>13
<1>. QED
  BY <1>3, <1>6, <1>7

(* The marks rise. *)
LEMMA MarksRise ==
  ASSUME NEW list, NEW body, Laid(list, body), NEW j \in 0..Len(list), NEW k \in 0..Len(list), j < k
  PROVE  Marks(list)[j] < Marks(list)[k]
<1>. PICK n \in Nat : n = Len(list)
  BY SectionsLaid
<1>. PICK M \in [0..n -> Nat] : M = Marks(list)
  BY SectionsLaid
<1>1. \A s \in 1..n : M[s] >= M[s - 1] + 8
  BY SectionsLaid
<1>. DEFINE Bad == {i \in 0..n : i > j /\ ~(M[j] < M[i])}
<1>2. SUFFICES ASSUME Bad # {} PROVE FALSE
  OBVIOUS
<1>3. Bad \subseteq Nat
  OBVIOUS
<1>4. PICK i \in Bad : \A x \in Bad : i <= x
  <2>. HIDE DEF Bad
  <2>. QED
    BY <1>2, <1>3, LeastNatural
<1>5. i \in 1..n /\ i - 1 \in 0..n /\ i - 1 >= j
  OBVIOUS
<1>6. M[i] >= M[i - 1] + 8 /\ M[i] \in Nat /\ M[i - 1] \in Nat /\ M[j] \in Nat
  BY <1>1, <1>5
<1>7. i - 1 # j
  BY <1>6
<1>8. i - 1 \in Bad
  BY <1>5, <1>6, <1>7
<1>. QED
  BY <1>4, <1>5, <1>8

(* The walk finds them all, and nothing else. *)
LEMMA SectionsWalked ==
  ASSUME NEW list, NEW body, Laid(list, body)
  PROVE  /\ SectionStarts(body) = {Marks(list)[s - 1] : s \in 1..Len(list)}
         /\ Stuck \notin SectionStarts(body)
<1>. PICK n \in Nat : n = Len(list)
  BY SectionsLaid
<1>. PICK M \in [0..n -> Nat] : M = Marks(list)
  BY SectionsLaid
<1>1. body \in Seq(Byte) /\ M[0] = 0 /\ M[n] = Len(body) /\ Len(body) \in Nat
  <2>1. body \in Seq(Byte) /\ M[0] = 0 /\ M[n] = Len(body)
    BY SectionsLaid
  <2>. QED
    BY <2>1, LenProperties
<1>2. \A s \in 1..n : NextSection(body, M[s - 1]) = M[s] /\ M[s] >= M[s - 1] + 8 /\ M[s] <= Len(body)
  BY SectionsLaid
<1>. DEFINE From(k) == {M[s - 1] : s \in k + 1..n}
            Bad == {d \in 0..n : StartsFrom(body)[M[n - d]] # From(n - d)}
<1>3. Bad = {}
  <2>1. SUFFICES ASSUME Bad # {} PROVE FALSE
    OBVIOUS
  <2>2. Bad \subseteq Nat
    OBVIOUS
  <2>3. PICK d \in Bad : \A x \in Bad : d <= x
    <3>. HIDE DEF Bad
    <3>. QED
      BY <2>1, <2>2, LeastNatural
  <2>4. CASE d = 0
    <3>1. StartsFrom(body)[Len(body)] = {}
      <4>1. Len(body) >= Len(body)
        BY <1>1
      <4>. HIDE DEF From, Bad
      <4>. QED
        BY <1>1, <4>1, StartsUnfold
    <3>2. n - d = n /\ n + 1..n = {}
      BY <2>4
    <3>3. From(n - d) = {}
      BY <3>2
    <3>. QED
      BY <1>1, <3>1, <3>2, <3>3
  <2>5. CASE d # 0
    <3>0. d \in 0..n /\ (n - d) + 1 \in 1..n
      <4>1. d \in 0..n
        OBVIOUS
      <4>. HIDE DEF Bad, From
      <4>. QED
        BY <2>5, <4>1
    <3>. PICK s \in 1..n : s = (n - d) + 1
      BY <3>0
    <3>1. s - 1 = n - d /\ d - 1 \in 0..n /\ n - (d - 1) = s /\ s \in 0..n /\ s - 1 \in 0..n
      <4>. HIDE DEF Bad, From
      <4>. QED
        BY <3>0, <2>5
    <3>2. d - 1 \notin Bad
      <4>. HIDE DEF Bad, From
      <4>. QED
        BY <2>2, <2>3, <3>0, <3>1
    <3>3. StartsFrom(body)[M[s]] = From(s)
      BY <3>1, <3>2
    <3>4. NextSection(body, M[s - 1]) = M[s] /\ M[s] >= M[s - 1] + 8 /\ M[s] <= Len(body)
          /\ M[s - 1] \in Nat /\ M[s] \in Nat
      BY <1>2, <3>1
    <3>5. ~(M[s - 1] >= Len(body)) /\ M[s] # Stuck
      BY <1>1, <3>4 DEF Stuck
    <3>6. StartsFrom(body)[M[s - 1]] = {M[s - 1]} \cup StartsFrom(body)[M[s]]
      <4>1. StartsFrom(body)[M[s - 1]] =
              {M[s - 1]} \cup (IF NextSection(body, M[s - 1]) = Stuck THEN {Stuck}
                               ELSE StartsFrom(body)[NextSection(body, M[s - 1])])
        BY <1>1, <3>4, <3>5, StartsUnfold
      <4>. QED
        BY <3>4, <3>5, <4>1
    <3>7. From(s - 1) = {M[s - 1]} \cup From(s)
      <4>1. (s - 1) + 1 = s
        OBVIOUS
      <4>2. s..n = {s} \cup (s + 1..n)
        OBVIOUS
      <4>. QED
        BY <4>1, <4>2
    <3>8. StartsFrom(body)[M[n - d]] = From(n - d)
      BY <3>1, <3>3, <3>6, <3>7
    <3>. QED
      BY <2>3, <3>8
  <2>. QED
    BY <2>4, <2>5
<1>4. StartsFrom(body)[M[0]] = From(0)
  <2>1. n \in 0..n /\ n - n = 0
    OBVIOUS
  <2>. QED
    BY <1>3, <2>1
<1>5. SectionStarts(body) = {M[s - 1] : s \in 1..n}
  <2>1. 0 + 1 = 1
    OBVIOUS
  <2>. QED
    BY <1>1, <1>4, <2>1 DEF SectionStarts
<1>6. \A s \in 1..n : M[s - 1] # Stuck
  BY DEF Stuck
<1>. QED
  BY <1>5, <1>6

-----------------------------------------------------------------------------
(* A type that one section of the list has, or none. *)
Lone(list, s) == \A r \in 1..Len(list) : r # s => list[r].type # list[s].type

Found(list, body, s) ==
  /\ Typed(body, list[s].type) = {Marks(list)[s - 1]}
  /\ Cardinality(Typed(body, list[s].type)) = 1
  /\ Section(body, list[s].type) = list[s].data

LEMMA SectionFound ==
  ASSUME NEW list, NEW body, Laid(list, body),
         NEW s \in 1..Len(list), Lone(list, s)
  PROVE  Found(list, body, s)
<1>1. PICK n \in Nat : n = Len(list)
  BY SectionsLaid
<1>2. PICK M \in [0..n -> Nat] : M = Marks(list)
  BY <1>1, SectionsLaid
<1>3. PICK type, data : type = list[s].type /\ data = list[s].data
  OBVIOUS
<1>4. \A r \in 1..n : SectionIs(body, M[r - 1], list[r].type, list[r].data)
  BY <1>1, <1>2, SectionsLaid
<1>5. /\ SectionStarts(body) = {M[r - 1] : r \in 1..n}
      /\ Stuck \notin SectionStarts(body)
  <2>1. SectionStarts(body) = {Marks(list)[r - 1] : r \in 1..Len(list)}
    BY SectionsWalked
  <2>2. \A x : x \in SectionStarts(body) <=> \E r \in 1..n : x = M[r - 1]
    BY <1>1, <1>2, <2>1
  <2>3. SectionStarts(body) = {M[r - 1] : r \in 1..n}
    BY <2>2
  <2>. QED
    BY <2>3, SectionsWalked
<1>6. s \in 1..n /\ s - 1 \in 0..n
  BY <1>1
<1>7. PICK at \in Nat : at = M[s - 1]
  BY <1>6
<1>8. SectionIs(body, at, type, data)
  BY <1>3, <1>4, <1>6, <1>7
<1>9. Typed(body, type) = {at}
  <2>1. at \in Typed(body, type)
    BY <1>5, <1>6, <1>7, <1>8 DEF Typed, SectionIs
  <2>2. ASSUME NEW x \in Typed(body, type) PROVE x = at
    <3>1. x \in SectionStarts(body) /\ Slice(body, x, 4) = type
      BY DEF Typed
    <3>2. PICK r \in 1..n : x = M[r - 1]
      BY <1>5, <3>1
    <3>3. Slice(body, x, 4) = list[r].type
      BY <1>4, <3>2 DEF SectionIs
    <3>4. r = s
      BY <1>1, <1>3, <3>1, <3>3 DEF Lone
    <3>. QED
      BY <1>7, <3>2, <3>4
  <2>. QED
    BY <2>1, <2>2
<1>10. Min(Typed(body, type)) = at
  BY <1>9, MinOfNaturals
<1>11. Section(body, type) = data
  BY <1>8, <1>10 DEF Section, SectionIs
<1>12. Cardinality(Typed(body, type)) = 1
  BY <1>9, FS_Singleton
<1>. QED
  BY <1>2, <1>3, <1>7, <1>9, <1>11, <1>12 DEF Found

LEMMA SectionAbsent ==
  ASSUME NEW list, NEW body, Laid(list, body),
         NEW type, \A r \in 1..Len(list) : list[r].type # type
  PROVE  Typed(body, type) = {}
<1>1. SUFFICES ASSUME NEW x \in Typed(body, type) PROVE FALSE
  OBVIOUS
<1>2. x \in SectionStarts(body) /\ Slice(body, x, 4) = type
  BY DEF Typed
<1>3. PICK r \in 1..Len(list) : x = Marks(list)[r - 1]
  BY <1>2, SectionsWalked
<1>4. SectionIs(body, x, list[r].type, list[r].data)
  BY <1>3, SectionsLaid
<1>. QED
  BY <1>2, <1>4 DEF SectionIs

(* The walk that collects what it skips. *)
Collects(body, kept, F) ==
  \A at \in Nat : F[at] =
    IF at >= Len(body) \/ NextSection(body, at) = Stuck THEN <<>>
    ELSE (IF at \in kept THEN <<at>> ELSE <<>>) \o F[NextSection(body, at)]

LEMMA InOrderUnfold ==
  ASSUME NEW body \in Seq(Byte), NEW kept
  PROVE  Collects(body, kept, InOrder(body, kept))
<1>. DEFINE V == Seq(Nat)
            from(f, at) ==
              IF at >= Len(body) \/ NextSection(body, at) = Stuck THEN <<>>
              ELSE (IF at \in kept THEN <<at>> ELSE <<>>) \o f[NextSection(body, at)]
            rule == [f \in [Nat -> V] |-> [at \in Nat |-> from(f, at)]]
            W == CHOOSE w : w = [at \in Nat |-> from(w, at)]
<1>1. ASSUME NEW f \in [Nat -> V], NEW at \in Nat PROVE from(f, at) \in V
  <2>1. NextSection(body, at) # Stuck => f[NextSection(body, at)] \in V
    BY NextRange
  <2>2. (IF at \in kept THEN <<at>> ELSE <<>>) \in V
    OBVIOUS
  <2>3. PICK a : a = (IF at \in kept THEN <<at>> ELSE <<>>)
    OBVIOUS
  <2>4. ASSUME NEW b \in V PROVE a \o b \in V
    BY <2>2, <2>3, ConcatProperties
  <2>. HIDE DEF V
  <2>5. NextSection(body, at) # Stuck => a \o f[NextSection(body, at)] \in V
    BY <2>1, <2>4
  <2>6. <<>> \in V
    BY DEF V
  <2>. QED
    BY <2>3, <2>5, <2>6
<1>2. rule \in [[Nat -> V] -> [Nat -> V]]
  <2>. HIDE DEF V, from
  <2>. QED
    BY <1>1
<1>3. ASSUME NEW at \in Nat, NEW g \in [Nat -> V], NEW h \in [Nat -> V],
             \A y \in Nat : Left(body)[y] < Left(body)[at] => g[y] = h[y]
      PROVE  rule[g][at] = rule[h][at]
  <2>1. at < Len(body) /\ NextSection(body, at) # Stuck =>
          g[NextSection(body, at)] = h[NextSection(body, at)]
    BY <1>3, NextRange, LeftShrinks
  <2>2. ~(at >= Len(body)) => at < Len(body)
    BY LenProperties
  <2>3. from(g, at) = from(h, at)
    <3>1. CASE at >= Len(body) \/ NextSection(body, at) = Stuck
      BY <3>1
    <3>2. CASE ~(at >= Len(body)) /\ NextSection(body, at) # Stuck
      <4>1. g[NextSection(body, at)] = h[NextSection(body, at)]
        BY <2>1, <2>2, <3>2
      <4>. QED
        BY <4>1, <3>2
    <3>. QED
      BY <3>1, <3>2
  <2>4. rule[g][at] = from(g, at) /\ rule[h][at] = from(h, at)
    <3>. HIDE DEF V, from
    <3>. QED
      OBVIOUS
  <2>. QED
    BY <2>3, <2>4
<1>4. Recursive(Nat, V, Left(body), rule)
  <2>. HIDE DEF V, rule
  <2>. QED
    BY <1>2, <1>3, LeftShrinks DEF Recursive
<1>5. PICK f \in [Nat -> V] : f = rule[f]
  <2>1. V # {}
    <3>1. <<>> \in V
      OBVIOUS
    <3>. QED
      BY <3>1
  <2>2. Solvable(Nat, V, rule)
    <3>. HIDE DEF V, rule
    <3>. QED
      BY <1>4, <2>1, Recursion
  <2>. HIDE DEF V, rule
  <2>. QED
    BY <2>2 DEF Solvable
<1>6. f = [at \in Nat |-> from(f, at)]
  <2>. HIDE DEF V, from
  <2>. QED
    BY <1>5
<1>7. W = [at \in Nat |-> from(W, at)]
  <2>. HIDE DEF from
  <2>. QED
    BY <1>6
<1>8. InOrder(body, kept) = W
  BY Zenon DEF InOrder
<1>9. \A at \in Nat : W[at] = from(W, at)
  <2>. HIDE DEF W, from
  <2>. QED
    BY <1>7
<1>. HIDE DEF W
<1>. QED
  BY <1>8, <1>9 DEF Collects

(* It collects the sections from one of them on in their order. *)
MarksFrom(list, first, order) ==
  /\ order \in Seq(Nat) /\ Len(order) = Len(list) - first
  /\ \A i \in 1..Len(list) - first : order[i] = Marks(list)[(first + i) - 1]

LEMMA TailInOrder ==
  ASSUME NEW list, NEW body, Laid(list, body),
         NEW first \in 0..Len(list),
         NEW kept, kept = {Marks(list)[s - 1] : s \in first + 1..Len(list)}
  PROVE  MarksFrom(list, first, InOrder(body, kept)[0])
<1>1. PICK n \in Nat : n = Len(list)
  BY SectionsLaid
<1>2. PICK M \in [0..n -> Nat] : M = Marks(list)
  BY <1>1, SectionsLaid
<1>3. body \in Seq(Byte) /\ M[0] = 0 /\ M[n] = Len(body) /\ Len(body) \in Nat
  <2>1. body \in Seq(Byte) /\ M[0] = 0 /\ M[n] = Len(body)
    BY <1>1, <1>2, SectionsLaid
  <2>. QED
    BY <2>1, LenProperties
<1>4. \A s \in 1..n : NextSection(body, M[s - 1]) = M[s] /\ M[s] >= M[s - 1] + 8 /\ M[s] <= Len(body)
  BY <1>1, <1>2, SectionsLaid
<1>5. first \in 0..n /\ kept = {M[s - 1] : s \in first + 1..n}
  BY <1>1, <1>2
<1>6. PICK F : F = InOrder(body, kept) /\ Collects(body, kept, F)
  BY <1>3, InOrderUnfold
<1>. DEFINE low(k) == IF k >= first THEN k ELSE first
            Good(k) == /\ F[M[k]] \in Seq(Nat) /\ Len(F[M[k]]) = n - low(k)
                       /\ \A i \in 1..n - low(k) : F[M[k]][i] = M[(low(k) + i) - 1]
            Bad == {d \in 0..n : ~Good(n - d)}
<1>7. Good(n)
  <2>1. F[Len(body)] = <<>>
    <3>1. Len(body) >= Len(body)
      BY <1>3
    <3>. QED
      BY <1>3, <1>6, <3>1 DEF Collects
  <2>2. low(n) = n
    BY <1>5
  <2>3. <<>> \in Seq(Nat) /\ Len(<<>>) = 0 /\ n - n = 0 /\ 1..0 = {}
    OBVIOUS
  <2>. QED
    BY <1>3, <2>1, <2>2, <2>3
<1>8. ASSUME NEW s \in 1..n, Good(s) PROVE Good(s - 1)
  <2>1. s - 1 \in 0..n /\ s \in 0..n
    OBVIOUS
  <2>2. M[s - 1] \in Nat /\ M[s] \in Nat /\ ~(M[s - 1] >= Len(body)) /\ M[s] # Stuck
        /\ NextSection(body, M[s - 1]) = M[s]
    BY <1>3, <1>4, <2>1 DEF Stuck
  <2>3. F[M[s - 1]] = (IF M[s - 1] \in kept THEN <<M[s - 1]>> ELSE <<>>) \o F[M[s]]
    <3>1. F[M[s - 1]] =
            IF M[s - 1] >= Len(body) \/ NextSection(body, M[s - 1]) = Stuck THEN <<>>
            ELSE (IF M[s - 1] \in kept THEN <<M[s - 1]>> ELSE <<>>)
                   \o F[NextSection(body, M[s - 1])]
      <4>1. \A at \in Nat : F[at] =
              IF at >= Len(body) \/ NextSection(body, at) = Stuck THEN <<>>
              ELSE (IF at \in kept THEN <<at>> ELSE <<>>) \o F[NextSection(body, at)]
        BY <1>6 DEF Collects
      <4>2. PICK at \in Nat : at = M[s - 1]
        BY <2>2
      <4>. QED
        BY <4>1, <4>2
    <3>. HIDE DEF Good
    <3>. QED
      BY <2>2, <3>1
  <2>4. CASE s - 1 >= first
    <3>1. s \in first + 1..n /\ low(s) = s /\ low(s - 1) = s - 1
      BY <1>5, <2>4
    <3>2. M[s - 1] \in kept
      BY <1>5, <3>1
    <3>3. PICK m \in Nat, g \in Seq(Nat) : m = M[s - 1] /\ g = F[M[s]]
      BY <1>8, <2>2
    <3>4. PICK h : h = F[M[s - 1]]
      OBVIOUS
    <3>5. h = <<m>> \o g
      BY <2>3, <3>2, <3>3, <3>4
    <3>6. Len(g) = n - s /\ \A i \in 1..n - s : g[i] = M[(s + i) - 1]
      BY <1>8, <3>1, <3>3
    <3>7. <<m>> \in Seq(Nat) /\ Len(<<m>>) = 1 /\ <<m>>[1] = m
      OBVIOUS
    <3>8. /\ h \in Seq(Nat) /\ Len(h) = 1 + (n - s)
          /\ \A i \in 1..1 + (n - s) : h[i] = IF i <= 1 THEN <<m>>[i] ELSE g[i - 1]
      BY <3>5, <3>6, <3>7, ConcatProperties
    <3>9. 1 + (n - s) = n - (s - 1)
      OBVIOUS
    <3>10. ASSUME NEW i \in 1..n - (s - 1) PROVE h[i] = M[((s - 1) + i) - 1]
      <4>1. CASE i = 1
        <5>1. ((s - 1) + 1) - 1 = s - 1 /\ 1 <= 1 /\ 1 \in 1..1 + (n - s)
          OBVIOUS
        <5>2. h[1] = m
          BY <3>7, <3>8, <5>1
        <5>. QED
          BY <3>3, <3>4, <4>1, <5>1, <5>2
      <4>2. CASE i # 1
        <5>1. i - 1 \in 1..n - s /\ ~(i <= 1) /\ i \in 1..1 + (n - s)
              /\ (s + (i - 1)) - 1 = ((s - 1) + i) - 1
          BY <3>9, <4>2
        <5>2. h[i] = g[i - 1]
          BY <3>8, <5>1
        <5>3. g[i - 1] = M[(s + (i - 1)) - 1]
          BY <3>6, <5>1
        <5>. QED
          BY <5>1, <5>2, <5>3
      <4>. QED
        BY <4>1, <4>2
    <3>. QED
      BY <3>1, <3>3, <3>4, <3>8, <3>9, <3>10
  <2>5. CASE ~(s - 1 >= first)
    <3>1. low(s) = first /\ low(s - 1) = first
      BY <1>5, <2>5
    <3>2. M[s - 1] \notin kept
      <4>1. ASSUME NEW r \in first + 1..n, M[s - 1] = M[r - 1] PROVE FALSE
        <5>1. r - 1 \in 0..n /\ s - 1 \in 0..n /\ s - 1 < r - 1
          BY <1>5, <2>5
        <5>2. M[s - 1] < M[r - 1]
          BY <1>1, <1>2, <5>1, MarksRise
        <5>. QED
          BY <4>1, <5>1, <5>2
      <4>. QED
        BY <1>5, <4>1
    <3>3. F[M[s]] \in Seq(Nat)
      BY <1>8
    <3>4. F[M[s - 1]] = F[M[s]]
      <4>1. F[M[s - 1]] = <<>> \o F[M[s]]
        BY <2>3, <3>2
      <4>. QED
        BY <3>3, <4>1, ConcatEmptySeq
    <3>. QED
      BY <1>8, <3>1, <3>4
  <2>. QED
    BY <2>4, <2>5
<1>9. Bad = {}
  <2>1. SUFFICES ASSUME Bad # {} PROVE FALSE
    OBVIOUS
  <2>2. Bad \subseteq Nat
    OBVIOUS
  <2>3. PICK d \in Bad : \A x \in Bad : d <= x
    <3>. HIDE DEF Bad
    <3>. QED
      BY <2>1, <2>2, LeastNatural
  <2>4. d \in 0..n /\ ~Good(n - d)
    OBVIOUS
  <2>. HIDE DEF Good
  <2>5. d # 0
    <3>1. n - 0 = n
      OBVIOUS
    <3>. QED
      BY <1>7, <2>4, <3>1
  <2>6. PICK s \in 1..n : s = (n - d) + 1
    <3>1. (n - d) + 1 \in 1..n
      BY <2>4, <2>5
    <3>. QED
      BY <3>1
  <2>7. d - 1 \in 0..n /\ n - (d - 1) = s /\ s - 1 = n - d /\ ~(d <= d - 1)
    BY <2>4, <2>5, <2>6
  <2>8. Good(s)
    <3>1. d - 1 \notin Bad
      BY <2>3, <2>7
    <3>. QED
      BY <2>7, <3>1
  <2>9. Good(s - 1)
    BY <1>8, <2>8
  <2>. QED
    BY <2>4, <2>7, <2>9
<1>10. Good(0)
  <2>1. n \in 0..n /\ n - n = 0
    OBVIOUS
  <2>. HIDE DEF Good
  <2>. QED
    BY <1>9, <2>1
<1>11. low(0) = first
  BY <1>5
<1>. QED
  BY <1>1, <1>2, <1>3, <1>6, <1>10, <1>11 DEF MarksFrom

(* What is carried through is the end of the list. *)
TailOf(list, first, tail) ==
  /\ \A i \in 1..Len(tail) : list[first + i] = tail[i]
  /\ \A s \in first + 1..Len(list) : ~Uppercase(list[s].type[1]) /\ list[s].type # hnam
  /\ \A s \in 1..first :
       \/ Uppercase(list[s].type[1]) /\ list[s].type # hnam
       \/ s = first /\ list[s].type = hnam

(* The sections behind the tables are carried through. *)
LEMMA AncillaryDecoded ==
  ASSUME NEW list, NEW body, Laid(list, body),
         NEW first \in 0..Len(list), NEW tail \in Seq([type: Seq(Byte), data: Seq(Byte)]),
         Len(tail) = Len(list) - first, TailOf(list, first, tail)
  PROVE  DecodeAncillary(body) = tail
<1>. /\ \A i \in 1..Len(tail) : list[first + i] = tail[i]
     /\ \A s \in first + 1..Len(list) : ~Uppercase(list[s].type[1]) /\ list[s].type # hnam
     /\ \A s \in 1..first :
          \/ Uppercase(list[s].type[1]) /\ list[s].type # hnam
          \/ s = first /\ list[s].type = hnam
  BY DEF TailOf
<1>1. PICK n \in Nat : n = Len(list)
  BY SectionsLaid
<1>2. PICK M \in [0..n -> Nat] : M = Marks(list)
  BY <1>1, SectionsLaid
<1>3. \A s \in 1..n : SectionIs(body, M[s - 1], list[s].type, list[s].data)
  BY <1>1, <1>2, SectionsLaid
<1>4. SectionStarts(body) = {M[s - 1] : s \in 1..n} /\ first \in 0..n
  <2>1. SectionStarts(body) = {Marks(list)[s - 1] : s \in 1..Len(list)}
    BY SectionsWalked
  <2>2. \A x : x \in SectionStarts(body) <=> \E s \in 1..n : x = M[s - 1]
    BY <1>1, <1>2, <2>1
  <2>3. SectionStarts(body) = {M[s - 1] : s \in 1..n}
    BY <2>2
  <2>. QED
    BY <1>1, <2>3
<1>5. ~Uppercase(hnam[1])
  BY DEF hnam, Uppercase
<1>6. PICK starts : starts = {at \in SectionStarts(body) : ~Uppercase(At(body, at))}
  OBVIOUS
<1>7. \A s \in 1..n : M[s - 1] \in starts <=> ~Uppercase(list[s].type[1])
  BY <1>3, <1>4, <1>6 DEF SectionIs
<1>8. \A r, s \in 1..n : M[r - 1] = M[s - 1] => r = s
  <2>1. ASSUME NEW r \in 1..n, NEW s \in 1..n, r < s PROVE M[r - 1] < M[s - 1]
    <3>1. r - 1 \in 0..n /\ s - 1 \in 0..n /\ r - 1 < s - 1
      BY <2>1
    <3>. QED
      BY <1>1, <1>2, <3>1, MarksRise
  <2>2. ASSUME NEW r \in 1..n, NEW s \in 1..n, M[r - 1] = M[s - 1] PROVE r = s
    <3>1. r - 1 \in 0..n /\ s - 1 \in 0..n
      OBVIOUS
    <3>2. M[r - 1] \in Nat /\ M[s - 1] \in Nat
      BY <3>1
    <3>3. r < s => M[r - 1] < M[s - 1]
      BY <2>1
    <3>4. s < r => M[s - 1] < M[r - 1]
      BY <2>1
    <3>. QED
      BY <2>2, <3>2, <3>3, <3>4
  <2>. QED
    BY <2>2
<1>9. PICK kept : kept = starts \ (IF Typed(body, hnam) = {} THEN {} ELSE {Min(Typed(body, hnam))})
  OBVIOUS
<1>10. kept = {M[s - 1] : s \in first + 1..n}
  <2>1. CASE \E s \in 1..first : list[s].type = hnam
    <3>1. PICK s \in 1..n : s = first /\ list[s].type = hnam
      BY <1>1, <1>4, <2>1
    <3>2. ASSUME NEW r \in 1..n, r # s PROVE list[r].type # hnam
      <4>1. r \in 1..first \/ r \in first + 1..n
        BY <1>4
      <4>. QED
        BY <1>1, <3>1, <3>2, <4>1
    <3>3. Typed(body, hnam) = {M[s - 1]}
      <4>1. s \in 1..Len(list) /\ Lone(list, s)
        BY <1>1, <3>1, <3>2 DEF Lone
      <4>2. Typed(body, list[s].type) = {Marks(list)[s - 1]}
        <5>1. Found(list, body, s)
          BY <4>1, SectionFound
        <5>. QED
          BY <5>1 DEF Found
      <4>. QED
        BY <1>2, <3>1, <4>2
    <3>4. M[s - 1] \in Nat
      <4>1. s - 1 \in 0..n
        OBVIOUS
      <4>. QED
        BY <4>1
    <3>5. Min(Typed(body, hnam)) = M[s - 1]
      BY <3>3, <3>4, MinOfNaturals
    <3>6. kept = starts \ {M[s - 1]}
      BY <1>9, <3>3, <3>5
    <3>7. ASSUME NEW r \in 1..n PROVE M[r - 1] \in kept <=> r \in first + 1..n
      <4>1. CASE r \in first + 1..n
        <5>1. ~Uppercase(list[r].type[1]) /\ r # s
          BY <1>1, <3>1, <4>1
        <5>. QED
          BY <1>7, <1>8, <3>6, <4>1, <5>1
      <4>2. CASE r = s
        BY <3>1, <3>6, <4>2
      <4>3. CASE r < s
        <5>1. r \in 1..first /\ r # first
          BY <3>1, <4>3
        <5>2. Uppercase(list[r].type[1])
          BY <5>1
        <5>. QED
          BY <1>7, <3>1, <3>6, <4>3, <5>2
      <4>. QED
        BY <3>1, <4>1, <4>2, <4>3
    <3>8. \A x \in kept : \E r \in 1..n : x = M[r - 1]
      BY <1>4, <1>6, <3>6
    <3>9. \A r \in first + 1..n : r \in 1..n
      BY <1>4
    <3>. QED
      BY <3>7, <3>8, <3>9
  <2>2. CASE \A s \in 1..first : list[s].type # hnam
    <3>1. \A r \in 1..n : r \in 1..first \/ r \in first + 1..n
      BY <1>4
    <3>2. \A r \in 1..n : list[r].type # hnam
      BY <1>1, <2>2, <3>1
    <3>3. Typed(body, hnam) = {}
      BY <1>1, <3>2, SectionAbsent
    <3>4. kept = starts
      BY <1>9, <3>3
    <3>5. \A r \in 1..first : Uppercase(list[r].type[1]) /\ ~(r \in first + 1..n)
      BY <2>2
    <3>6. \A r \in first + 1..n : ~Uppercase(list[r].type[1]) /\ r \in 1..n
      BY <1>1, <1>4
    <3>7. \A r \in 1..n : M[r - 1] \in kept <=> r \in first + 1..n
      BY <1>7, <3>1, <3>4, <3>5, <3>6
    <3>8. \A x \in kept : \E r \in 1..n : x = M[r - 1]
      BY <1>4, <1>6, <3>4
    <3>. QED
      BY <3>6, <3>7, <3>8
  <2>. QED
    BY <2>1, <2>2
<1>11. PICK order : order = InOrder(body, kept)[0]
  OBVIOUS
<1>12. /\ order \in Seq(Nat) /\ Len(order) = n - first
       /\ \A i \in 1..n - first : order[i] = M[(first + i) - 1]
  <2>1. kept = {Marks(list)[s - 1] : s \in first + 1..Len(list)}
    BY <1>1, <1>2, <1>10
  <2>2. MarksFrom(list, first, InOrder(body, kept)[0])
    BY <2>1, TailInOrder
  <2>. QED
    BY <1>1, <1>2, <1>11, <2>2 DEF MarksFrom
<1>13. DOMAIN order = 1..n - first
  BY <1>12, LenProperties
<1>14. ASSUME NEW i \in 1..n - first
       PROVE  [type |-> Slice(body, order[i], 4),
               data |-> Slice(body, order[i] + 8, U32(body, order[i] + 4))] = tail[i]
  <2>1. PICK s \in 1..n : s = first + i
    BY <1>4
  <2>2. SectionIs(body, order[i], list[s].type, list[s].data)
    <3>1. order[i] = M[s - 1]
      BY <1>12, <2>1
    <3>. QED
      BY <1>3, <3>1
  <2>3. tail[i] = list[s] /\ tail[i] \in [type: Seq(Byte), data: Seq(Byte)]
    <3>1. i \in 1..Len(tail)
      BY <1>1
    <3>. QED
      BY <2>1, <3>1, ElementOfSeq
  <2>4. Slice(body, order[i], 4) = tail[i].type
        /\ Slice(body, order[i] + 8, U32(body, order[i] + 4)) = tail[i].data
    BY <2>2, <2>3 DEF SectionIs
  <2>. QED
    BY <2>3, <2>4
<1>15. DecodeAncillary(body) =
         [s \in DOMAIN order |->
            [type |-> Slice(body, order[s], 4),
             data |-> Slice(body, order[s] + 8, U32(body, order[s] + 4))]]
  BY <1>6, <1>9, <1>11 DEF DecodeAncillary
<1>16. DecodeAncillary(body) = [i \in 1..n - first |-> tail[i]]
  BY <1>13, <1>14, <1>15
<1>17. tail = [i \in 1..n - first |-> tail[i]]
  <2>1. Len(tail) = n - first
    BY <1>1
  <2>2. tail \in [1..n - first -> [type: Seq(Byte), data: Seq(Byte)]]
    BY <2>1, LenProperties
  <2>. QED
    BY <2>2
<1>. QED
  BY <1>16, <1>17

-----------------------------------------------------------------------------
(* A table, and where its entries begin and end. *)
Ends(entries) == [k \in 0..Len(entries) |-> 1 + Len(Joined(entries)[k])]

LEMMA TableLaid ==
  ASSUME NEW entries \in Seq(Seq(Byte)), Len(entries) <= 255,
         NEW data \in Seq(Byte), Lies(data, 0, EncodeTable(entries))
  PROVE  /\ Len(entries) \in Nat /\ Ends(entries) \in [0..Len(entries) -> Nat]
         /\ data # <<>> /\ At(data, 0) = Len(entries)
         /\ Ends(entries)[0] = 1 /\ Ends(entries)[Len(entries)] <= Len(data)
         /\ EncodeTable(entries) \in Seq(Byte)
         /\ Len(EncodeTable(entries)) = Ends(entries)[Len(entries)]
         /\ \A k \in 0..Len(entries) : Ends(entries)[k] >= 1
         /\ \A k \in 1..Len(entries) :
              /\ Lies(data, Ends(entries)[k - 1], entries[k])
              /\ Ends(entries)[k] = Ends(entries)[k - 1] + Len(entries[k])
              /\ Ends(entries)[k] <= Len(data)
<1>1. PICK n \in Nat : n = Len(entries)
  BY LenProperties
<1>2. PICK J : J = Joined(entries)
  OBVIOUS
<1>3. PICK whole : whole = Flattened(entries)
  OBVIOUS
<1>4. /\ whole \in Seq(Byte) /\ J[0] = <<>>
      /\ \A k \in 0..n : J[k] \in Seq(Byte)
      /\ \A k \in 1..n : Len(J[k]) = Len(J[k - 1]) + Len(entries[k]) /\ Lies(whole, Len(J[k - 1]), entries[k])
  BY <1>1, <1>2, <1>3, JoinedLies
<1>5. whole = J[n]
  BY <1>1, <1>2, <1>3 DEF Flattened
<1>6. PICK head : head = <<n>>
  OBVIOUS
<1>7. head \in Seq(Byte) /\ Len(head) = 1 /\ head[1] = n
  <2>1. n \in Byte
    <3>1. n <= 255
      BY <1>1
    <3>. QED
      BY <3>1 DEF Byte
  <2>. QED
    BY <1>6, <2>1
<1>8. PICK all : all = EncodeTable(entries)
  OBVIOUS
<1>9. all = head \o whole
  BY <1>1, <1>3, <1>6, <1>8 DEF EncodeTable
<1>10. all \in Seq(Byte) /\ Len(all) = 1 + Len(whole) /\ Lies(all, 0, head) /\ Lies(all, 1, whole)
  <2>1. all \in Seq(Byte) /\ Len(all) = Len(head) + Len(whole)
        /\ Lies(all, 0, head) /\ Lies(all, Len(head), whole)
    BY <1>4, <1>7, <1>9, LiesJoin
  <2>. QED
    BY <1>7, <2>1
<1>11. Lies(data, 0, all)
  BY <1>8
<1>12. PICK d \in Nat, w \in Nat : d = Len(data) /\ w = Len(whole)
  BY <1>4, LenProperties
<1>13. 1 + w <= d
  <2>1. 0 + Len(all) <= Len(data)
    BY <1>11 DEF Lies
  <2>. QED
    BY <1>10, <1>12, <2>1
<1>14. At(data, 0) = n /\ data # <<>>
  <2>1. 1 \in 1..Len(all) /\ 1 \in 1..Len(head) /\ 0 + 1 = 1
    BY <1>7, <1>10, <1>12
  <2>2. data[0 + 1] = all[1]
    BY <1>11, <2>1 DEF Lies
  <2>3. all[0 + 1] = head[1]
    BY <1>10, <2>1 DEF Lies
  <2>4. Len(data) # 0
    BY <1>12, <1>13
  <2>5. Len(<<>>) = 0
    OBVIOUS
  <2>. QED
    BY <1>7, <2>1, <2>2, <2>3, <2>4, <2>5 DEF At
<1>15. PICK E : E = Ends(entries)
  OBVIOUS
<1>16. E = [k \in 0..n |-> 1 + Len(J[k])]
  BY <1>1, <1>2, <1>15 DEF Ends
<1>17. \A k \in 0..n : Len(J[k]) \in Nat
  BY <1>4, LenProperties
<1>18. E \in [0..n -> Nat] /\ \A k \in 0..n : E[k] = 1 + Len(J[k]) /\ E[k] \in Nat
  BY <1>16, <1>17
<1>19. E[0] = 1 /\ E[n] = 1 + w
  <2>1. 0 \in 0..n /\ n \in 0..n /\ Len(<<>>) = 0
    OBVIOUS
  <2>. QED
    BY <1>4, <1>5, <1>12, <1>18, <2>1
<1>20. ASSUME NEW k \in 1..n
       PROVE  /\ Lies(data, E[k - 1], entries[k])
              /\ E[k] = E[k - 1] + Len(entries[k])
              /\ E[k] <= d
  <2>1. k - 1 \in 0..n /\ k \in 0..n /\ k \in 1..Len(entries)
    BY <1>1
  <2>2. entries[k] \in Seq(Byte)
    BY <2>1, ElementOfSeq
  <2>3. PICK a \in Nat, b \in Nat, c \in Nat : a = Len(J[k - 1]) /\ b = Len(J[k]) /\ c = Len(entries[k])
    BY <1>17, <2>1, <2>2, LenProperties
  <2>4. b = a + c /\ Lies(whole, a, entries[k])
    BY <1>4, <2>3
  <2>5. Lies(all, 1 + a, entries[k])
    BY <1>4, <1>10, <2>2, <2>4, LiesWithin
  <2>6. Lies(data, 0 + (1 + a), entries[k])
    BY <1>10, <1>11, <2>2, <2>5, LiesWithin
  <2>7. 0 + (1 + a) = 1 + a
    OBVIOUS
  <2>8. Lies(data, 1 + a, entries[k])
    BY <2>6, <2>7
  <2>9. (1 + a) + c <= d
    BY <1>12, <2>3, <2>8 DEF Lies
  <2>10. E[k - 1] = 1 + a /\ E[k] = 1 + b
    BY <1>18, <2>1, <2>3
  <2>11. 1 + b = (1 + a) + c
    BY <2>4
  <2>. QED
    BY <2>3, <2>8, <2>9, <2>10, <2>11
<1>21. Len(all) = E[n] /\ E[n] <= d
  BY <1>10, <1>12, <1>13, <1>19
<1>22. \A k \in 0..n : E[k] >= 1
  <2>. TAKE k \in 0..n
  <2>1. PICK a \in Nat : a = Len(J[k])
    BY <1>17
  <2>2. 1 + a >= 1
    OBVIOUS
  <2>. QED
    BY <1>18, <2>1, <2>2
<1>. QED
  BY <1>1, <1>22, <1>8, <1>10, <1>12, <1>14, <1>15, <1>18, <1>19, <1>20, <1>21

(* Its cursors, if the entry at a cursor is followed where it ends. *)
SteppedThrough(data, entries, following) ==
  /\ \A k \in 1..Len(entries) + 1 : Cursors(data, following)[k] = Ends(entries)[k - 1]
  /\ Last(Cursors(data, following)) = Ends(entries)[Len(entries)]

LEMMA TableStepped ==
  ASSUME NEW entries \in Seq(Seq(Byte)), Len(entries) <= 255,
         NEW data \in Seq(Byte), Lies(data, 0, EncodeTable(entries)),
         NEW following \in [1..Len(data) -> Nat \cup {Stuck}],
         \A k \in 1..Len(entries) :
           Len(entries[k]) >= 1 /\ following[Ends(entries)[k - 1]] = Ends(entries)[k]
  PROVE  SteppedThrough(data, entries, following)
<1>1. PICK n \in Nat : n = Len(entries)
  BY LenProperties
<1>2. PICK E \in [0..n -> Nat] : E = Ends(entries)
  BY <1>1, TableLaid
<1>3. At(data, 0) = n /\ E[0] = 1 /\ E[n] <= Len(data)
  BY <1>1, <1>2, TableLaid
<1>4. \A k \in 1..n : E[k] = E[k - 1] + Len(entries[k]) /\ E[k] <= Len(data)
  BY <1>1, <1>2, TableLaid
<1>5. \A k \in 1..n : Len(entries[k]) >= 1 /\ following[E[k - 1]] = E[k]
  BY <1>1, <1>2
<1>6. PICK l \in Nat : l = Len(data)
  BY LenProperties
<1>7. PICK S : S = Steps(following)
  OBVIOUS
<1>8. S[0] = 1 /\ \A k \in Nat : S[k + 1] = IF S[k] \in 1..l THEN following[S[k]] ELSE Stuck
  BY <1>6, <1>7, StepsUnfold
<1>9. ASSUME NEW k \in 1..n
      PROVE  k - 1 \in 0..n /\ k \in 0..n /\ E[k] >= E[k - 1] + 1 /\ E[k - 1] \in Nat /\ E[k] \in Nat
  <2>1. k - 1 \in 0..n /\ k \in 0..n
    OBVIOUS
  <2>2. Len(entries[k]) \in Nat
    <3>1. k \in 1..Len(entries)
      BY <1>1
    <3>. QED
      BY <3>1, ElementOfSeq, LenProperties
  <2>3. PICK c \in Nat, a \in Nat, b \in Nat : c = Len(entries[k]) /\ a = E[k - 1] /\ b = E[k]
    BY <2>1, <2>2
  <2>4. b = a + c /\ c >= 1
    BY <1>4, <1>5, <2>3
  <2>5. b >= a + 1
    BY <2>4
  <2>. QED
    BY <2>1, <2>3, <2>5
<1>. DEFINE Good(k) == S[k] = E[k] /\ E[k] >= k + 1
            Bad == {k \in 0..n : ~Good(k)}
<1>10. Good(0)
  BY <1>3, <1>8
<1>11. ASSUME NEW k \in 1..n, Good(k - 1) PROVE Good(k)
  <2>1. k - 1 \in Nat /\ (k - 1) + 1 = k
    OBVIOUS
  <2>2. PICK a \in Nat, b \in Nat : a = E[k - 1] /\ b = E[k]
    BY <1>9
  <2>3. a >= k /\ b >= a + 1 /\ b <= l
    BY <1>4, <1>6, <1>9, <1>11, <2>1, <2>2
  <2>4. a \in 1..l
    BY <2>3
  <2>5. S[k] = IF a \in 1..l THEN following[a] ELSE Stuck
    BY <1>8, <1>11, <2>1, <2>2
  <2>6. S[k] = b
    BY <1>5, <2>2, <2>4, <2>5
  <2>7. b >= k + 1
    BY <2>3
  <2>. QED
    BY <2>2, <2>6, <2>7
<1>12. Bad = {}
  <2>1. SUFFICES ASSUME Bad # {} PROVE FALSE
    OBVIOUS
  <2>2. Bad \subseteq Nat
    OBVIOUS
  <2>3. PICK k \in Bad : \A x \in Bad : k <= x
    <3>. HIDE DEF Bad
    <3>. QED
      BY <2>1, <2>2, LeastNatural
  <2>4. k \in 0..n /\ ~Good(k)
    OBVIOUS
  <2>. HIDE DEF Good
  <2>5. k # 0
    BY <1>10, <2>4
  <2>6. k \in 1..n /\ k - 1 \in 0..n /\ ~(k <= k - 1)
    BY <2>4, <2>5
  <2>7. k - 1 \notin Bad
    BY <2>3, <2>6
  <2>8. Good(k - 1)
    BY <2>6, <2>7
  <2>. QED
    BY <1>11, <2>4, <2>6, <2>8
<1>13. \A k \in 0..n : S[k] = E[k] /\ E[k] >= k + 1
  BY <1>12
<1>14. n + 1 <= l
  <2>1. n \in 0..n /\ E[n] \in Nat
    OBVIOUS
  <2>2. E[n] >= n + 1
    BY <1>13, <2>1
  <2>. QED
    BY <1>3, <1>6, <2>1, <2>2
<1>. HIDE DEF Good, Bad
<1>15. PICK C : C = Cursors(data, following)
  OBVIOUS
<1>16. C = [k \in 1..n + 1 |-> IF k > l THEN Stuck ELSE S[k - 1]]
  BY <1>3, <1>6, <1>7, <1>15 DEF Cursors
<1>17. \A k \in 1..n + 1 : k - 1 \in 0..n /\ ~(k > l)
  BY <1>14
<1>18. \A k \in 1..n + 1 : C[k] = E[k - 1]
  BY <1>13, <1>16, <1>17
<1>19. Len(C) = n + 1
  BY <1>16
<1>20. Last(C) = E[n]
  <2>1. n + 1 \in 1..n + 1 /\ (n + 1) - 1 = n
    OBVIOUS
  <2>. QED
    BY <1>18, <1>19, <2>1 DEF Last
<1>. QED
  BY <1>1, <1>2, <1>15, <1>18, <1>20 DEF SteppedThrough

LEMMA TableHeld ==
  ASSUME NEW n \in Nat, n <= 255, NEW entries \in [1..n -> Seq(Byte)]
  PROVE  /\ entries \in Seq(Seq(Byte)) /\ Len(entries) = n
         /\ EncodeTable(entries) \in Seq(Byte)
<1>1. entries \in Seq(Seq(Byte)) /\ Len(entries) = n
  BY Elements
<1>2. PICK all : all = Flattened(entries)
  OBVIOUS
<1>3. all \in Seq(Byte)
  BY <1>1, <1>2, JoinedLies
<1>4. n \in Byte
  BY DEF Byte
<1>5. <<n>> \in Seq(Byte)
  BY <1>4
<1>6. EncodeTable(entries) = <<n>> \o all
  BY <1>1, <1>2 DEF EncodeTable
<1>. QED
  BY <1>1, <1>3, <1>5, <1>6, ConcatProperties

(* One of its entries. *)
LEMMA EntryPlaced ==
  ASSUME NEW entries \in Seq(Seq(Byte)), Len(entries) <= 255,
         NEW data \in Seq(Byte), Lies(data, 0, EncodeTable(entries)),
         NEW k \in 1..Len(entries), Len(entries[k]) >= 1
  PROVE  /\ Ends(entries)[k - 1] \in 1..Len(data) /\ Ends(entries)[k - 1] \in Nat
         /\ entries[k] \in Seq(Byte) /\ Lies(data, Ends(entries)[k - 1], entries[k])
         /\ Ends(entries)[k - 1] + Len(entries[k]) <= Len(data)
         /\ Ends(entries)[k] = Ends(entries)[k - 1] + Len(entries[k])
<1>1. PICK n \in Nat : n = Len(entries)
  BY LenProperties
<1>2. PICK E \in [0..n -> Nat] : E = Ends(entries)
  BY <1>1, TableLaid
<1>3. \A j \in 0..n : E[j] >= 1
  BY <1>1, <1>2, TableLaid
<1>4. k - 1 \in 0..n
  BY <1>1
<1>5. Lies(data, E[k - 1], entries[k]) /\ E[k] = E[k - 1] + Len(entries[k])
  BY <1>1, <1>2, TableLaid
<1>6. entries[k] \in Seq(Byte)
  BY ElementOfSeq
<1>7. PICK a \in Nat, c \in Nat, l \in Nat : a = E[k - 1] /\ c = Len(entries[k]) /\ l = Len(data)
  BY <1>4, <1>6, LenProperties
<1>8. a >= 1 /\ c >= 1 /\ a + c <= l
  BY <1>3, <1>4, <1>5, <1>7 DEF Lies
<1>9. a \in 1..l
  BY <1>8
<1>. QED
  BY <1>2, <1>5, <1>6, <1>7, <1>8, <1>9

-----------------------------------------------------------------------------
(* The pool. *)
LEMMA PoolEntryRead ==
  ASSUME NEW data \in Seq(Byte), NEW type \in PoolType, NEW bytes \in Seq(Byte),
         Len(bytes) = Width(type), NEW at \in Nat, Lies(data, at, <<type>> \o bytes)
  PROVE  /\ At(data, at) = type
         /\ Slice(data, at + 1, Width(At(data, at))) = bytes
         /\ AfterConstant(data, at) = at + Len(<<type>> \o bytes)
<1>1. PICK head : head = <<type>>
  OBVIOUS
<1>2. head \in Seq(Byte) /\ Len(head) = 1 /\ head[1] = type
  <2>1. type \in Byte
    BY DEF PoolType, I32, I64, F32, Byte
  <2>. QED
    BY <1>1, <2>1
<1>3. PICK e : e = head \o bytes
  OBVIOUS
<1>4. e \in Seq(Byte) /\ Len(e) = 1 + Len(bytes) /\ Lies(e, 0, head) /\ Lies(e, 1, bytes)
  <2>1. e \in Seq(Byte) /\ Len(e) = Len(head) + Len(bytes) /\ Lies(e, 0, head) /\ Lies(e, Len(head), bytes)
    BY <1>2, <1>3, LiesJoin
  <2>. QED
    BY <1>2, <2>1
<1>5. Lies(data, at, e)
  BY <1>1, <1>3
<1>6. Lies(data, at + 0, head) /\ Lies(data, at + 1, bytes) /\ at + 0 = at
  <2>1. Lies(data, at + 0, head)
    BY <1>2, <1>4, <1>5, LiesWithin
  <2>2. Lies(data, at + 1, bytes)
    BY <1>4, <1>5, LiesWithin
  <2>3. at + 0 = at
    OBVIOUS
  <2>. QED
    BY <2>1, <2>2, <2>3
<1>7. At(data, at) = type
  <2>1. Lies(data, at, head) /\ 1 \in 1..Len(head)
    BY <1>2, <1>6
  <2>2. data[at + 1] = head[1]
    BY <2>1 DEF Lies
  <2>. QED
    BY <1>2, <2>2 DEF At
<1>8. Slice(data, at + 1, Len(bytes)) = bytes
  BY <1>6, LiesRead
<1>9. AfterConstant(data, at) = at + Len(e)
  <2>1. PICK w \in Nat, l \in Nat : w = Len(bytes) /\ l = Len(data)
    BY LenProperties
  <2>2. (at + 1) + w <= l /\ Width(type) = w
    BY <1>6, <2>1 DEF Lies
  <2>3. at < l /\ at + 1 + w <= l /\ at + 1 + w = at + (1 + w)
    BY <2>2
  <2>. QED
    BY <1>4, <1>7, <2>1, <2>2, <2>3 DEF AfterConstant
<1>. QED
  BY <1>1, <1>3, <1>7, <1>8, <1>9

LEMMA ConstantsKept ==
  ASSUME NEW constants \in Seq([type: PoolType, bytes: Seq(Byte)]), Len(constants) <= 255,
         \A k \in DOMAIN constants : Len(constants[k].bytes) = Width(constants[k].type),
         NEW data, data = EncodeConstants(constants)
  PROVE  data \in Seq(Byte) /\ ConstantsDecode(data) /\ DecodeConstants(data) = constants
<1>1. PICK n \in Nat : n = Len(constants) /\ DOMAIN constants = 1..n /\ n <= 255
  BY LenProperties
<1>2. PICK entries : entries = [i \in 1..n |-> <<constants[i].type>> \o constants[i].bytes]
  OBVIOUS
<1>3. ASSUME NEW i \in 1..n
      PROVE  /\ constants[i].type \in PoolType /\ constants[i].bytes \in Seq(Byte)
             /\ constants[i] = [type |-> constants[i].type, bytes |-> constants[i].bytes]
             /\ Len(constants[i].bytes) = Width(constants[i].type)
  <2>1. constants[i] \in [type: PoolType, bytes: Seq(Byte)]
    BY <1>1, ElementOfSeq
  <2>. QED
    BY <1>1, <2>1
<1>4. ASSUME NEW i \in 1..n PROVE entries[i] \in Seq(Byte) /\ Len(entries[i]) >= 1
  <2>1. PICK t \in PoolType : t = constants[i].type
    BY <1>3
  <2>8. t \in Byte
    BY DEF PoolType, I32, I64, F32, Byte
  <2>9. <<t>> \in Seq(Byte) /\ Len(<<t>>) = 1
    BY <2>8
  <2>2. PICK a \in Seq(Byte) : a = <<constants[i].type>> /\ Len(a) = 1
    BY <2>1, <2>9
  <2>3. PICK b \in Seq(Byte) : b = constants[i].bytes
    BY <1>3
  <2>4. entries[i] = a \o b
    BY <1>2, <2>2, <2>3
  <2>5. a \o b \in Seq(Byte) /\ Len(a \o b) = Len(a) + Len(b)
    BY LiesJoin
  <2>6. Len(b) \in Nat
    BY LenProperties
  <2>7. Len(a) + Len(b) >= 1
    BY <2>2, <2>6
  <2>. QED
    BY <2>4, <2>5, <2>7
<1>5. entries \in [1..n -> Seq(Byte)]
  BY <1>2, <1>4
<1>6. entries \in Seq(Seq(Byte)) /\ Len(entries) = n /\ EncodeTable(entries) \in Seq(Byte)
  BY <1>1, <1>5, TableHeld
<1>7. data = EncodeTable(entries)
  BY <1>1, <1>2 DEF EncodeConstants
<1>8. data \in Seq(Byte) /\ Lies(data, 0, EncodeTable(entries)) /\ Len(entries) <= 255
  BY <1>1, <1>6, <1>7, LiesItself
<1>9. PICK E \in [0..n -> Nat] : E = Ends(entries)
  BY <1>6, <1>8, TableLaid
<1>10. data # <<>> /\ At(data, 0) = n /\ E[n] = Len(data)
  BY <1>6, <1>7, <1>8, <1>9, TableLaid
<1>11. ASSUME NEW k \in 1..n
       PROVE  /\ E[k - 1] \in 1..Len(data)
              /\ At(data, E[k - 1]) = constants[k].type
              /\ Slice(data, E[k - 1] + 1, Width(At(data, E[k - 1]))) = constants[k].bytes
              /\ AfterConstant(data, E[k - 1]) = E[k]
  <2>1. entries[k] = <<constants[k].type>> \o constants[k].bytes /\ k \in 1..Len(entries)
        /\ Len(entries[k]) >= 1
    BY <1>2, <1>4, <1>6
  <2>2. /\ E[k - 1] \in 1..Len(data) /\ E[k - 1] \in Nat
        /\ Lies(data, E[k - 1], entries[k]) /\ E[k] = E[k - 1] + Len(entries[k])
    BY <1>6, <1>8, <1>9, <2>1, EntryPlaced
  <2>3. PICK at \in Nat : at = E[k - 1]
    BY <2>2
  <2>6. PICK type \in PoolType, bytes \in Seq(Byte) :
          type = constants[k].type /\ bytes = constants[k].bytes
    BY <1>3
  <2>4. Lies(data, at, <<type>> \o bytes) /\ Len(bytes) = Width(type)
    BY <1>3, <2>1, <2>2, <2>3, <2>6
  <2>5. /\ At(data, at) = type
        /\ Slice(data, at + 1, Width(At(data, at))) = bytes
        /\ AfterConstant(data, at) = at + Len(<<type>> \o bytes)
    BY <1>8, <2>4, PoolEntryRead
  <2>. QED
    BY <2>1, <2>2, <2>3, <2>5, <2>6
<1>12. PICK following : following = [at \in 1..Len(data) |-> AfterConstant(data, at)]
  OBVIOUS
<1>13. following \in [1..Len(data) -> Nat \cup {Stuck}]
  <2>1. \A at \in 1..Len(data) : AfterConstant(data, at) \in Nat \cup {Stuck}
    BY <1>8, AfterRange
  <2>. QED
    BY <1>12, <2>1
<1>14. \A k \in 1..Len(entries) :
         Len(entries[k]) >= 1 /\ following[Ends(entries)[k - 1]] = Ends(entries)[k]
  BY <1>4, <1>6, <1>9, <1>11, <1>12
<1>15. SteppedThrough(data, entries, following)
  BY <1>6, <1>8, <1>13, <1>14, TableStepped
<1>16. PICK C : C = ConstantCursors(data)
  OBVIOUS
<1>17. (\A k \in 1..n : C[k] = E[k - 1]) /\ Last(C) = E[n]
  <2>1. C = Cursors(data, following)
    BY <1>12, <1>16 DEF ConstantCursors
  <2>2. \A k \in 1..n : k \in 1..Len(entries) + 1
    BY <1>6
  <2>. QED
    BY <1>6, <1>9, <1>15, <2>1, <2>2 DEF SteppedThrough
<1>18. ConstantsDecode(data)
  BY <1>10, <1>16, <1>17 DEF ConstantsDecode
<1>19. DecodeConstants(data) = constants
  <2>1. DecodeConstants(data) =
          [i \in 1..n |-> [type |-> At(data, C[i]), bytes |-> Slice(data, C[i] + 1, Width(At(data, C[i])))]]
    BY <1>10, <1>16 DEF DecodeConstants
  <2>2. \A i \in 1..n : [type |-> At(data, C[i]), bytes |-> Slice(data, C[i] + 1, Width(At(data, C[i])))]
                          = constants[i]
    BY <1>3, <1>11, <1>17
  <2>3. DecodeConstants(data) = [i \in 1..n |-> constants[i]]
    BY <2>1, <2>2
  <2>4. constants = [i \in 1..n |-> constants[i]]
    BY <1>1, LenProperties
  <2>. QED
    BY <2>3, <2>4
<1>. QED
  BY <1>8, <1>18, <1>19

-----------------------------------------------------------------------------
(* Texts with their lengths. *)
LEMMA PrefixedShape ==
  ASSUME NEW text \in Seq(Byte), Len(text) <= 255
  PROVE  /\ LengthPrefixed(text) \in Seq(Byte) /\ Len(LengthPrefixed(text)) = 1 + Len(text)
         /\ LengthPrefixed(text)[1] = Len(text) /\ Lies(LengthPrefixed(text), 1, text)
<1>1. PICK n \in Nat : n = Len(text)
  BY LenProperties
<1>2. PICK head : head = <<n>>
  OBVIOUS
<1>3. head \in Seq(Byte) /\ Len(head) = 1 /\ head[1] = n
  <2>1. n <= 255
    BY <1>1
  <2>2. n \in Byte
    BY <2>1 DEF Byte
  <2>. QED
    BY <1>2, <2>2
<1>4. PICK e : e = head \o text
  OBVIOUS
<1>5. e \in Seq(Byte) /\ Len(e) = Len(head) + Len(text) /\ Lies(e, 0, head) /\ Lies(e, Len(head), text)
  BY <1>3, <1>4, LiesJoin
<1>6. LengthPrefixed(text) = e
  BY <1>1, <1>2, <1>4 DEF LengthPrefixed
<1>7. e[1] = n
  <2>1. 1 \in 1..Len(head) /\ 0 + 1 = 1
    BY <1>3
  <2>2. e[0 + 1] = head[1]
    BY <1>5, <2>1 DEF Lies
  <2>. QED
    BY <1>3, <2>1, <2>2
<1>. QED
  BY <1>1, <1>3, <1>5, <1>6, <1>7

LEMMA PrefixedRead ==
  ASSUME NEW text \in Seq(Byte), Len(text) <= 255,
         NEW data \in Seq(Byte), NEW at \in Nat, Lies(data, at, LengthPrefixed(text))
  PROVE  /\ At(data, at) = Len(text) /\ Slice(data, at + 1, At(data, at)) = text
         /\ at + 1 + Len(text) <= Len(data)
         /\ AfterName(data, at) = at + Len(LengthPrefixed(text))
<1>1. PICK e \in Seq(Byte) : e = LengthPrefixed(text)
  BY PrefixedShape
<1>2. Len(e) = 1 + Len(text) /\ e[1] = Len(text) /\ Lies(e, 1, text)
  BY <1>1, PrefixedShape
<1>3. Lies(data, at, e)
  BY <1>1
<1>4. PICK n \in Nat, l \in Nat : n = Len(text) /\ l = Len(data)
  BY LenProperties
<1>5. Lies(data, at + 1, text)
  BY <1>2, <1>3, LiesWithin
<1>6. Slice(data, at + 1, Len(text)) = text
  BY <1>5, LiesRead
<1>7. At(data, at) = Len(text)
  <2>1. 1 \in 1..Len(e)
    BY <1>2, <1>4
  <2>2. data[at + 1] = e[1]
    BY <1>3, <2>1 DEF Lies
  <2>. QED
    BY <1>2, <2>2 DEF At
<1>8. at + 1 + n <= l
  BY <1>4, <1>5 DEF Lies
<1>9. AfterName(data, at) = at + (1 + n)
  <2>1. at < l /\ at + 1 + n = at + (1 + n)
    BY <1>8
  <2>. QED
    BY <1>4, <1>7, <1>8, <2>1 DEF AfterName
<1>. QED
  BY <1>1, <1>2, <1>4, <1>6, <1>7, <1>8, <1>9

(* What a table of texts is read as. *)
TextsAre(data, texts, n) ==
  /\ data \in Seq(Byte) /\ data # <<>> /\ At(data, 0) = n
  /\ Last(NameCursors(data)) # Stuck
  /\ \A i \in 1..n :
       Slice(data, NameCursors(data)[i] + 1, At(data, NameCursors(data)[i])) = texts[i]

LEMMA TextsKept ==
  ASSUME NEW n \in Nat, n <= 255, NEW texts \in [1..n -> Seq(Byte)],
         \A i \in 1..n : Len(texts[i]) <= 255,
         NEW data, data = EncodeTable([i \in 1..n |-> LengthPrefixed(texts[i])])
  PROVE  TextsAre(data, texts, n)
<1>2. PICK entries : entries = [i \in 1..n |-> LengthPrefixed(texts[i])]
  OBVIOUS
<1>4. ASSUME NEW i \in 1..n PROVE entries[i] \in Seq(Byte) /\ Len(entries[i]) >= 1
  <2>1. PICK t \in Seq(Byte) : t = texts[i] /\ Len(t) <= 255
    OBVIOUS
  <2>2. Len(t) \in Nat
    BY LenProperties
  <2>3. LengthPrefixed(t) \in Seq(Byte) /\ Len(LengthPrefixed(t)) = 1 + Len(t)
    BY <2>1, PrefixedShape
  <2>4. 1 + Len(t) >= 1
    BY <2>2
  <2>. QED
    BY <1>2, <2>1, <2>3, <2>4
<1>5. entries \in [1..n -> Seq(Byte)]
  BY <1>2, <1>4
<1>6. entries \in Seq(Seq(Byte)) /\ Len(entries) = n /\ EncodeTable(entries) \in Seq(Byte)
  BY <1>5, TableHeld
<1>7. data = EncodeTable(entries)
  BY <1>2
<1>8. data \in Seq(Byte) /\ Lies(data, 0, EncodeTable(entries)) /\ Len(entries) <= 255
  BY <1>6, <1>7, LiesItself
<1>9. PICK E \in [0..n -> Nat] : E = Ends(entries)
  BY <1>6, <1>8, TableLaid
<1>10. data # <<>> /\ At(data, 0) = n
  BY <1>6, <1>8, TableLaid
<1>11. ASSUME NEW k \in 1..n
       PROVE  /\ E[k - 1] \in 1..Len(data)
              /\ Slice(data, E[k - 1] + 1, At(data, E[k - 1])) = texts[k]
              /\ AfterName(data, E[k - 1]) = E[k] /\ E[k] \in Nat
  <2>1. entries[k] = LengthPrefixed(texts[k]) /\ k \in 1..Len(entries)
        /\ Len(entries[k]) >= 1
    BY <1>2, <1>4, <1>6
  <2>2. /\ E[k - 1] \in 1..Len(data) /\ E[k - 1] \in Nat
        /\ Lies(data, E[k - 1], entries[k]) /\ E[k] = E[k - 1] + Len(entries[k])
    BY <1>6, <1>8, <1>9, <2>1, EntryPlaced
  <2>3. PICK at \in Nat : at = E[k - 1]
    BY <2>2
  <2>6. PICK text \in Seq(Byte) : text = texts[k] /\ Len(text) <= 255
    OBVIOUS
  <2>4. Lies(data, at, LengthPrefixed(text))
    BY <2>1, <2>2, <2>3, <2>6
  <2>5. /\ Slice(data, at + 1, At(data, at)) = text
        /\ AfterName(data, at) = at + Len(LengthPrefixed(text))
    BY <1>8, <2>4, <2>6, PrefixedRead
  <2>7. k \in 0..n
    OBVIOUS
  <2>. QED
    BY <2>1, <2>2, <2>3, <2>5, <2>6, <2>7
<1>12. PICK following : following = [at \in 1..Len(data) |-> AfterName(data, at)]
  OBVIOUS
<1>13. following \in [1..Len(data) -> Nat \cup {Stuck}]
  <2>1. ASSUME NEW at \in 1..Len(data) PROVE AfterName(data, at) \in Nat \cup {Stuck}
    <3>1. PICK l \in Nat : l = Len(data)
      BY LenProperties
    <3>2. at < l => At(data, at) \in Nat
      <4>1. at < l => at + 1 \in 1..Len(data)
        BY <3>1
      <4>2. at < l => data[at + 1] \in Byte
        BY <1>8, <4>1, ElementOfSeq
      <4>3. \A b \in Byte : b \in Nat
        BY Limits
      <4>. QED
        BY <4>2, <4>3 DEF At
    <3>. QED
      BY <3>1, <3>2 DEF AfterName
  <2>. QED
    BY <1>12, <2>1
<1>14. \A k \in 1..Len(entries) :
         Len(entries[k]) >= 1 /\ following[Ends(entries)[k - 1]] = Ends(entries)[k]
  BY <1>4, <1>6, <1>9, <1>11, <1>12
<1>15. SteppedThrough(data, entries, following)
  BY <1>6, <1>8, <1>13, <1>14, TableStepped
<1>16. PICK C : C = NameCursors(data)
  OBVIOUS
<1>17. (\A k \in 1..n : C[k] = E[k - 1]) /\ Last(C) = E[n]
  <2>1. C = Cursors(data, following)
    BY <1>12, <1>16 DEF NameCursors
  <2>2. \A k \in 1..n : k \in 1..Len(entries) + 1
    BY <1>6
  <2>. QED
    BY <1>6, <1>9, <1>15, <2>1, <2>2 DEF SteppedThrough
<1>18. Last(C) # Stuck
  <2>1. E[n] \in Nat
    OBVIOUS
  <2>. QED
    BY <1>17, <2>1 DEF Stuck
<1>. QED
  BY <1>8, <1>10, <1>11, <1>16, <1>17, <1>18 DEF TextsAre

-----------------------------------------------------------------------------
(* The imports. *)
ImportBytes(h, kind, access, type, dim, params) ==
  Bytes32(h) \o <<kind, access, type>> \o Bytes16(dim) \o LengthPrefixed(params)

ImportRecord(imp) ==
  ImportBytes(NameHash(imp.name), imp.kind, imp.access, imp.type, imp.dimension, imp.param_types)

(* What a part begins with begins there. *)
LEMMA LiesFirst ==
  ASSUME NEW whole \in Seq(Byte), NEW part \in Seq(Byte), NEW sub \in Seq(Byte),
         NEW at \in Nat, Lies(whole, at, part), Lies(part, 0, sub)
  PROVE  Lies(whole, at, sub)
<1>1. Lies(whole, at + 0, sub)
  BY LiesWithin
<1>2. at + 0 = at
  OBVIOUS
<1>. QED
  BY <1>1, <1>2

LEMMA ThreeBytes ==
  ASSUME NEW x \in Byte, NEW y \in Byte, NEW z \in Byte
  PROVE  /\ <<x, y, z>> \in Seq(Byte) /\ Len(<<x, y, z>>) = 3
         /\ <<x, y, z>>[1] = x /\ <<x, y, z>>[2] = y /\ <<x, y, z>>[3] = z
<1>1. PICK x1 \in Byte, y1 \in Byte, z1 \in Byte : x1 = x /\ y1 = y /\ z1 = z
  OBVIOUS
<1>2. <<x1, y1, z1>> \in Seq(Byte)
  OBVIOUS
<1>. QED
  BY <1>1, <1>2

ImportFieldsOf(imp) ==
  [hash |-> NameHash(imp.name), kind |-> imp.kind, access |-> imp.access,
   type |-> imp.type, dimension |-> imp.dimension, param_types |-> imp.param_types]

LEMMA ImportPacked ==
  ASSUME NEW h \in 0..Words32 - 1, NEW kind \in Byte, NEW access \in Byte, NEW type \in Byte,
         NEW dim \in 0..Words16 - 1, NEW params \in Seq(Byte), Len(params) <= 255,
         NEW data \in Seq(Byte), NEW at \in Nat,
         Lies(data, at, ImportBytes(h, kind, access, type, dim, params))
  PROVE  /\ ImportAt(data, at) = [hash |-> h, kind |-> kind, access |-> access,
                                  type |-> type, dimension |-> dim, param_types |-> params]
         /\ AfterImport(data, at) = at + Len(ImportBytes(h, kind, access, type, dim, params))
<1>0. PICK rec : rec = ImportBytes(h, kind, access, type, dim, params)
  OBVIOUS
<1>1. PICK a \in Seq(Byte) : a = Bytes32(h) /\ Len(a) = 4 /\ U32(a, 0) = h
  BY Bytes32Read
<1>2. PICK b \in Seq(Byte) : b = <<kind, access, type>> /\ Len(b) = 3 /\ b[1] = kind /\ b[2] = access /\ b[3] = type
  <2>1. PICK t : t = <<kind, access, type>>
    OBVIOUS
  <2>2. t \in Seq(Byte) /\ Len(t) = 3 /\ t[1] = kind /\ t[2] = access /\ t[3] = type
    BY <2>1, ThreeBytes
  <2>. QED
    BY <2>1, <2>2
<1>3. PICK c \in Seq(Byte) : c = Bytes16(dim) /\ Len(c) = 2 /\ U16(c, 0) = dim
  BY Bytes16Read
<1>4. PICK d \in Seq(Byte) : d = LengthPrefixed(params)
  BY PrefixedShape
<1>5. PICK ab \in Seq(Byte) : ab = a \o b /\ Len(ab) = 7 /\ Lies(ab, 0, a) /\ Lies(ab, 4, b)
  <2>0. a \in Seq(Byte) /\ b \in Seq(Byte) /\ Len(a) = 4 /\ Len(b) = 3 /\ 7 = 4 + 3
    BY <1>1, <1>2
  <2>1. PICK x : x = a \o b
    OBVIOUS
  <2>2. x \in Seq(Byte) /\ Len(x) = Len(a) + Len(b) /\ Lies(x, 0, a) /\ Lies(x, Len(a), b)
    BY <2>0, <2>1, LiesJoin
  <2>3. Len(x) = 7 /\ Lies(x, 4, b)
    BY <2>0, <2>2
  <2>. QED
    BY <2>1, <2>2, <2>3
<1>6. PICK abc \in Seq(Byte) : abc = ab \o c /\ Len(abc) = 9 /\ Lies(abc, 0, ab) /\ Lies(abc, 7, c)
  <2>0. ab \in Seq(Byte) /\ c \in Seq(Byte) /\ Len(ab) = 7 /\ Len(c) = 2 /\ 9 = 7 + 2
    BY <1>3, <1>5
  <2>1. PICK x : x = ab \o c
    OBVIOUS
  <2>2. x \in Seq(Byte) /\ Len(x) = Len(ab) + Len(c) /\ Lies(x, 0, ab) /\ Lies(x, Len(ab), c)
    BY <2>0, <2>1, LiesJoin
  <2>3. Len(x) = 9 /\ Lies(x, 7, c)
    BY <2>0, <2>2
  <2>. QED
    BY <2>1, <2>2, <2>3
<1>7. rec \in Seq(Byte) /\ Lies(rec, 0, abc) /\ Lies(rec, 9, d) /\ Len(rec) = 9 + Len(d)
  <2>1. /\ abc \o d \in Seq(Byte) /\ Lies(abc \o d, 0, abc) /\ Lies(abc \o d, Len(abc), d)
        /\ Len(abc \o d) = Len(abc) + Len(d)
    BY LiesJoin
  <2>2. rec = abc \o d
    BY <1>0, <1>1, <1>2, <1>3, <1>4, <1>5, <1>6 DEF ImportBytes
  <2>. QED
    BY <1>6, <2>1, <2>2
<1>8. Lies(data, at, abc) /\ Lies(data, at + 9, d)
  <2>1. Lies(data, at, rec)
    BY <1>0
  <2>2. Lies(data, at, abc)
    BY <1>7, <2>1, LiesFirst
  <2>3. Lies(data, at + 9, d)
    BY <1>7, <2>1, LiesWithin
  <2>. QED
    BY <2>2, <2>3
<1>9. Lies(data, at, ab) /\ Lies(data, at + 7, c)
  <2>2. Lies(data, at, ab)
    BY <1>6, <1>8, LiesFirst
  <2>3. Lies(data, at + 7, c)
    BY <1>6, <1>8, LiesWithin
  <2>. QED
    BY <2>2, <2>3
<1>10. Lies(data, at, a) /\ Lies(data, at + 4, b)
  <2>2. Lies(data, at, a)
    BY <1>5, <1>9, LiesFirst
  <2>3. Lies(data, at + 4, b)
    BY <1>5, <1>9, LiesWithin
  <2>. QED
    BY <2>2, <2>3
<1>11. U32(data, at) = h
  <2>1. Len(a) >= 4
    BY <1>1
  <2>2. U32(data, at) = U32(a, 0)
    BY <1>10, <2>1, Word32Lies
  <2>. QED
    BY <1>1, <2>2
<1>12. U16(data, at + 7) = dim
  <2>1. Len(c) >= 2
    BY <1>3
  <2>2. U16(data, at + 7) = U16(c, 0)
    BY <1>9, <2>1, Word16Lies
  <2>. QED
    BY <1>3, <2>2
<1>13. At(data, at + 4) = kind /\ At(data, at + 5) = access /\ At(data, at + 6) = type
  <2>1. data[(at + 4) + 1] = b[1] /\ data[(at + 4) + 2] = b[2] /\ data[(at + 4) + 3] = b[3]
    <3>1. 1 \in 1..Len(b) /\ 2 \in 1..Len(b) /\ 3 \in 1..Len(b)
      BY <1>2
    <3>. QED
      BY <1>10, <3>1 DEF Lies
  <2>2. (at + 4) + 2 = (at + 5) + 1 /\ (at + 4) + 3 = (at + 6) + 1
    OBVIOUS
  <2>. QED
    BY <1>2, <2>1, <2>2 DEF At
<1>14. /\ At(data, at + 9) = Len(params) /\ Slice(data, at + 10, At(data, at + 9)) = params
       /\ at + 10 + Len(params) <= Len(data)
  <2>1. PICK x \in Nat : x = at + 9
    OBVIOUS
  <2>2. Lies(data, x, LengthPrefixed(params))
    BY <1>4, <1>8, <2>1
  <2>3. /\ At(data, x) = Len(params) /\ Slice(data, x + 1, At(data, x)) = params
        /\ x + 1 + Len(params) <= Len(data)
    BY <2>2, PrefixedRead
  <2>4. x + 1 = at + 10
    BY <2>1
  <2>. QED
    BY <2>1, <2>3, <2>4
<1>15. Len(d) = 1 + Len(params)
  BY <1>4, PrefixedShape
<1>16. AfterImport(data, at) = at + Len(rec)
  <2>1. PICK n \in Nat, l \in Nat : n = Len(params) /\ l = Len(data)
    BY LenProperties
  <2>2. at + 10 + n <= l /\ Len(rec) = 9 + (1 + n) /\ At(data, at + 9) = n
    BY <1>7, <1>14, <1>15, <2>1
  <2>3. at + 10 <= l /\ at + 10 + n = at + (9 + (1 + n))
    BY <2>2
  <2>. QED
    BY <2>1, <2>2, <2>3 DEF AfterImport
<1>17. ImportAt(data, at) = [hash |-> h, kind |-> kind, access |-> access,
                             type |-> type, dimension |-> dim, param_types |-> params]
  BY <1>11, <1>12, <1>13, <1>14 DEF ImportAt
<1>. QED
  BY <1>0, <1>16, <1>17

(* The shape of its bytes. *)
LEMMA ImportShape ==
  ASSUME NEW h \in 0..Words32 - 1, NEW kind \in Byte, NEW access \in Byte, NEW type \in Byte,
         NEW dim \in 0..Words16 - 1, NEW params \in Seq(Byte), Len(params) <= 255,
         NEW rec, rec = ImportBytes(h, kind, access, type, dim, params)
  PROVE  rec \in Seq(Byte) /\ Len(rec) >= 1
<1>1. PICK a \in Seq(Byte) : a = Bytes32(h) /\ Len(a) = 4
  BY Bytes32Read
<1>2. PICK b \in Seq(Byte) : b = <<kind, access, type>>
  BY ThreeBytes
<1>3. PICK c \in Seq(Byte) : c = Bytes16(dim)
  BY Bytes16Read
<1>4. PICK d \in Seq(Byte) : d = LengthPrefixed(params)
  BY PrefixedShape
<1>5. PICK ab \in Seq(Byte) : ab = a \o b /\ Len(ab) = Len(a) + Len(b)
  BY LiesJoin
<1>6. PICK abc \in Seq(Byte) : abc = ab \o c /\ Len(abc) = Len(ab) + Len(c)
  BY LiesJoin
<1>7. rec = abc \o d
  BY <1>1, <1>2, <1>3, <1>4, <1>5, <1>6 DEF ImportBytes
<1>8. rec \in Seq(Byte) /\ Len(rec) = Len(abc) + Len(d)
  BY <1>7, LiesJoin
<1>9. PICK p \in Nat, q \in Nat, r \in Nat : p = Len(b) /\ q = Len(c) /\ r = Len(d)
  BY LenProperties
<1>10. ((4 + p) + q) + r >= 1
  OBVIOUS
<1>. QED
  BY <1>1, <1>5, <1>6, <1>8, <1>9, <1>10

(* An import that fits the format. *)
ImportFits(imp) ==
  /\ imp \in SourceImport
  /\ Len(imp.name) <= 255 /\ Len(imp.param_types) <= 255
  /\ NameHash(imp.name) \in 0..Words32 - 1
  /\ ImportDecodes(imp)

LEMMA ImportFitting ==
  ASSUME NEW imp, ImportFits(imp)
  PROVE  /\ NameHash(imp.name) \in 0..Words32 - 1 /\ imp.kind \in Byte /\ imp.access \in Byte
         /\ imp.type \in Byte /\ imp.dimension \in 0..Words16 - 1
         /\ imp.param_types \in Seq(Byte) /\ Len(imp.param_types) <= 255
         /\ imp.name \in Seq(Byte) /\ Len(imp.name) <= 255
         /\ ImportDecodes(ImportFieldsOf(imp))
<1>1. /\ imp.name \in Text /\ imp.kind \in {Entity, HostFunction} /\ imp.access \in Access
      /\ imp.type \in ValType /\ imp.dimension \in 0..Words16 - 1
      /\ imp.param_types \in Seq(ValueType)
  BY DEF ImportFits, SourceImport
<1>2. imp.kind \in Byte
  BY <1>1 DEF Entity, HostFunction, Byte
<1>3. imp.access \in Byte
  BY <1>1 DEF Access, Byte
<1>4. ValType \subseteq Byte /\ ValueType \subseteq Byte
  BY DEF ValType, ValueType, VOID, BOOL, I32, I64, F32, Byte
<1>5. imp.type \in Byte /\ imp.param_types \in Seq(Byte)
  BY <1>1, <1>4, SeqMonotonic
<1>6. imp.name \in Seq(Byte)
  <2>1. 0..127 \subseteq Byte
    BY DEF Byte
  <2>. QED
    BY <1>1, <2>1, SeqMonotonic DEF Text
<1>7. ImportDecodes(ImportFieldsOf(imp))
  BY DEF ImportFits, ImportDecodes, ImportFieldsOf
<1>. QED
  BY <1>1, <1>2, <1>3, <1>5, <1>6, <1>7 DEF ImportFits

LEMMA ImportsKept ==
  ASSUME NEW imports \in Seq(SourceImport), Len(imports) <= 255,
         \A i \in DOMAIN imports : ImportFits(imports[i]),
         \A i, j \in DOMAIN imports :
           NameHash(imports[i].name) = NameHash(imports[j].name) => i = j,
         NEW data, data = EncodeImports(imports)
  PROVE  /\ data \in Seq(Byte) /\ data # <<>> /\ At(data, 0) = Len(imports)
         /\ ImportsDecode(data)
         /\ DecodeImports(data) = [i \in 1..Len(imports) |-> ImportFieldsOf(imports[i])]
<1>1. PICK n \in Nat : n = Len(imports) /\ DOMAIN imports = 1..n /\ n <= 255
  BY LenProperties
<1>2. PICK entries : entries = [i \in 1..n |-> ImportRecord(imports[i])]
  OBVIOUS
<1>3. ASSUME NEW i \in 1..n
      PROVE  ImportFits(imports[i])
  BY <1>1
<1>4. ASSUME NEW i \in 1..n PROVE entries[i] \in Seq(Byte) /\ Len(entries[i]) >= 1
  <2>1. PICK imp : imp = imports[i]
    OBVIOUS
  <2>2. ImportFits(imp)
    BY <1>3, <2>1
  <2>3. /\ NameHash(imp.name) \in 0..Words32 - 1 /\ imp.kind \in Byte /\ imp.access \in Byte
        /\ imp.type \in Byte /\ imp.dimension \in 0..Words16 - 1
        /\ imp.param_types \in Seq(Byte) /\ Len(imp.param_types) <= 255
    BY <2>2, ImportFitting
  <2>4. PICK rec : rec = ImportRecord(imp)
    OBVIOUS
  <2>5. rec = ImportBytes(NameHash(imp.name), imp.kind, imp.access, imp.type,
                          imp.dimension, imp.param_types)
    BY <2>4 DEF ImportRecord
  <2>6. rec \in Seq(Byte) /\ Len(rec) >= 1
    BY <2>3, <2>5, ImportShape
  <2>. QED
    BY <1>2, <2>1, <2>4, <2>6
<1>5. entries \in [1..n -> Seq(Byte)]
  BY <1>2, <1>4
<1>6. entries \in Seq(Seq(Byte)) /\ Len(entries) = n /\ EncodeTable(entries) \in Seq(Byte)
  BY <1>1, <1>5, TableHeld
<1>7. data = EncodeTable(entries)
  BY <1>1, <1>2 DEF EncodeImports, ImportRecord, ImportBytes
<1>8. data \in Seq(Byte) /\ Lies(data, 0, EncodeTable(entries)) /\ Len(entries) <= 255
  BY <1>1, <1>6, <1>7, LiesItself
<1>9. PICK E \in [0..n -> Nat] : E = Ends(entries)
  BY <1>6, <1>8, TableLaid
<1>10. data # <<>> /\ At(data, 0) = n
  BY <1>6, <1>7, <1>8, <1>9, TableLaid
<1>11. ASSUME NEW k \in 1..n
       PROVE  /\ E[k - 1] \in 1..Len(data)
              /\ ImportAt(data, E[k - 1]) = ImportFieldsOf(imports[k])
              /\ AfterImport(data, E[k - 1]) = E[k]
  <2>1. entries[k] = ImportRecord(imports[k]) /\ k \in 1..Len(entries)
        /\ Len(entries[k]) >= 1
    BY <1>2, <1>4, <1>6
  <2>2. /\ E[k - 1] \in 1..Len(data) /\ E[k - 1] \in Nat
        /\ Lies(data, E[k - 1], entries[k]) /\ E[k] = E[k - 1] + Len(entries[k])
    BY <1>6, <1>8, <1>9, <2>1, EntryPlaced
  <2>3. PICK at \in Nat : at = E[k - 1]
    BY <2>2
  <2>4. PICK imp : imp = imports[k]
    OBVIOUS
  <2>5. /\ NameHash(imp.name) \in 0..Words32 - 1 /\ imp.kind \in Byte /\ imp.access \in Byte
        /\ imp.type \in Byte /\ imp.dimension \in 0..Words16 - 1
        /\ imp.param_types \in Seq(Byte) /\ Len(imp.param_types) <= 255
    <3>1. ImportFits(imp)
      BY <1>3, <2>4
    <3>. QED
      BY <3>1, ImportFitting
  <2>8. at \in Nat /\ Lies(data, at, ImportRecord(imp))
    BY <2>1, <2>2, <2>3, <2>4
  <2>9. ImportAt(data, at) = ImportFieldsOf(imp) /\ AfterImport(data, at) = at + Len(ImportRecord(imp))
    <3>1. PICK h \in 0..Words32 - 1, kind \in Byte, access \in Byte, type \in Byte,
               dim \in 0..Words16 - 1, params \in Seq(Byte) :
            /\ h = NameHash(imp.name) /\ kind = imp.kind /\ access = imp.access
            /\ type = imp.type /\ dim = imp.dimension /\ params = imp.param_types
      BY <2>5
    <3>2. ImportRecord(imp) = ImportBytes(h, kind, access, type, dim, params)
      BY <3>1 DEF ImportRecord
    <3>3. Len(params) <= 255 /\ Lies(data, at, ImportBytes(h, kind, access, type, dim, params))
      BY <2>5, <2>8, <3>1, <3>2
    <3>4. /\ ImportAt(data, at) = [hash |-> h, kind |-> kind, access |-> access,
                                   type |-> type, dimension |-> dim, param_types |-> params]
          /\ AfterImport(data, at) = at + Len(ImportBytes(h, kind, access, type, dim, params))
      BY <1>8, <3>3, ImportPacked
    <3>. QED
      BY <3>1, <3>2, <3>4 DEF ImportFieldsOf
  <2>. QED
    BY <2>1, <2>2, <2>3, <2>4, <2>9
<1>12. PICK following : following = [at \in 1..Len(data) |-> AfterImport(data, at)]
  OBVIOUS
<1>13. following \in [1..Len(data) -> Nat \cup {Stuck}]
  <2>1. \A at \in 1..Len(data) : AfterImport(data, at) \in Nat \cup {Stuck}
    BY <1>8, AfterRange
  <2>. QED
    BY <1>12, <2>1
<1>14. \A k \in 1..Len(entries) :
         Len(entries[k]) >= 1 /\ following[Ends(entries)[k - 1]] = Ends(entries)[k]
  BY <1>4, <1>6, <1>9, <1>11, <1>12
<1>15. SteppedThrough(data, entries, following)
  BY <1>6, <1>8, <1>13, <1>14, TableStepped
<1>16. PICK C : C = ImportCursors(data)
  OBVIOUS
<1>17. (\A k \in 1..n : C[k] = E[k - 1]) /\ Last(C) = E[n]
  <2>1. C = Cursors(data, following)
    BY <1>12, <1>16 DEF ImportCursors
  <2>2. \A k \in 1..n : k \in 1..Len(entries) + 1
    BY <1>6
  <2>. QED
    BY <1>6, <1>9, <1>15, <2>1, <2>2 DEF SteppedThrough
<1>18. Last(C) # Stuck
  <2>1. E[n] \in Nat
    OBVIOUS
  <2>. QED
    BY <1>17, <2>1 DEF Stuck
<1>19. DecodeImports(data) = [i \in 1..n |-> ImportFieldsOf(imports[i])]
  <2>1. DecodeImports(data) = [i \in 1..n |-> ImportAt(data, C[i])]
    BY <1>10, <1>16 DEF DecodeImports
  <2>2. \A i \in 1..n : ImportAt(data, C[i]) = ImportFieldsOf(imports[i])
    BY <1>11, <1>17
  <2>. QED
    BY <2>1, <2>2
<1>20. PICK I : I = DecodeImports(data)
  OBVIOUS
<1>21. DOMAIN I = 1..n /\ \A i \in 1..n : I[i] = ImportFieldsOf(imports[i])
  BY <1>19, <1>20
<1>22. \A i \in DOMAIN I : ImportDecodes(I[i])
  BY <1>3, <1>21, ImportFitting
<1>23. PICK hashes : hashes = [i \in DOMAIN I |-> I[i].hash]
  OBVIOUS
<1>24. IsInjective(hashes)
  <2>1. \A i \in 1..n : hashes[i] = NameHash(imports[i].name)
    BY <1>21, <1>23 DEF ImportFieldsOf
  <2>2. DOMAIN hashes = 1..n
    BY <1>21, <1>23
  <2>3. \A i, j \in 1..n : NameHash(imports[i].name) = NameHash(imports[j].name) => i = j
    BY <1>1
  <2>4. \A i, j \in DOMAIN hashes : hashes[i] = hashes[j] => i = j
    BY <2>1, <2>2, <2>3
  <2>. QED
    BY <2>4 DEF IsInjective
<1>25. ImportsDecode(data)
  BY <1>10, <1>16, <1>18, <1>20, <1>22, <1>23, <1>24 DEF ImportsDecode
<1>. QED
  BY <1>1, <1>8, <1>10, <1>19, <1>25

-----------------------------------------------------------------------------
(* The functions. *)
FunctionBytes(name, code, flags, ret, stack, depth, cap, comp, params, locals) ==
  Bytes16(name) \o Bytes32(code)
    \o <<flags, ret, stack, depth, cap, comp, params, Len(locals)>> \o locals

FunctionView(name, code, flags, ret, stack, depth, cap, comp, params, locals) ==
  [name_offset |-> name, code_offset |-> code, flags |-> flags, return_type |-> ret,
   max_stack |-> stack, max_call_depth |-> depth, recursion_cap |-> cap,
   component |-> comp, param_count |-> params, local_types |-> locals]

(* Those bytes, read. *)
FunctionReads(rec, view) ==
  /\ rec \in Seq(Byte) /\ Len(rec) >= 14
  /\ \A data \in Seq(Byte), at \in Nat : Lies(data, at, rec) =>
       FunctionAt(data, at) = view /\ AfterFunction(data, at) = at + Len(rec)

LEMMA EightBytes ==
  ASSUME NEW a \in Byte, NEW b \in Byte, NEW c \in Byte, NEW d \in Byte,
         NEW e \in Byte, NEW f \in Byte, NEW g \in Byte, NEW h \in Byte,
         NEW all, all = <<a, b, c, d, e, f, g, h>>
  PROVE  /\ all \in Seq(Byte) /\ Len(all) = 8
         /\ all[1] = a /\ all[2] = b /\ all[3] = c /\ all[4] = d
         /\ all[5] = e /\ all[6] = f /\ all[7] = g /\ all[8] = h
  OBVIOUS

LEMMA FunctionPacked ==
  ASSUME NEW name \in 0..Words16 - 1, NEW code \in 0..Words32 - 1, NEW flags \in Byte,
         NEW ret \in Byte, NEW stack \in Byte, NEW depth \in Byte, NEW cap \in Byte,
         NEW comp \in Byte, NEW params \in Byte, NEW locals \in Seq(Byte),
         Len(locals) <= 255,
         NEW rec, rec = FunctionBytes(name, code, flags, ret, stack, depth, cap, comp, params, locals)
  PROVE  FunctionReads(rec, FunctionView(name, code, flags, ret, stack, depth, cap, comp, params, locals))
<1>0. PICK view : view = FunctionView(name, code, flags, ret, stack, depth, cap, comp, params, locals)
  OBVIOUS
<1>1. PICK a \in Seq(Byte) : a = Bytes16(name) /\ Len(a) = 2 /\ U16(a, 0) = name
  BY Bytes16Read
<1>2. PICK b \in Seq(Byte) : b = Bytes32(code) /\ Len(b) = 4 /\ U32(b, 0) = code
  BY Bytes32Read
<1>3. PICK m \in Byte : m = Len(locals)
  <2>1. PICK z \in Nat : z = Len(locals)
    BY LenProperties
  <2>2. z <= 255
    BY <2>1
  <2>3. z \in Byte
    BY <2>2 DEF Byte
  <2>. QED
    BY <2>1, <2>3
<1>4. PICK c : c = <<flags, ret, stack, depth, cap, comp, params, m>>
  OBVIOUS
<1>5. /\ c \in Seq(Byte) /\ Len(c) = 8
      /\ c[1] = flags /\ c[2] = ret /\ c[3] = stack /\ c[4] = depth
      /\ c[5] = cap /\ c[6] = comp /\ c[7] = params /\ c[8] = m
  BY <1>3, <1>4, EightBytes
<1>6. PICK ab \in Seq(Byte) : ab = a \o b /\ Len(ab) = 6 /\ Lies(ab, 0, a) /\ Lies(ab, 2, b)
  <2>0. a \in Seq(Byte) /\ b \in Seq(Byte) /\ Len(a) = 2 /\ Len(b) = 4
    BY <1>1, <1>2
  <2>1. PICK x : x = a \o b
    OBVIOUS
  <2>2. x \in Seq(Byte) /\ Len(x) = Len(a) + Len(b) /\ Lies(x, 0, a) /\ Lies(x, Len(a), b)
    BY <2>0, <2>1, LiesJoin
  <2>3. Len(x) = 6 /\ Lies(x, 2, b)
    BY <2>0, <2>2
  <2>. QED
    BY <2>1, <2>2, <2>3
<1>7. PICK abc \in Seq(Byte) : abc = ab \o c /\ Len(abc) = 14 /\ Lies(abc, 0, ab) /\ Lies(abc, 6, c)
  <2>0. ab \in Seq(Byte) /\ c \in Seq(Byte) /\ Len(ab) = 6 /\ Len(c) = 8
    BY <1>5, <1>6
  <2>1. PICK x : x = ab \o c
    OBVIOUS
  <2>2. x \in Seq(Byte) /\ Len(x) = Len(ab) + Len(c) /\ Lies(x, 0, ab) /\ Lies(x, Len(ab), c)
    BY <2>0, <2>1, LiesJoin
  <2>3. Len(x) = 14 /\ Lies(x, 6, c)
    BY <2>0, <2>2
  <2>. QED
    BY <2>1, <2>2, <2>3
<1>8. rec \in Seq(Byte) /\ Lies(rec, 0, abc) /\ Lies(rec, 14, locals) /\ Len(rec) = 14 + Len(locals)
  <2>0. abc \in Seq(Byte) /\ locals \in Seq(Byte) /\ Len(abc) = 14
    BY <1>7
  <2>1. PICK x : x = abc \o locals
    OBVIOUS
  <2>2. x \in Seq(Byte) /\ Len(x) = Len(abc) + Len(locals) /\ Lies(x, 0, abc) /\ Lies(x, Len(abc), locals)
    BY <2>0, <2>1, LiesJoin
  <2>3. rec = x
    BY <1>1, <1>2, <1>3, <1>4, <1>6, <1>7, <2>1 DEF FunctionBytes
  <2>. QED
    BY <2>0, <2>2, <2>3
<1>9. ASSUME NEW data \in Seq(Byte), NEW at \in Nat, Lies(data, at, rec)
      PROVE  /\ FunctionAt(data, at) = view
             /\ AfterFunction(data, at) = at + Len(rec)
  <2>1. Lies(data, at, abc)
    BY <1>7, <1>8, <1>9, LiesFirst
  <2>2. Lies(data, at + 14, locals)
    BY <1>8, <1>9, LiesWithin
  <2>3. Lies(data, at, ab)
    BY <1>6, <1>7, <2>1, LiesFirst
  <2>4. Lies(data, at + 6, c)
    BY <1>5, <1>7, <2>1, LiesWithin
  <2>5. Lies(data, at, a)
    BY <1>1, <1>6, <2>3, LiesFirst
  <2>6. Lies(data, at + 2, b)
    BY <1>2, <1>6, <2>3, LiesWithin
  <2>7. U16(data, at) = name
    <3>1. Len(a) >= 2
      BY <1>1
    <3>2. U16(data, at) = U16(a, 0)
      BY <1>1, <2>5, <3>1, Word16Lies
    <3>. QED
      BY <1>1, <3>2
  <2>8. U32(data, at + 2) = code
    <3>1. Len(b) >= 4
      BY <1>2
    <3>2. U32(data, at + 2) = U32(b, 0)
      BY <1>2, <2>6, <3>1, Word32Lies
    <3>. QED
      BY <1>2, <3>2
  <2>9. \A k \in 1..8 : data[(at + 6) + k] = c[k]
    BY <1>5, <2>4 DEF Lies
  <2>10. /\ At(data, at + 6) = flags /\ At(data, at + 7) = ret /\ At(data, at + 8) = stack
         /\ At(data, at + 9) = depth /\ At(data, at + 10) = cap /\ At(data, at + 11) = comp
         /\ At(data, at + 12) = params /\ At(data, at + 13) = m
    <3>1. /\ 1 \in 1..8 /\ 2 \in 1..8 /\ 3 \in 1..8 /\ 4 \in 1..8
          /\ 5 \in 1..8 /\ 6 \in 1..8 /\ 7 \in 1..8 /\ 8 \in 1..8
      OBVIOUS
    <3>2. /\ (at + 6) + 1 = (at + 6) + 1 /\ (at + 6) + 2 = (at + 7) + 1
          /\ (at + 6) + 3 = (at + 8) + 1 /\ (at + 6) + 4 = (at + 9) + 1
          /\ (at + 6) + 5 = (at + 10) + 1 /\ (at + 6) + 6 = (at + 11) + 1
          /\ (at + 6) + 7 = (at + 12) + 1 /\ (at + 6) + 8 = (at + 13) + 1
      OBVIOUS
    <3>3. /\ data[(at + 6) + 1] = flags /\ data[(at + 7) + 1] = ret
          /\ data[(at + 8) + 1] = stack /\ data[(at + 9) + 1] = depth
          /\ data[(at + 10) + 1] = cap /\ data[(at + 11) + 1] = comp
          /\ data[(at + 12) + 1] = params /\ data[(at + 13) + 1] = m
      BY <1>5, <2>9, <3>1, <3>2
    <3>. QED
      BY <3>3 DEF At
  <2>11. Slice(data, at + 14, Len(locals)) = locals
    BY <2>2, LiesRead
  <2>12. FunctionAt(data, at) = view
    BY <1>0, <1>3, <2>7, <2>8, <2>10, <2>11 DEF FunctionAt, FunctionView
  <2>13. AfterFunction(data, at) = at + (14 + m)
    <3>1. PICK l \in Nat, z \in Nat : l = Len(data) /\ z = m
      <4>1. Len(data) \in Nat /\ m \in Nat
        BY <1>3, LenProperties
      <4>. QED
        BY <4>1
    <3>2. (at + 14) + z <= l
      BY <1>3, <2>2, <3>1 DEF Lies
    <3>3. at + 14 <= l /\ at + 14 + z <= l /\ at + 14 + z = at + (14 + z)
      BY <3>2
    <3>. QED
      BY <2>10, <3>1, <3>3 DEF AfterFunction
  <2>. QED
    BY <1>3, <1>8, <2>12, <2>13
<1>10. Len(rec) >= 14
  <2>1. Len(locals) \in Nat
    BY LenProperties
  <2>. QED
    BY <1>8, <2>1
<1>11. \A data \in Seq(Byte), at \in Nat : Lies(data, at, rec) =>
         FunctionAt(data, at) = view /\ AfterFunction(data, at) = at + Len(rec)
  BY <1>9
<1>. QED
  BY <1>0, <1>8, <1>10, <1>11 DEF FunctionReads

-----------------------------------------------------------------------------
(* The string area: names that all differ, each once. *)
NameKept(area, at, name) ==
  /\ at \in 0..Words16 - 1 /\ NameDecodes(area, at) /\ NameAtOffset(area, at) = name

LEMMA NameReadBack ==
  ASSUME NEW name \in Text, Len(name) <= 255, NEW area \in Seq(Byte),
         NEW at \in 0..Words16 - 1, Lies(area, at, LengthPrefixed(name))
  PROVE  NameKept(area, at, name)
<1>1. name \in Seq(Byte)
  <2>1. 0..127 \subseteq Byte
    BY DEF Byte
  <2>. QED
    BY <2>1, SeqMonotonic DEF Text
<1>2. PICK n \in Nat, l \in Nat : n = Len(name) /\ l = Len(area)
  BY LenProperties
<1>3. PICK a \in Nat : a = at
  <2>1. \A m : at \in 0..m => at \in Nat
    OBVIOUS
  <2>. QED
    BY <2>1
<1>4. Lies(area, a, LengthPrefixed(name))
  BY <1>3
<1>5. At(area, a) = n /\ Slice(area, a + 1, n) = name /\ a + 1 + n <= l
  BY <1>1, <1>2, <1>3, <1>4, PrefixedRead
<1>6. Lies(area, a + 1, name)
  <2>1. LengthPrefixed(name) \in Seq(Byte) /\ Lies(LengthPrefixed(name), 1, name)
    BY <1>1, PrefixedShape
  <2>. QED
    BY <1>1, <1>4, <2>1, LiesWithin
<1>7. ASSUME NEW k \in 1..n PROVE At(area, a + k) < 128
  <2>1. area[(a + 1) + k] = name[k]
    BY <1>2, <1>6 DEF Lies
  <2>2. (a + 1) + k = (a + k) + 1
    BY <1>3
  <2>3. name[k] \in 0..127
    BY <1>2, ElementOfSeq DEF Text
  <2>4. \A x \in 0..127 : x < 128
    OBVIOUS
  <2>5. At(area, a + k) = name[k]
    BY <2>1, <2>2 DEF At
  <2>6. name[k] < 128
    BY <2>3, <2>4, Zenon
  <2>. QED
    BY <2>5, <2>6
<1>8. a < l /\ a + 1 + n <= l
  BY <1>2, <1>3, <1>5
<1>9. NameDecodes(area, a)
  BY <1>2, <1>5, <1>7, <1>8 DEF NameDecodes
<1>10. NameAtOffset(area, a) = name
  BY <1>5 DEF NameAtOffset
<1>. QED
  BY <1>3, <1>9, <1>10 DEF NameKept

LEMMA WithinWord ==
  ASSUME NEW x, x \in Nat, x <= 65024
  PROVE  x \in 0..Words16 - 1
<1>1. PICK w : w = Words16
  OBVIOUS
<1>2. w \in Int /\ 65024 <= w - 1
  BY <1>1 DEF Words16
<1>3. x \in 0..w - 1
  BY <1>2
<1>. QED
  BY <1>1, <1>3

LEMMA AreaKept ==
  ASSUME NEW n \in Nat, n <= 255, NEW names \in [1..n -> Text],
         \A i \in 1..n : Len(names[i]) <= 255,
         \A i, j \in 1..n : names[i] = names[j] => i = j
  PROVE  /\ Flattened(StringParts(names)) \in Seq(Byte)
         /\ \A i \in 1..n :
              NameKept(Flattened(StringParts(names)), NameOffset(names, i), names[i])
<1>1. ASSUME NEW i \in 1..n PROVE FirstNamed(names, i) = i
  <2>1. {j \in 1..i : names[j] = names[i]} = {i}
    OBVIOUS
  <2>2. i \in Nat
    OBVIOUS
  <2>3. PICK S : S = {j \in 1..i : names[j] = names[i]}
    OBVIOUS
  <2>5. S \in SUBSET Nat /\ S # {} /\ S = {i}
    BY <2>1, <2>2, <2>3
  <2>6. Min(S) \in S
    BY <2>5, MinOfNaturals
  <2>4. Min(S) = i
    BY <2>5, <2>6
  <2>. QED
    BY <2>3, <2>4 DEF FirstNamed
<1>2. PICK parts : parts = [i \in 1..n |-> LengthPrefixed(names[i])]
  OBVIOUS
<1>3. StringParts(names) = parts
  BY <1>1, <1>2 DEF StringParts
<1>4. ASSUME NEW i \in 1..n
      PROVE  parts[i] \in Seq(Byte) /\ Len(parts[i]) \in 1..256
  <2>1. PICK t : t = names[i]
    OBVIOUS
  <2>2. t \in Seq(Byte) /\ Len(t) <= 255
    <3>1. 0..127 \subseteq Byte
      BY DEF Byte
    <3>2. t \in Text
      BY <2>1
    <3>. QED
      BY <2>1, <3>1, <3>2, SeqMonotonic DEF Text
  <2>3. LengthPrefixed(t) \in Seq(Byte) /\ Len(LengthPrefixed(t)) = 1 + Len(t)
    BY <2>2, PrefixedShape
  <2>4. PICK z \in Nat : z = Len(t)
    BY <2>2, LenProperties
  <2>6. z \in Nat /\ z <= 255
    BY <2>2, <2>4
  <2>5. 1 + z \in 1..256
    BY <2>6
  <2>. QED
    BY <1>2, <2>1, <2>3, <2>4, <2>5
<1>5. parts \in Seq(Seq(Byte)) /\ Len(parts) = n
  <2>1. parts \in [1..n -> Seq(Byte)]
    BY <1>2, <1>4
  <2>. QED
    BY <2>1, Elements
<1>6. PICK area : area = Flattened(parts)
  OBVIOUS
<1>7. PICK J : J = Joined(parts)
  OBVIOUS
<1>8. /\ area \in Seq(Byte) /\ J[0] = <<>> /\ \A k \in 0..n : J[k] \in Seq(Byte)
      /\ \A k \in 1..n : Len(J[k]) = Len(J[k - 1]) + Len(parts[k]) /\ Lies(area, Len(J[k - 1]), parts[k])
  BY <1>5, <1>6, <1>7, JoinedLies
<1>9. ASSUME NEW k \in 0..n PROVE Len(J[k]) \in Nat /\ Len(J[k]) <= 256 * k
  <2>. DEFINE Bad == {j \in 0..n : ~(Len(J[j]) <= 256 * j)}
  <2>0. \A j \in 0..n : Len(J[j]) \in Nat
    BY <1>8, LenProperties
  <2>1. SUFFICES ASSUME Bad # {} PROVE FALSE
    BY <1>9, <2>0
  <2>2. Bad \subseteq Nat
    OBVIOUS
  <2>3. PICK j \in Bad : \A i \in Bad : j <= i
    <3>. HIDE DEF Bad
    <3>. QED
      BY <2>1, <2>2, LeastNatural
  <2>4. j # 0
    <3>1. Len(J[0]) = 0
      BY <1>8
    <3>. QED
      BY <3>1
  <2>5. j \in 1..n /\ j - 1 \in 0..n /\ j - 1 \notin Bad
    BY <2>3, <2>4
  <2>6. Len(J[j - 1]) <= 256 * (j - 1)
    BY <2>5
  <2>7. PICK a \in Nat, b \in Nat, c \in 1..256 : a = Len(J[j - 1]) /\ b = Len(J[j]) /\ c = Len(parts[j])
    BY <1>4, <2>0, <2>5
  <2>8. b = a + c /\ a <= 256 * (j - 1)
    BY <1>8, <2>5, <2>6, <2>7
  <2>9. b <= 256 * j
    BY <2>5, <2>8
  <2>. QED
    BY <2>3, <2>7, <2>9
<1>10. ASSUME NEW i \in 1..n PROVE NameKept(area, NameOffset(names, i), names[i])
  <2>1. i - 1 \in 0..n /\ i \in 1..n
    OBVIOUS
  <2>2. PICK at \in Nat : at = Len(J[i - 1])
    BY <1>9, <2>1
  <2>3. NameOffset(names, i) = at
    BY <1>1, <1>3, <1>7, <2>2 DEF NameOffset
  <2>4. PICK d \in 0..254 : d = i - 1
    OBVIOUS
  <2>9. at \in Nat /\ d \in 0..254 /\ at <= 256 * d
    BY <1>9, <2>1, <2>2, <2>4
  <2>10. at <= 65024
    BY <2>9
  <2>5. at \in 0..Words16 - 1
    BY <2>9, <2>10, WithinWord
  <2>6. Lies(area, at, LengthPrefixed(names[i]))
    BY <1>2, <1>8, <2>2
  <2>7. names[i] \in Text /\ Len(names[i]) <= 255
    OBVIOUS
  <2>8. NameKept(area, at, names[i])
    BY <1>8, <2>5, <2>6, <2>7, NameReadBack
  <2>. QED
    BY <2>3, <2>8
<1>. QED
  BY <1>3, <1>6, <1>8, <1>10

(* A function that fits the format. *)
FunctionFits(fn) ==
  /\ fn \in SourceFunction
  /\ Len(fn.name) <= 255 /\ Len(fn.local_types) <= 255
  /\ fn.param_count <= Len(fn.local_types)
  /\ fn.invocable => fn.param_count = 0

FlagsAs(fn) == IF fn.invocable THEN 1 ELSE 0

FunctionRecord(fn, name) ==
  FunctionBytes(name, fn.code_offset, FlagsAs(fn), fn.return_type, fn.max_stack,
                fn.max_call_depth, fn.recursion_cap, fn.component, fn.param_count, fn.local_types)

FunctionViewed(fn, name) ==
  FunctionView(name, fn.code_offset, FlagsAs(fn), fn.return_type, fn.max_stack,
               fn.max_call_depth, fn.recursion_cap, fn.component, fn.param_count, fn.local_types)

LEMMA FunctionFitting ==
  ASSUME NEW fn, FunctionFits(fn), NEW name \in 0..Words16 - 1
  PROVE  /\ FunctionReads(FunctionRecord(fn, name), FunctionViewed(fn, name))
         /\ FunctionDecodes(FunctionViewed(fn, name))
<1>1. /\ fn.code_offset \in 0..Words32 - 1 /\ fn.invocable \in BOOLEAN
      /\ fn.return_type \in ValType /\ fn.max_stack \in Byte /\ fn.max_call_depth \in Byte
      /\ fn.recursion_cap \in Byte /\ fn.component \in Byte /\ fn.param_count \in Byte
      /\ fn.local_types \in Seq(ValueType) /\ Len(fn.local_types) <= 255
      /\ fn.param_count <= Len(fn.local_types) /\ (fn.invocable => fn.param_count = 0)
  BY DEF FunctionFits, SourceFunction
<1>2. ValType \subseteq Byte /\ ValueType \subseteq Byte
  BY DEF ValType, ValueType, VOID, BOOL, I32, I64, F32, Byte
<1>3. FlagsAs(fn) \in Byte /\ FlagsAs(fn) \in {0, 1}
  <2>1. 0 \in Byte /\ 1 \in Byte
    BY DEF Byte
  <2>. QED
    BY <2>1 DEF FlagsAs
<1>4. fn.return_type \in Byte /\ fn.local_types \in Seq(Byte)
  BY <1>1, <1>2, SeqMonotonic
<1>5. FunctionReads(FunctionRecord(fn, name), FunctionViewed(fn, name))
  BY <1>1, <1>3, <1>4, FunctionPacked DEF FunctionRecord, FunctionViewed
<1>6. Invocable(FlagsAs(fn)) <=> fn.invocable
  BY <1>1 DEF Invocable, FlagsAs
<1>7. Range(fn.local_types) \subseteq ValueType
  BY <1>1, LenProperties, ElementOfSeq DEF Range
<1>8. FunctionDecodes(FunctionViewed(fn, name))
  BY <1>1, <1>3, <1>6, <1>7 DEF FunctionDecodes, FunctionViewed, FunctionView
<1>. QED
  BY <1>5, <1>8

(* A record with its name is the function again. *)
LEMMA FunctionAgain ==
  ASSUME NEW fn, FunctionFits(fn), NEW name, NEW view, view = FunctionViewed(fn, name)
  PROVE  [name |-> fn.name, code_offset |-> view.code_offset,
          invocable |-> Invocable(view.flags), return_type |-> view.return_type,
          max_stack |-> view.max_stack, max_call_depth |-> view.max_call_depth,
          recursion_cap |-> view.recursion_cap, component |-> view.component,
          param_count |-> view.param_count, local_types |-> view.local_types] = fn
<1>1. fn \in SourceFunction
  BY DEF FunctionFits
<1>2. fn.invocable \in BOOLEAN
  BY <1>1 DEF SourceFunction
<1>3. Invocable(view.flags) = fn.invocable
  <2>1. view.flags = FlagsAs(fn)
    BY DEF FunctionViewed, FunctionView
  <2>2. PICK f : f = view.flags
    OBVIOUS
  <2>3. f = IF fn.invocable THEN 1 ELSE 0
    BY <2>1, <2>2 DEF FlagsAs
  <2>4. (f % 2 = 1) <=> fn.invocable
    BY <2>3
  <2>5. (f % 2 = 1) = fn.invocable
    BY <1>2, <2>4
  <2>. QED
    BY <2>2, <2>5 DEF Invocable
<1>4. /\ view.code_offset = fn.code_offset /\ view.return_type = fn.return_type
      /\ view.max_stack = fn.max_stack /\ view.max_call_depth = fn.max_call_depth
      /\ view.recursion_cap = fn.recursion_cap /\ view.component = fn.component
      /\ view.param_count = fn.param_count /\ view.local_types = fn.local_types
  BY DEF FunctionViewed, FunctionView
<1>5. fn = [name |-> fn.name, code_offset |-> fn.code_offset, invocable |-> fn.invocable,
            return_type |-> fn.return_type, max_stack |-> fn.max_stack,
            max_call_depth |-> fn.max_call_depth, recursion_cap |-> fn.recursion_cap,
            component |-> fn.component, param_count |-> fn.param_count,
            local_types |-> fn.local_types]
  BY <1>1 DEF SourceFunction
<1>. QED
  BY <1>3, <1>4, <1>5

LEMMA FunctionsKept ==
  ASSUME NEW functions \in Seq(SourceFunction), Len(functions) <= 255,
         \A i \in DOMAIN functions : FunctionFits(functions[i]),
         \A i, j \in DOMAIN functions : functions[i].name = functions[j].name => i = j,
         NEW data, data = EncodeFunctions(functions)
  PROVE  data \in Seq(Byte) /\ FunctionsDecode(data) /\ DecodeFunctions(data) = functions
<1>1. PICK n \in Nat : n = Len(functions) /\ DOMAIN functions = 1..n /\ n <= 255
  BY LenProperties
<1>2. PICK names : names = [i \in DOMAIN functions |-> functions[i].name]
  OBVIOUS
<1>3. ASSUME NEW i \in 1..n
      PROVE  FunctionFits(functions[i]) /\ names[i] = functions[i].name
             /\ names[i] \in Text /\ Len(names[i]) <= 255
  BY <1>1, <1>2 DEF FunctionFits, SourceFunction
<1>4. names \in [1..n -> Text]
  BY <1>1, <1>2, <1>3
<1>5. PICK area : area = Flattened(StringParts(names))
  OBVIOUS
<1>6. area \in Seq(Byte) /\ \A i \in 1..n : NameKept(area, NameOffset(names, i), names[i])
  <2>1. \A i, j \in 1..n : names[i] = names[j] => i = j
    BY <1>1, <1>2
  <2>2. \A i \in 1..n : Len(names[i]) <= 255
    BY <1>3
  <2>. QED
    BY <1>1, <1>4, <1>5, <2>1, <2>2, AreaKept
<1>7. PICK entries : entries = [i \in 1..n |-> FunctionRecord(functions[i], NameOffset(names, i))]
  OBVIOUS
<1>8. ASSUME NEW i \in 1..n
      PROVE  /\ FunctionReads(entries[i], FunctionViewed(functions[i], NameOffset(names, i)))
             /\ FunctionDecodes(FunctionViewed(functions[i], NameOffset(names, i)))
             /\ entries[i] \in Seq(Byte) /\ Len(entries[i]) >= 1
  <2>1. PICK at : at = NameOffset(names, i)
    OBVIOUS
  <2>2. at \in 0..Words16 - 1
    BY <1>6, <2>1 DEF NameKept
  <2>3. PICK fn : fn = functions[i]
    OBVIOUS
  <2>4. FunctionFits(fn)
    BY <1>3, <2>3
  <2>5. FunctionReads(FunctionRecord(fn, at), FunctionViewed(fn, at)) /\ FunctionDecodes(FunctionViewed(fn, at))
    BY <2>2, <2>4, FunctionFitting
  <2>6. entries[i] = FunctionRecord(fn, at)
    BY <1>7, <2>1, <2>3
  <2>7. FunctionReads(entries[i], FunctionViewed(fn, at))
    BY <2>5, <2>6
  <2>8. entries[i] \in Seq(Byte) /\ Len(entries[i]) >= 14
    BY <2>7 DEF FunctionReads
  <2>9. Len(entries[i]) \in Nat
    BY <2>8, LenProperties
  <2>10. Len(entries[i]) >= 1
    BY <2>8, <2>9
  <2>. QED
    BY <2>1, <2>3, <2>5, <2>7, <2>8, <2>10
<1>9. entries \in [1..n -> Seq(Byte)]
  BY <1>7, <1>8
<1>10. entries \in Seq(Seq(Byte)) /\ Len(entries) = n /\ EncodeTable(entries) \in Seq(Byte)
  BY <1>1, <1>9, TableHeld
<1>11. PICK records : records = EncodeTable(entries)
  OBVIOUS
<1>12. data = records \o area
  BY <1>1, <1>2, <1>5, <1>7, <1>11 DEF EncodeFunctions, FunctionRecord, FunctionBytes, FlagsAs
<1>13. /\ data \in Seq(Byte) /\ Len(data) = Len(records) + Len(area)
       /\ Lies(data, 0, records) /\ Lies(data, Len(records), area)
  BY <1>6, <1>10, <1>11, <1>12, LiesJoin
<1>14. data \in Seq(Byte) /\ Lies(data, 0, EncodeTable(entries)) /\ Len(entries) <= 255
  BY <1>1, <1>10, <1>11, <1>13
<1>15. PICK E \in [0..n -> Nat] : E = Ends(entries)
  BY <1>10, <1>14, TableLaid
<1>16. data # <<>> /\ At(data, 0) = n /\ E[n] = Len(records)
  BY <1>10, <1>11, <1>14, <1>15, TableLaid
<1>17. SubSeq(data, E[n] + 1, Len(data)) = area
  <2>1. Slice(data, Len(records), Len(area)) = area
    BY <1>6, <1>13, LiesRead
  <2>. QED
    BY <1>13, <1>16, <2>1 DEF Slice
<1>18. ASSUME NEW k \in 1..n
       PROVE  /\ E[k - 1] \in 1..Len(data)
              /\ FunctionAt(data, E[k - 1]) = FunctionViewed(functions[k], NameOffset(names, k))
              /\ AfterFunction(data, E[k - 1]) = E[k]
  <2>1. k \in 1..Len(entries) /\ Len(entries[k]) >= 1
    BY <1>8, <1>10
  <2>2. /\ E[k - 1] \in 1..Len(data) /\ E[k - 1] \in Nat
        /\ Lies(data, E[k - 1], entries[k]) /\ E[k] = E[k - 1] + Len(entries[k])
    BY <1>10, <1>14, <1>15, <2>1, EntryPlaced
  <2>3. FunctionReads(entries[k], FunctionViewed(functions[k], NameOffset(names, k)))
    BY <1>8
  <2>. QED
    BY <1>14, <2>2, <2>3 DEF FunctionReads
<1>19. PICK following : following = [at \in 1..Len(data) |-> AfterFunction(data, at)]
  OBVIOUS
<1>20. following \in [1..Len(data) -> Nat \cup {Stuck}]
  <2>1. \A at \in 1..Len(data) : AfterFunction(data, at) \in Nat \cup {Stuck}
    BY <1>14, AfterRange
  <2>. QED
    BY <1>19, <2>1
<1>21. \A k \in 1..Len(entries) :
         Len(entries[k]) >= 1 /\ following[Ends(entries)[k - 1]] = Ends(entries)[k]
  BY <1>8, <1>10, <1>15, <1>18, <1>19
<1>22. SteppedThrough(data, entries, following)
  BY <1>10, <1>14, <1>20, <1>21, TableStepped
<1>23. PICK C : C = FunctionCursors(data)
  OBVIOUS
<1>24. (\A k \in 1..n : C[k] = E[k - 1]) /\ Last(C) = E[n]
  <2>1. C = Cursors(data, following)
    BY <1>19, <1>23 DEF FunctionCursors
  <2>2. \A k \in 1..n : k \in 1..Len(entries) + 1
    BY <1>10
  <2>. QED
    BY <1>10, <1>15, <1>22, <2>1, <2>2 DEF SteppedThrough
<1>25. Last(C) # Stuck
  <2>1. E[n] \in Nat
    OBVIOUS
  <2>. QED
    BY <1>24, <2>1 DEF Stuck
<1>26. SubSeq(data, Last(C) + 1, Len(data)) = area
  BY <1>17, <1>24
<1>27. ASSUME NEW i \in 1..n
       PROVE  /\ FunctionDecodes(FunctionAt(data, C[i]))
              /\ FunctionAt(data, C[i]) = FunctionViewed(functions[i], NameOffset(names, i))
              /\ NameDecodes(area, FunctionAt(data, C[i]).name_offset)
              /\ NameAtOffset(area, FunctionAt(data, C[i]).name_offset) = names[i]
  <2>1. FunctionAt(data, C[i]) = FunctionViewed(functions[i], NameOffset(names, i))
    BY <1>18, <1>24
  <2>2. FunctionAt(data, C[i]).name_offset = NameOffset(names, i)
    BY <2>1 DEF FunctionViewed, FunctionView
  <2>3. NameKept(area, NameOffset(names, i), names[i])
    BY <1>6
  <2>. QED
    BY <1>8, <2>1, <2>2, <2>3 DEF NameKept
<1>28. PICK read : read = [i \in 1..n |-> NameAtOffset(area, FunctionAt(data, C[i]).name_offset)]
  OBVIOUS
<1>29. IsInjective(read)
  <2>1. \A i \in 1..n : read[i] = names[i]
    BY <1>27, <1>28
  <2>2. DOMAIN read = 1..n
    BY <1>28
  <2>3. \A i, j \in 1..n : names[i] = names[j] => i = j
    BY <1>1, <1>2
  <2>4. \A i, j \in DOMAIN read : read[i] = read[j] => i = j
    BY <2>1, <2>2, <2>3
  <2>. QED
    BY <2>4 DEF IsInjective
<1>30. FunctionsDecode(data)
  BY <1>16, <1>23, <1>25, <1>26, <1>27, <1>28, <1>29 DEF FunctionsDecode
<1>31. DecodeFunctions(data) = functions
  <2>1. DecodeFunctions(data) =
          [i \in 1..n |->
             [name |-> NameAtOffset(area, FunctionAt(data, C[i]).name_offset),
              code_offset |-> FunctionAt(data, C[i]).code_offset,
              invocable |-> Invocable(FunctionAt(data, C[i]).flags),
              return_type |-> FunctionAt(data, C[i]).return_type,
              max_stack |-> FunctionAt(data, C[i]).max_stack,
              max_call_depth |-> FunctionAt(data, C[i]).max_call_depth,
              recursion_cap |-> FunctionAt(data, C[i]).recursion_cap,
              component |-> FunctionAt(data, C[i]).component,
              param_count |-> FunctionAt(data, C[i]).param_count,
              local_types |-> FunctionAt(data, C[i]).local_types]]
    BY <1>16, <1>23, <1>26 DEF DecodeFunctions
  <2>2. ASSUME NEW i \in 1..n
        PROVE  [name |-> NameAtOffset(area, FunctionAt(data, C[i]).name_offset),
                code_offset |-> FunctionAt(data, C[i]).code_offset,
                invocable |-> Invocable(FunctionAt(data, C[i]).flags),
                return_type |-> FunctionAt(data, C[i]).return_type,
                max_stack |-> FunctionAt(data, C[i]).max_stack,
                max_call_depth |-> FunctionAt(data, C[i]).max_call_depth,
                recursion_cap |-> FunctionAt(data, C[i]).recursion_cap,
                component |-> FunctionAt(data, C[i]).component,
                param_count |-> FunctionAt(data, C[i]).param_count,
                local_types |-> FunctionAt(data, C[i]).local_types] = functions[i]
    <3>1. PICK fn : fn = functions[i] /\ FunctionFits(fn)
      BY <1>3
    <3>2. PICK view : view = FunctionAt(data, C[i])
      OBVIOUS
    <3>3. view = FunctionViewed(fn, NameOffset(names, i)) /\ NameAtOffset(area, view.name_offset) = fn.name
      BY <1>3, <1>27, <3>1, <3>2
    <3>4. [name |-> fn.name, code_offset |-> view.code_offset,
           invocable |-> Invocable(view.flags), return_type |-> view.return_type,
           max_stack |-> view.max_stack, max_call_depth |-> view.max_call_depth,
           recursion_cap |-> view.recursion_cap, component |-> view.component,
           param_count |-> view.param_count, local_types |-> view.local_types] = fn
      BY <3>1, <3>3, FunctionAgain
    <3>. QED
      BY <3>1, <3>2, <3>3, <3>4
  <2>3. DecodeFunctions(data) = [i \in 1..n |-> functions[i]]
    BY <2>1, <2>2
  <2>4. functions = [i \in 1..n |-> functions[i]]
    BY <1>1, LenProperties
  <2>. QED
    BY <2>3, <2>4
<1>. QED
  BY <1>14, <1>30, <1>31

-----------------------------------------------------------------------------
(* The sections of a container. *)
SectionRecord == [type: Seq(Byte), data: Seq(Byte)]

Named(c) == \E i \in DOMAIN c.imports : c.imports[i].name # <<>>

(* The tables, and the names if there are any. *)
TableSections(c) == IF Named(c) THEN 5 ELSE 4

(* Three lists, one after the other. *)
Follow(all, a, b, c) ==
  /\ Len(all) = Len(a) + Len(b) + Len(c)
  /\ \A i \in 1..Len(a) : all[i] = a[i]
  /\ \A i \in 1..Len(b) : all[Len(a) + i] = b[i]
  /\ \A i \in 1..Len(c) : all[Len(a) + Len(b) + i] = c[i]

LEMMA ListJoined ==
  ASSUME NEW S, NEW a \in Seq(S), NEW b \in Seq(S), NEW c \in Seq(S)
  PROVE  a \o b \o c \in Seq(S) /\ Follow(a \o b \o c, a, b, c)
<1>1. PICK m \in Nat, n \in Nat, p \in Nat : m = Len(a) /\ n = Len(b) /\ p = Len(c)
  BY LenProperties
<1>2. PICK ab : ab = a \o b
  OBVIOUS
<1>3. PICK all : all = ab \o c
  OBVIOUS
<1>4. ab \in Seq(S) /\ Len(ab) = m + n /\ \A i \in 1..m + n : ab[i] = IF i <= m THEN a[i] ELSE b[i - m]
  BY <1>1, <1>2, ConcatProperties
<1>5. all \in Seq(S) /\ Len(all) = Len(ab) + Len(c)
      /\ \A i \in 1..Len(ab) + Len(c) : all[i] = IF i <= Len(ab) THEN ab[i] ELSE c[i - Len(ab)]
  BY <1>3, <1>4, ConcatProperties
<1>6. m \in Nat /\ n \in Nat /\ p \in Nat
  BY <1>1
<1>7. Len(all) = (m + n) + p
      /\ \A i \in 1..(m + n) + p : all[i] = IF i <= m + n THEN ab[i] ELSE c[i - (m + n)]
  BY <1>1, <1>4, <1>5
<1>8. ASSUME NEW i \in 1..m PROVE all[i] = a[i]
  <2>1. i \in 1..(m + n) + p /\ i <= m + n /\ i \in 1..m + n /\ i <= m
    BY <1>6
  <2>. QED
    BY <1>4, <1>7, <2>1
<1>9. ASSUME NEW i \in 1..n PROVE all[m + i] = b[i]
  <2>1. m + i \in 1..(m + n) + p /\ m + i <= m + n /\ m + i \in 1..m + n /\ ~(m + i <= m)
        /\ (m + i) - m = i
    BY <1>6
  <2>2. all[m + i] = ab[m + i]
    BY <1>7, <2>1
  <2>3. ab[m + i] = b[(m + i) - m]
    BY <1>4, <2>1
  <2>. QED
    BY <2>1, <2>2, <2>3
<1>10. ASSUME NEW i \in 1..p PROVE all[m + n + i] = c[i]
  <2>1. PICK x : x = m + n + i
    OBVIOUS
  <2>2. x \in 1..(m + n) + p /\ ~(x <= m + n) /\ x - (m + n) = i
    BY <1>6, <2>1
  <2>3. all[x] = c[x - (m + n)]
    BY <1>7, <2>2
  <2>. QED
    BY <2>1, <2>2, <2>3
<1>11. Len(all) = m + n + p
  BY <1>7
<1>. QED
  BY <1>1, <1>2, <1>3, <1>5, <1>8, <1>9, <1>10, <1>11 DEF Follow

(* Its pieces are bytes, and are read back. *)
LEMMA PiecesKept ==
  ASSUME NEW c, Encodable(c)
  PROVE  /\ c.code \in Seq(Byte)
         /\ EncodeConstants(c.constants) \in Seq(Byte)
         /\ ConstantsDecode(EncodeConstants(c.constants))
         /\ DecodeConstants(EncodeConstants(c.constants)) = c.constants
         /\ EncodeFunctions(c.functions) \in Seq(Byte)
         /\ FunctionsDecode(EncodeFunctions(c.functions))
         /\ DecodeFunctions(EncodeFunctions(c.functions)) = c.functions
         /\ EncodeImports(c.imports) \in Seq(Byte) /\ EncodeImports(c.imports) # <<>>
         /\ At(EncodeImports(c.imports), 0) = Len(c.imports)
         /\ ImportsDecode(EncodeImports(c.imports))
         /\ DecodeImports(EncodeImports(c.imports)) =
              [i \in 1..Len(c.imports) |-> ImportFieldsOf(c.imports[i])]
         /\ Len(c.imports) \in Nat /\ DOMAIN c.imports = 1..Len(c.imports)
         /\ TextsAre(EncodeImportNames(c.imports),
                     [i \in 1..Len(c.imports) |-> c.imports[i].name], Len(c.imports))
<1>1. /\ c \in SourceContainer
      /\ Len(c.constants) <= 255 /\ Len(c.functions) <= 255 /\ Len(c.imports) <= 255
      /\ \A k \in DOMAIN c.constants :
           Len(c.constants[k].bytes) = Width(c.constants[k].type)
      /\ \A i, j \in DOMAIN c.functions :
           c.functions[i].name = c.functions[j].name => i = j
      /\ \A i, j \in DOMAIN c.imports :
           NameHash(c.imports[i].name) = NameHash(c.imports[j].name) => i = j
  BY DEF Encodable
<1>2. /\ c.code \in Seq(Byte) /\ c.constants \in Seq([type: PoolType, bytes: Seq(Byte)])
      /\ c.functions \in Seq(SourceFunction) /\ c.imports \in Seq(SourceImport)
  BY <1>1 DEF SourceContainer
<1>3. \A i \in DOMAIN c.functions : FunctionFits(c.functions[i])
  <2>. TAKE i \in DOMAIN c.functions
  <2>1. c.functions[i] \in SourceFunction
    BY <1>2, LenProperties, ElementOfSeq
  <2>. QED
    BY <2>1 DEF FunctionFits, Encodable
<1>4. \A i \in DOMAIN c.imports : ImportFits(c.imports[i])
  <2>. TAKE i \in DOMAIN c.imports
  <2>1. c.imports[i] \in SourceImport
    BY <1>2, LenProperties, ElementOfSeq
  <2>. QED
    BY <2>1 DEF ImportFits, Encodable
<1>5. PICK constants : constants = c.constants
  OBVIOUS
<1>6. PICK functions : functions = c.functions
  OBVIOUS
<1>7. PICK imports : imports = c.imports
  OBVIOUS
<1>8. /\ EncodeConstants(constants) \in Seq(Byte) /\ ConstantsDecode(EncodeConstants(constants))
      /\ DecodeConstants(EncodeConstants(constants)) = constants
  BY <1>1, <1>2, <1>5, ConstantsKept
<1>9. /\ EncodeFunctions(functions) \in Seq(Byte) /\ FunctionsDecode(EncodeFunctions(functions))
      /\ DecodeFunctions(EncodeFunctions(functions)) = functions
  BY <1>1, <1>2, <1>3, <1>6, FunctionsKept
<1>10. /\ EncodeImports(imports) \in Seq(Byte) /\ EncodeImports(imports) # <<>>
       /\ At(EncodeImports(imports), 0) = Len(imports)
       /\ ImportsDecode(EncodeImports(imports))
       /\ DecodeImports(EncodeImports(imports)) =
            [i \in 1..Len(imports) |-> ImportFieldsOf(imports[i])]
  BY <1>1, <1>2, <1>4, <1>7, ImportsKept
<1>11. PICK n \in Nat : n = Len(imports) /\ DOMAIN imports = 1..n /\ n <= 255
  BY <1>1, <1>2, <1>7, LenProperties
<1>12. PICK texts : texts = [i \in 1..n |-> imports[i].name]
  OBVIOUS
<1>13. \A i \in 1..n : texts[i] \in Seq(Byte) /\ Len(texts[i]) <= 255
  <2>1. \A i \in 1..n : ImportFits(imports[i])
    BY <1>4, <1>7, <1>11
  <2>. QED
    BY <1>12, <2>1, ImportFitting
<1>14. texts \in [1..n -> Seq(Byte)]
  BY <1>12, <1>13
<1>15. EncodeImportNames(imports) = EncodeTable([i \in 1..n |-> LengthPrefixed(texts[i])])
  BY <1>11, <1>12 DEF EncodeImportNames
<1>16. TextsAre(EncodeImportNames(imports), texts, n)
  BY <1>11, <1>13, <1>14, <1>15, TextsKept
<1>. QED
  BY <1>2, <1>5, <1>6, <1>7, <1>8, <1>9, <1>10, <1>11, <1>12, <1>16

(* Where the sections are in the list of them. *)
Listed(c, list) ==
  LET first == TableSections(c)
  IN  /\ list \in Seq(SectionRecord) /\ Len(list) = first + Len(c.ancillary)
      /\ list[1] = [type |-> CODE, data |-> c.code]
      /\ list[2] = [type |-> CNST, data |-> EncodeConstants(c.constants)]
      /\ list[3] = [type |-> ENTR, data |-> EncodeFunctions(c.functions)]
      /\ list[4] = [type |-> HOST, data |-> EncodeImports(c.imports)]
      /\ Named(c) => list[5] = [type |-> hnam, data |-> EncodeImportNames(c.imports)]
      /\ \A i \in 1..Len(c.ancillary) : list[first + i] = c.ancillary[i]

LEMMA SectionsListed ==
  ASSUME NEW c, Encodable(c)
  PROVE  /\ Listed(c, SectionsOf(c))
         /\ c.ancillary \in Seq(SectionRecord) /\ Len(c.ancillary) \in Nat
<1>1. PICK four : four = <<[type |-> CODE, data |-> c.code],
                            [type |-> CNST, data |-> EncodeConstants(c.constants)],
                            [type |-> ENTR, data |-> EncodeFunctions(c.functions)],
                            [type |-> HOST, data |-> EncodeImports(c.imports)]>>
  OBVIOUS
<1>2. /\ c.code \in Seq(Byte) /\ EncodeConstants(c.constants) \in Seq(Byte)
      /\ EncodeFunctions(c.functions) \in Seq(Byte) /\ EncodeImports(c.imports) \in Seq(Byte)
      /\ EncodeImportNames(c.imports) \in Seq(Byte)
  BY PiecesKept DEF TextsAre
<1>3. /\ CODE \in Seq(Byte) /\ CNST \in Seq(Byte) /\ ENTR \in Seq(Byte) /\ HOST \in Seq(Byte)
      /\ hnam \in Seq(Byte)
  BY DEF CODE, CNST, ENTR, HOST, hnam, Byte
<1>4. four \in Seq(SectionRecord) /\ Len(four) = 4
  <2>1. /\ [type |-> CODE, data |-> c.code] \in SectionRecord
        /\ [type |-> CNST, data |-> EncodeConstants(c.constants)] \in SectionRecord
        /\ [type |-> ENTR, data |-> EncodeFunctions(c.functions)] \in SectionRecord
        /\ [type |-> HOST, data |-> EncodeImports(c.imports)] \in SectionRecord
    BY <1>2, <1>3 DEF SectionRecord
  <2>2. \A p, q, r, s \in SectionRecord :
          <<p, q, r, s>> \in Seq(SectionRecord) /\ Len(<<p, q, r, s>>) = 4
    OBVIOUS
  <2>. QED
    BY <1>1, <2>1, <2>2
<1>5. /\ four[1] = [type |-> CODE, data |-> c.code]
      /\ four[2] = [type |-> CNST, data |-> EncodeConstants(c.constants)]
      /\ four[3] = [type |-> ENTR, data |-> EncodeFunctions(c.functions)]
      /\ four[4] = [type |-> HOST, data |-> EncodeImports(c.imports)]
  BY <1>1
<1>6. PICK names : names = (IF Named(c) THEN <<[type |-> hnam, data |-> EncodeImportNames(c.imports)]>>
                            ELSE <<>>)
  OBVIOUS
<1>7. /\ names \in Seq(SectionRecord) /\ Len(names) = IF Named(c) THEN 1 ELSE 0
      /\ Named(c) => names[1] = [type |-> hnam, data |-> EncodeImportNames(c.imports)]
  <2>1. PICK r : r = [type |-> hnam, data |-> EncodeImportNames(c.imports)]
    OBVIOUS
  <2>2. r \in SectionRecord
    BY <1>2, <1>3, <2>1 DEF SectionRecord
  <2>3. <<r>> \in Seq(SectionRecord) /\ Len(<<r>>) = 1 /\ <<r>>[1] = r
    BY <2>2
  <2>4. CASE Named(c)
    BY <1>6, <2>1, <2>3, <2>4
  <2>5. CASE ~Named(c)
    BY <1>6, <2>5
  <2>. QED
    BY <2>4, <2>5
<1>8. c.ancillary \in Seq(SectionRecord) /\ Len(c.ancillary) \in Nat
  <2>1. c.ancillary \in Seq([type: Seq(32..126), data: Seq(Byte)])
    BY DEF Encodable, SourceContainer
  <2>2. [type: Seq(32..126), data: Seq(Byte)] \subseteq SectionRecord
    <3>1. 32..126 \subseteq Byte
      BY DEF Byte
    <3>2. \A t \in Seq(32..126) : t \in Seq(Byte)
      BY <3>1, SeqMonotonic
    <3>. QED
      BY <3>2 DEF SectionRecord
  <2>3. c.ancillary \in Seq(SectionRecord)
    BY <2>1, <2>2, SeqMonotonic
  <2>. QED
    BY <2>3, LenProperties
<1>9. PICK rest : rest = c.ancillary
  OBVIOUS
<1>10. PICK list : list = SectionsOf(c)
  OBVIOUS
<1>11. list = four \o names \o rest
  BY <1>1, <1>6, <1>9, <1>10 DEF SectionsOf, Named
<1>12. rest \in Seq(SectionRecord)
  BY <1>8, <1>9
<1>13. /\ list \in Seq(SectionRecord) /\ Len(list) = Len(four) + Len(names) + Len(rest)
       /\ \A i \in 1..Len(four) : list[i] = four[i]
       /\ \A i \in 1..Len(names) : list[Len(four) + i] = names[i]
       /\ \A i \in 1..Len(rest) : list[Len(four) + Len(names) + i] = rest[i]
  <2>1. names \in Seq(SectionRecord)
    BY <1>7
  <2>2. four \in Seq(SectionRecord)
    BY <1>4
  <2>3. list \in Seq(SectionRecord) /\ Follow(list, four, names, rest)
    BY <1>11, <1>12, <2>1, <2>2, ListJoined
  <2>. QED
    BY <2>3 DEF Follow
<1>14. Len(four) + Len(names) = TableSections(c)
  BY <1>4, <1>7 DEF TableSections
<1>15. /\ Len(list) = TableSections(c) + Len(rest)
       /\ \A i \in 1..Len(rest) : list[TableSections(c) + i] = rest[i]
  BY <1>13, <1>14
<1>16. list[1] = four[1] /\ list[2] = four[2] /\ list[3] = four[3] /\ list[4] = four[4]
  <2>1. 1 \in 1..Len(four) /\ 2 \in 1..Len(four) /\ 3 \in 1..Len(four) /\ 4 \in 1..Len(four)
    BY <1>4
  <2>. QED
    BY <1>13, <2>1
<1>17. Named(c) => list[5] = names[1]
  <2>1. Named(c) => 1 \in 1..Len(names) /\ Len(four) + 1 = 5
    BY <1>4, <1>7
  <2>. QED
    BY <1>13, <2>1
<1>18. Listed(c, list)
  BY <1>5, <1>7, <1>9, <1>13, <1>15, <1>16, <1>17 DEF Listed
<1>. QED
  BY <1>8, <1>10, <1>18

(* The type of a section tells what it is. *)
TypesListed(c, list, first, n) ==
  /\ n \in Nat /\ first \in 4..n /\ first \in Nat /\ n = first + Len(c.ancillary)
  /\ DOMAIN list = 1..n
  /\ list[1].type = CODE /\ list[2].type = CNST /\ list[3].type = ENTR /\ list[4].type = HOST
  /\ first = IF Named(c) THEN 5 ELSE 4
  /\ Named(c) => list[5].type = hnam
  /\ \A s \in first + 1..n :
       /\ ~Uppercase(list[s].type[1]) /\ list[s].type # hnam
       /\ Len(list[s].type) = 4 /\ \A k \in 1..4 : Printable(list[s].type[k])

LEMMA SectionTypes ==
  ASSUME NEW c, Encodable(c), NEW list, list = SectionsOf(c),
         NEW first, first = TableSections(c), NEW n, n = Len(list)
  PROVE  TypesListed(c, list, first, n)
<1>1. Listed(c, list) /\ Len(c.ancillary) \in Nat /\ c.ancillary \in Seq(SectionRecord)
  BY SectionsListed
<1>2. PICK p \in Nat : p = Len(c.ancillary)
  BY <1>1
<1>3. first = IF Named(c) THEN 5 ELSE 4
  BY DEF TableSections
<1>4. n = first + p
  BY <1>1, <1>2 DEF Listed
<1>5. n \in Nat /\ first \in 4..n /\ first \in Nat
  <2>1. first = 4 \/ first = 5
    BY <1>3
  <2>2. PICK f \in {4, 5} : f = first
    BY <2>1
  <2>3. f + p \in Nat /\ f \in 4..f + p /\ f \in Nat
    BY <1>2, <2>2
  <2>. QED
    BY <1>4, <2>2, <2>3
<1>6. list[1].type = CODE /\ list[2].type = CNST /\ list[3].type = ENTR /\ list[4].type = HOST
      /\ (Named(c) => list[5].type = hnam)
  BY <1>1 DEF Listed
<1>7. DOMAIN list = 1..n
  BY <1>1, LenProperties DEF Listed
<1>8. ASSUME NEW s \in first + 1..n
      PROVE  /\ ~Uppercase(list[s].type[1]) /\ list[s].type # hnam
             /\ Len(list[s].type) = 4 /\ \A k \in 1..4 : Printable(list[s].type[k])
  <2>1. PICK i \in 1..p : s = first + i
    <3>1. s - first \in 1..p /\ s = first + (s - first)
      BY <1>4, <1>5
    <3>. QED
      BY <3>1
  <2>2. list[s] = c.ancillary[i]
    BY <1>1, <1>2, <2>1 DEF Listed
  <2>3. i \in DOMAIN c.ancillary
    BY <1>1, <1>2, LenProperties
  <2>4. PICK type : type = c.ancillary[i].type
    OBVIOUS
  <2>5. Len(type) = 4 /\ ~Uppercase(type[1]) /\ type # hnam
    BY <2>3, <2>4 DEF Encodable
  <2>6. type \in Seq(32..126)
    <3>1. c.ancillary \in Seq([type: Seq(32..126), data: Seq(Byte)])
      BY DEF Encodable, SourceContainer
    <3>2. c.ancillary[i] \in [type: Seq(32..126), data: Seq(Byte)]
      BY <1>2, <3>1, ElementOfSeq
    <3>. QED
      BY <2>4, <3>2
  <2>7. \A k \in 1..4 : Printable(type[k])
    <3>. TAKE k \in 1..4
    <3>1. type[k] \in 32..126
      BY <2>5, <2>6, ElementOfSeq
    <3>. QED
      BY <3>1 DEF Printable
  <2>. QED
    BY <2>2, <2>4, <2>5, <2>7
<1>. QED
  BY <1>2, <1>3, <1>4, <1>5, <1>6, <1>7, <1>8 DEF TypesListed

LEMMA TypeLetters ==
  /\ Uppercase(CODE[1]) /\ Uppercase(CNST[1]) /\ Uppercase(ENTR[1]) /\ Uppercase(HOST[1])
  /\ ~Uppercase(hnam[1]) /\ hnam # CODE /\ hnam # CNST /\ hnam # ENTR /\ hnam # HOST
  /\ Len(CODE) = 4 /\ Len(CNST) = 4 /\ Len(ENTR) = 4 /\ Len(HOST) = 4 /\ Len(hnam) = 4
  /\ \A k \in 1..4 : /\ Printable(CODE[k]) /\ Printable(CNST[k]) /\ Printable(ENTR[k])
                     /\ Printable(HOST[k]) /\ Printable(hnam[k])
<1>1. /\ Uppercase(CODE[1]) /\ Uppercase(CNST[1]) /\ Uppercase(ENTR[1]) /\ Uppercase(HOST[1])
      /\ ~Uppercase(hnam[1])
  BY DEF CODE, CNST, ENTR, HOST, hnam, Uppercase
<1>2. hnam # CODE /\ hnam # CNST /\ hnam # ENTR /\ hnam # HOST
  BY <1>1
<1>3. Len(CODE) = 4 /\ Len(CNST) = 4 /\ Len(ENTR) = 4 /\ Len(HOST) = 4 /\ Len(hnam) = 4
  BY DEF CODE, CNST, ENTR, HOST, hnam
<1>4. ASSUME NEW k \in 1..4
      PROVE  /\ Printable(CODE[k]) /\ Printable(CNST[k]) /\ Printable(ENTR[k])
             /\ Printable(HOST[k]) /\ Printable(hnam[k])
  <2>1. k = 1 \/ k = 2 \/ k = 3 \/ k = 4
    OBVIOUS
  <2>. QED
    BY <2>1 DEF CODE, CNST, ENTR, HOST, hnam, Printable
<1>. QED
  BY <1>1, <1>2, <1>3, <1>4

LEMMA EncodedWalks ==
  ASSUME NEW c, Encodable(c)
  PROVE  Walkable(SectionsOf(c))
<1>1. PICK list : list = SectionsOf(c)
  OBVIOUS
<1>2. PICK first : first = TableSections(c)
  OBVIOUS
<1>3. PICK n : n = Len(list)
  OBVIOUS
<1>4. /\ n \in Nat /\ first \in 4..n /\ first \in Nat /\ DOMAIN list = 1..n
      /\ list[1].type = CODE /\ list[2].type = CNST /\ list[3].type = ENTR /\ list[4].type = HOST
      /\ first = IF Named(c) THEN 5 ELSE 4
      /\ Named(c) => list[5].type = hnam
      /\ \A s \in first + 1..n :
           /\ ~Uppercase(list[s].type[1]) /\ list[s].type # hnam
           /\ Len(list[s].type) = 4 /\ \A k \in 1..4 : Printable(list[s].type[k])
  <2>1. TypesListed(c, list, first, n)
    BY <1>1, <1>2, <1>3, SectionTypes
  <2>. QED
    BY <2>1 DEF TypesListed
<1>5. list \in Seq([type: Seq(Byte), data: Seq(Byte)])
  BY <1>1, SectionsListed DEF Listed, SectionRecord
<1>6. \A s \in 1..n : Len(list[s].data) < Words32
  BY <1>1, <1>4 DEF Encodable
<1>7. ASSUME NEW s \in 1..n
      PROVE  /\ Len(list[s].type) = 4 /\ \A k \in 1..4 : Printable(list[s].type[k])
             /\ Uppercase(list[s].type[1]) => list[s].type \in CriticalSections
  <2>1. s = 1 \/ s = 2 \/ s = 3 \/ s = 4 \/ (s = 5 /\ Named(c)) \/ s \in first + 1..n
    BY <1>4
  <2>2. CASE s = 1
    BY <1>4, <2>2, TypeLetters DEF CriticalSections
  <2>3. CASE s = 2
    BY <1>4, <2>3, TypeLetters DEF CriticalSections
  <2>4. CASE s = 3
    BY <1>4, <2>4, TypeLetters DEF CriticalSections
  <2>5. CASE s = 4
    BY <1>4, <2>5, TypeLetters DEF CriticalSections
  <2>6. CASE s = 5 /\ Named(c)
    BY <1>4, <2>6, TypeLetters
  <2>7. CASE s \in first + 1..n
    BY <1>4, <2>7
  <2>. QED
    BY <2>1, <2>2, <2>3, <2>4, <2>5, <2>6, <2>7
<1>. QED
  BY <1>1, <1>4, <1>5, <1>6, <1>7 DEF Walkable

(* The sections of what is encoded, found by their types. *)
LEMMA EncodedSections ==
  ASSUME NEW c, Encodable(c), NEW body, body = EncodeBody(c)
  PROVE  /\ Section(body, CODE) = c.code
         /\ Section(body, CNST) = EncodeConstants(c.constants)
         /\ Section(body, ENTR) = EncodeFunctions(c.functions)
         /\ Section(body, HOST) = EncodeImports(c.imports)
         /\ SectionsDecode(body)
         /\ Named(c) => Typed(body, hnam) # {} /\ Section(body, hnam) = EncodeImportNames(c.imports)
         /\ ~Named(c) => Typed(body, hnam) = {}
         /\ DecodeAncillary(body) = c.ancillary
         /\ body \in Seq(Byte)
<1>1. PICK list : list = SectionsOf(c)
  OBVIOUS
<1>2. PICK first : first = TableSections(c)
  OBVIOUS
<1>3. PICK n : n = Len(list)
  OBVIOUS
<1>4. /\ n \in Nat /\ first \in 4..n /\ first \in Nat /\ n = first + Len(c.ancillary)
      /\ list[1].type = CODE /\ list[2].type = CNST /\ list[3].type = ENTR /\ list[4].type = HOST
      /\ first = IF Named(c) THEN 5 ELSE 4
      /\ Named(c) => list[5].type = hnam
      /\ \A s \in first + 1..n : ~Uppercase(list[s].type[1]) /\ list[s].type # hnam
  <2>1. TypesListed(c, list, first, n)
    BY <1>1, <1>2, <1>3, SectionTypes
  <2>. QED
    BY <2>1 DEF TypesListed
<1>17. /\ n \in Nat /\ first \in Nat /\ 4 <= first /\ first <= n
       /\ first = 4 \/ first = 5
       /\ Named(c) <=> first = 5
  <2>1. first = IF Named(c) THEN 5 ELSE 4
    BY <1>4
  <2>2. (first = 4 \/ first = 5) /\ (Named(c) <=> first = 5)
    BY <2>1
  <2>3. n \in Nat /\ first \in Nat /\ 4 <= first /\ first <= n
    <3>1. n \in Nat /\ first \in 4..n
      BY <1>4
    <3>. QED
      BY <3>1
  <2>. QED
    BY <2>2, <2>3
<1>5. Laid(list, body)
  BY <1>1, EncodedWalks DEF EncodeBody, Packed, Laid
<1>6. /\ list[1].data = c.code /\ list[2].data = EncodeConstants(c.constants)
      /\ list[3].data = EncodeFunctions(c.functions) /\ list[4].data = EncodeImports(c.imports)
      /\ Named(c) => list[5].data = EncodeImportNames(c.imports)
      /\ \A i \in 1..Len(c.ancillary) : list[first + i] = c.ancillary[i]
  <2>1. Listed(c, list)
    BY <1>1, SectionsListed
  <2>2. \A i \in 1..Len(c.ancillary) : list[first + i] = c.ancillary[i]
    BY <1>2, <2>1 DEF Listed
  <2>3. /\ list[1] = [type |-> CODE, data |-> c.code]
        /\ list[2] = [type |-> CNST, data |-> EncodeConstants(c.constants)]
        /\ list[3] = [type |-> ENTR, data |-> EncodeFunctions(c.functions)]
        /\ list[4] = [type |-> HOST, data |-> EncodeImports(c.imports)]
        /\ Named(c) => list[5] = [type |-> hnam, data |-> EncodeImportNames(c.imports)]
    BY <2>1 DEF Listed
  <2>. QED
    BY <2>2, <2>3
<1>7. ASSUME NEW s \in 1..n
      PROVE  s = 1 \/ s = 2 \/ s = 3 \/ s = 4 \/ (s = 5 /\ Named(c)) \/ s \in first + 1..n
  BY <1>17
<1>8. ASSUME NEW s \in 1..n, s <= first, NEW r \in 1..n, r # s
      PROVE  list[r].type # list[s].type
  <2>1. s = 1 \/ s = 2 \/ s = 3 \/ s = 4 \/ (s = 5 /\ Named(c))
    BY <1>4, <1>7, <1>8
  <2>2. list[s].type = hnam \/ Uppercase(list[s].type[1])
    BY <1>4, <2>1, TypeLetters
  <2>3. CASE r \in first + 1..n
    BY <1>4, <2>2, <2>3
  <2>4. CASE r = 1 \/ r = 2 \/ r = 3 \/ r = 4 \/ (r = 5 /\ Named(c))
    BY <1>4, <1>8, <2>1, <2>4, TypeLetters, SectionsDiffer
  <2>. QED
    BY <1>7, <2>3, <2>4
<1>9. ASSUME NEW s \in 1..n, s <= first
      PROVE  /\ Typed(body, list[s].type) # {}
             /\ Cardinality(Typed(body, list[s].type)) = 1
             /\ Section(body, list[s].type) = list[s].data
  <2>1. s \in 1..Len(list) /\ Lone(list, s)
    BY <1>3, <1>8, <1>9 DEF Lone
  <2>2. /\ Typed(body, list[s].type) = {Marks(list)[s - 1]}
        /\ Cardinality(Typed(body, list[s].type)) = 1
        /\ Section(body, list[s].type) = list[s].data
    <3>1. Found(list, body, s)
      BY <1>5, <2>1, SectionFound
    <3>. QED
      BY <3>1 DEF Found
  <2>3. Typed(body, list[s].type) # {}
    BY <2>2
  <2>. QED
    BY <2>2, <2>3
<1>10. /\ 1 \in 1..n /\ 2 \in 1..n /\ 3 \in 1..n /\ 4 \in 1..n
       /\ 1 <= first /\ 2 <= first /\ 3 <= first /\ 4 <= first
       /\ Named(c) => 5 \in 1..n /\ 5 <= first
  BY <1>17
<1>11. /\ Section(body, CODE) = c.code /\ Cardinality(Typed(body, CODE)) = 1
       /\ Section(body, CNST) = EncodeConstants(c.constants) /\ Cardinality(Typed(body, CNST)) = 1
       /\ Section(body, ENTR) = EncodeFunctions(c.functions) /\ Cardinality(Typed(body, ENTR)) = 1
       /\ Section(body, HOST) = EncodeImports(c.imports) /\ Cardinality(Typed(body, HOST)) = 1
  BY <1>4, <1>6, <1>9, <1>10
<1>12. Named(c) => Typed(body, hnam) # {} /\ Section(body, hnam) = EncodeImportNames(c.imports)
  BY <1>4, <1>6, <1>9, <1>10
<1>13. ~Named(c) => Typed(body, hnam) = {}
  <2>1. HAVE ~Named(c)
  <2>2. \A r \in 1..Len(list) : list[r].type # hnam
    <3>. TAKE r \in 1..Len(list)
    <3>1. r = 1 \/ r = 2 \/ r = 3 \/ r = 4 \/ r \in first + 1..n
      BY <1>3, <1>7, <2>1
    <3>. QED
      BY <1>4, <3>1, TypeLetters
  <2>. QED
    BY <1>5, <2>2, SectionAbsent
<1>14. SectionsDecode(body)
  <2>1. Stuck \notin SectionStarts(body)
    BY <1>5, SectionsWalked
  <2>. QED
    BY <1>11, <2>1 DEF SectionsDecode, CriticalSections
<1>15. DecodeAncillary(body) = c.ancillary
  <2>1. PICK tail : tail = c.ancillary
    OBVIOUS
  <2>2. tail \in Seq([type: Seq(Byte), data: Seq(Byte)]) /\ Len(tail) \in Nat
    BY <2>1, SectionsListed DEF SectionRecord
  <2>3. PICK p \in Nat : p = Len(tail)
    BY <2>2
  <2>4. first \in 0..Len(list) /\ Len(tail) = Len(list) - first
    <3>1. n = first + p
      BY <1>4, <2>1, <2>3
    <3>2. p = n - first /\ first \in 0..n
      BY <1>17, <2>3, <3>1
    <3>. QED
      BY <1>3, <2>3, <3>2
  <2>5. \A i \in 1..Len(tail) : list[first + i] = tail[i]
    BY <1>6, <2>1
  <2>6. \A s \in first + 1..Len(list) : ~Uppercase(list[s].type[1]) /\ list[s].type # hnam
    BY <1>3, <1>4
  <2>7. \A s \in 1..first :
          \/ Uppercase(list[s].type[1]) /\ list[s].type # hnam
          \/ s = first /\ list[s].type = hnam
    <3>. TAKE s \in 1..first
    <3>1. s = 1 \/ s = 2 \/ s = 3 \/ s = 4 \/ (s = 5 /\ Named(c) /\ s = first)
      BY <1>17
    <3>2. CASE s = 1
      BY <1>4, <3>2, TypeLetters
    <3>3. CASE s = 2
      BY <1>4, <3>3, TypeLetters
    <3>4. CASE s = 3
      BY <1>4, <3>4, TypeLetters
    <3>5. CASE s = 4
      BY <1>4, <3>5, TypeLetters
    <3>6. CASE s = 5 /\ Named(c) /\ s = first
      BY <1>4, <3>6
    <3>. QED
      BY <3>1, <3>2, <3>3, <3>4, <3>5, <3>6
  <2>9. TailOf(list, first, tail)
    BY <2>5, <2>6, <2>7 DEF TailOf
  <2>8. DecodeAncillary(body) = tail
    BY <1>5, <2>2, <2>4, <2>9, AncillaryDecoded
  <2>. QED
    BY <2>1, <2>8
<1>16. body \in Seq(Byte)
  BY <1>5, SectionsLaid
<1>. QED
  BY <1>11, <1>12, <1>13, <1>14, <1>15, <1>16

-----------------------------------------------------------------------------
(* What the decoder makes of what the encoder writes. *)
LEMMA EncodedIsRead ==
  ASSUME NEW c, Encodable(c)
  PROVE  DecodeOf(Encode(c)) = <<c>>
<1>1. PICK body : body = EncodeBody(c)
  OBVIOUS
<1>2. PICK file : file = Encode(c)
  OBVIOUS
<1>3. /\ file.held = HeaderSize /\ file.body = body /\ file.magic = TRUE
      /\ file.format_version = FormatVersion /\ file.flags = 0
      /\ file.total_length = HeaderSize + Len(body) /\ file.profile = c.profile
      /\ file.checksum_matches = TRUE
  BY <1>1, <1>2 DEF Encode
<1>4. /\ Section(body, CODE) = c.code
      /\ Section(body, CNST) = EncodeConstants(c.constants)
      /\ Section(body, ENTR) = EncodeFunctions(c.functions)
      /\ Section(body, HOST) = EncodeImports(c.imports)
      /\ SectionsDecode(body)
      /\ Named(c) => Typed(body, hnam) # {} /\ Section(body, hnam) = EncodeImportNames(c.imports)
      /\ ~Named(c) => Typed(body, hnam) = {}
      /\ DecodeAncillary(body) = c.ancillary
      /\ body \in Seq(Byte)
  BY <1>1, EncodedSections
<1>5. PICK n \in Nat : n = Len(c.imports) /\ DOMAIN c.imports = 1..n
  BY PiecesKept
<1>6. PICK records : records = [i \in 1..n |-> ImportFieldsOf(c.imports[i])]
  OBVIOUS
<1>7. /\ ImportsDecode(EncodeImports(c.imports)) /\ At(EncodeImports(c.imports), 0) = n
      /\ DecodeImports(EncodeImports(c.imports)) = records
  BY <1>5, <1>6, PiecesKept
<1>8. PICK texts : texts = [i \in 1..n |-> c.imports[i].name]
  OBVIOUS
<1>9. TextsAre(EncodeImportNames(c.imports), texts, n)
  BY <1>5, <1>8, PiecesKept
<1>10. HeaderDecodes(file)
  <2>1. Len(body) \in Nat
    BY <1>4, LenProperties
  <2>2. HeaderSize + Len(body) >= HeaderSize /\ FormatVersion <= FormatVersion
    BY <2>1 DEF HeaderSize, FormatVersion
  <2>3. Length(file) = HeaderSize + Len(body)
    BY <1>3 DEF Length
  <2>. QED
    BY <1>3, <2>2, <2>3 DEF HeaderDecodes
<1>11. ImportNamesDecode(body)
  <2>1. Typed(body, hnam) # {} => Named(c)
    BY <1>4
  <2>2. PICK data : data = EncodeImportNames(c.imports)
    OBVIOUS
  <2>3. data # <<>> /\ At(data, 0) = n /\ Last(NameCursors(data)) # Stuck
    BY <1>9, <2>2 DEF TextsAre
  <2>4. Typed(body, hnam) # {} => Section(body, hnam) = data
    BY <1>4, <2>1, <2>2
  <2>5. At(Section(body, HOST), 0) = n
    BY <1>4, <1>7
  <2>. QED
    BY <2>3, <2>4, <2>5 DEF ImportNamesDecode
<1>12. Decodes(file)
  <2>1. ImportsDecode(Section(body, HOST))
    BY <1>4, <1>7
  <2>2. ConstantsDecode(Section(body, CNST)) /\ FunctionsDecode(Section(body, ENTR))
    BY <1>4, PiecesKept
  <2>. QED
    BY <1>3, <1>4, <1>10, <1>11, <2>1, <2>2 DEF Decodes
<1>13. PICK imports : imports = c.imports
  OBVIOUS
<1>14. imports = [i \in 1..n |-> imports[i]] /\ \A i \in 1..n : imports[i] \in SourceImport
  <2>1. imports \in Seq(SourceImport)
    BY <1>13 DEF Encodable, SourceContainer
  <2>2. imports = [i \in 1..Len(imports) |-> imports[i]]
    BY <2>1, LenProperties
  <2>. QED
    BY <1>5, <1>13, <2>1, <2>2, ElementOfSeq
<1>15. ASSUME Named(c)
       PROVE  Decode(file).imports = imports
  <2>1. PICK names : names = EncodeImportNames(imports)
    OBVIOUS
  <2>2. Section(body, hnam) = names /\ Typed(body, hnam) # {}
    BY <1>4, <1>13, <1>15, <2>1
  <2>3. PICK C : C = NameCursors(names)
    OBVIOUS
  <2>4. ASSUME NEW i \in 1..n
        PROVE  [name |-> Slice(names, C[i] + 1, At(names, C[i])),
                kind |-> records[i].kind, access |-> records[i].access, type |-> records[i].type,
                dimension |-> records[i].dimension, param_types |-> records[i].param_types] = imports[i]
    <3>1. PICK imp : imp = imports[i] /\ imp \in SourceImport
      BY <1>14
    <3>2. Slice(names, C[i] + 1, At(names, C[i])) = imp.name
      BY <1>8, <1>9, <1>13, <2>1, <2>3, <3>1 DEF TextsAre
    <3>3. /\ records[i].kind = imp.kind /\ records[i].access = imp.access /\ records[i].type = imp.type
          /\ records[i].dimension = imp.dimension /\ records[i].param_types = imp.param_types
      BY <1>6, <1>13, <3>1 DEF ImportFieldsOf
    <3>4. imp = [name |-> imp.name, kind |-> imp.kind, access |-> imp.access, type |-> imp.type,
                 dimension |-> imp.dimension, param_types |-> imp.param_types]
      BY <3>1 DEF SourceImport
    <3>. QED
      BY <3>1, <3>2, <3>3, <3>4
  <2>5. [i \in 1..n |->
          [name |-> Slice(names, C[i] + 1, At(names, C[i])),
           kind |-> records[i].kind, access |-> records[i].access, type |-> records[i].type,
           dimension |-> records[i].dimension, param_types |-> records[i].param_types]] = imports
    BY <1>14, <2>4
  <2>6. DOMAIN records = 1..n /\ DecodeImports(Section(body, HOST)) = records
    BY <1>4, <1>6, <1>7
  <2>. QED
    BY <1>3, <2>2, <2>3, <2>5, <2>6 DEF Decode
<1>16. ASSUME ~Named(c)
       PROVE  Decode(file).imports = imports
  <2>1. imports = <<>>
    BY <1>13, <1>16 DEF Encodable, Named
  <2>2. n = 0 /\ 1..n = {}
    BY <1>5, <1>13, <2>1
  <2>3. records = <<>>
    BY <1>6, <2>2
  <2>4. Typed(body, hnam) = {} /\ DecodeImports(Section(body, HOST)) = records
    BY <1>4, <1>7, <1>16
  <2>. QED
    BY <1>3, <2>1, <2>3, <2>4 DEF Decode
<1>17. Decode(file).imports = c.imports
  BY <1>13, <1>15, <1>16
<1>18. /\ Decode(file).code = c.code /\ Decode(file).constants = c.constants
       /\ Decode(file).functions = c.functions /\ Decode(file).ancillary = c.ancillary
       /\ Decode(file).profile = c.profile
  BY <1>3, <1>4, PiecesKept DEF Decode
<1>19. c = [code |-> c.code, constants |-> c.constants, functions |-> c.functions,
            imports |-> c.imports, ancillary |-> c.ancillary, profile |-> c.profile]
  BY DEF Encodable, SourceContainer
<1>20. PICK read : read = Decode(file)
  OBVIOUS
<1>21. read = [code |-> read.code, constants |-> read.constants, functions |-> read.functions,
               imports |-> read.imports, ancillary |-> read.ancillary, profile |-> read.profile]
  BY <1>20 DEF Decode
<1>22. Decode(file) = c
  BY <1>17, <1>18, <1>19, <1>20, <1>21
<1>. QED
  BY <1>2, <1>12, <1>22 DEF DecodeOf

(* What the compiler encodes is read back unchanged: a container whose fields  *)
(* fit their widths, encoded and decoded (container.py, Container.encode and   *)
(* Container.decode), is the container it was.                                 *)
THEOREM EncodedIsDecoded == LoaderSpec => []RoundTrip
<1>1. LoaderInv => RoundTrip
  <2>. SUFFICES ASSUME LoaderInv, stage = "encoded"
                PROVE  decoded = <<source>>
    BY DEF RoundTrip
  <2>1. source \in Sources /\ decoded = DecodeOf(image) /\ image = Encode(source)
    BY DEF LoaderInv, FileInv, StageInv
  <2>2. Encodable(source)
    BY <2>1, SourcesAssumption
  <2>3. DecodeOf(Encode(source)) = <<source>>
    BY <2>2, EncodedIsRead
  <2>. QED
    BY <2>1, <2>3
<1>. QED
  BY <1>1, LoaderInvHolds, PTL
=============================================================================
