------------------------------ MODULE MCLoader ------------------------------
(***************************************************************************)
(* Small containers, every file one byte away from one of them, files that *)
(* stop early, and device tables that match them or do not.                *)
(***************************************************************************)
EXTENDS Loader

(* Names of one letter, and one longer name with the hash of another. *)
ToyHash(name) == IF name = <<>> THEN 0 ELSE name[1] * 257

A == <<97>>
B == <<98>>
E == <<101>>
F == <<102>>
Ex == <<101, 120>>

Record(name, start, invocable, cap, component, params, locals) ==
  [name |-> name, code_offset |-> start, invocable |-> invocable,
   return_type |-> VOID, max_stack |-> 1, max_call_depth |-> 0,
   recursion_cap |-> cap, component |-> component, param_count |-> params,
   local_types |-> locals]

Reading(name, access) ==
  [name |-> name, kind |-> Entity, access |-> access, type |-> I32,
   dimension |-> 258, param_types |-> <<>>]

Action(name, types) ==
  [name |-> name, kind |-> HostFunction, access |-> 0, type |-> VOID,
   dimension |-> 0, param_types |-> types]

Ret == CHOOSE byte \in Byte : Mnemonic(byte) = "ret"

DeviceProfile == <<1, 1>>

(* Nothing but an entry point. *)
Least ==
  [code |-> <<Ret>>, constants |-> <<>>,
   functions |-> <<Record(A, 0, TRUE, 0, 0, 0, <<>>)>>, imports |-> <<>>,
   ancillary |-> <<>>, profile |-> Profile]

(* Some of everything. *)
Full ==
  [code |-> <<Ret, Ret>>,
   constants |-> <<[type |-> I64, bytes |-> <<1, 0, 0, 0, 0, 0, 0, 128>>],
                   [type |-> I32, bytes |-> <<255, 0, 1, 0>>]>>,
   functions |-> <<Record(A, 0, TRUE, 0, 0, 0, <<I32>>),
                   Record(B, 1, FALSE, 2, 1, 1, <<I64, BOOL>>)>>,
   imports |-> <<Reading(E, 1), Action(F, <<I32, BOOL>>)>>,
   ancillary |-> <<[type |-> <<110, 111, 116, 101>>, data |-> <<7>>]>>,
   profile |-> Profile]

SmallAndFull == {Least, Full}

-----------------------------------------------------------------------------
(* A file with another body, its length and checksum its own. *)
WithBody(file, body) ==
  [file EXCEPT !.body = body, !.total_length = HeaderSize + Len(body)]

OneByteOff(file) ==
  {[file EXCEPT !.body[at] = byte] :
     at \in DOMAIN file.body, byte \in {0, 1, 2, 3, 4, 5, 120, 255}}

StoppedEarly(file) ==
  {WithBody(file, SubSeq(file.body, 1, n)) : n \in 0..Len(file.body) - 1}

OtherHeaders(file) ==
  {[file EXCEPT !.magic = FALSE], [file EXCEPT !.format_version = 2],
   [file EXCEPT !.format_version = 0], [file EXCEPT !.flags = 1],
   [file EXCEPT !.profile = <<1, 2>>], [file EXCEPT !.required_groups = {"core", "bits"}]}

(* A fifth section: one more of a kind there is, one nobody knows, one to
   skip. *)
OneSectionMore(file) ==
  {WithBody(file, file.body \o PackSection(type, <<0>>)) :
     type \in {CODE, HOST, hnam, <<88, 65, 65, 65>>, <<120, 65, 65, 65>>}}

(* The last critical section with a size near the largest there is, and the
   data that a walk which comes back to it takes for more sections: none, no
   import, and one that is not there. *)
WithImports(c, size, data) ==
  LET whole == Encode([c EXCEPT !.imports = <<>>, !.ancillary = <<>>])
      kept  == SubSeq(whole.body, 1, Len(whole.body) - 8)
  IN  WithBody(whole, kept \o Bytes32(size) \o data)

Overstated(c) ==
  {WithImports(c, size, data) :
     size \in {Words32 - 1, Words32 - 3, Words32 - 4, Words32 - 7, Words32 - 8, 5},
     data \in {<<>>, <<0, 0, 0, 0>>, <<1, 0, 0, 0, 0, 0, 0, 0>>}}

(* A section to skip with such a size. *)
Skipped(file) ==
  {WithBody(file, file.body \o <<120, 65, 65, 65>> \o Bytes32(size)) :
     size \in {Words32 - 1, Words32 - 4, Words32 - 8, Words32 - 12}}

HeadOf(imp, parameters) ==
  Bytes32(NameHash(imp.name)) \o <<imp.kind, imp.access, imp.type>>
    \o Bytes16(imp.dimension) \o <<parameters>>

(* An entity with parameters past the end of its section. *)
Unmeasured(c) ==
  {WithImports(c, 11, <<1>> \o HeadOf(Reading(E, 1), 3) \o <<0>>)}

(* A size whose padding is lost, before two imports that a walk takes for two
   sections to skip, the parameters of the second past the end of the file. *)
ImportsLast(c) ==
  {WithImports(c, Words32 - 1,
     <<2>> \o HeadOf(Reading(E, 1), 250) \o [p \in 1..250 |-> 0]
       \o HeadOf(Action(F, <<I32, BOOL>>), 2) \o <<I32>>)}

(* Imports of one hash, and functions of one name. *)
Doubled(c) ==
  {Encode([c EXCEPT !.imports = <<Reading(E, 1), Reading(Ex, 2)>>]),
   Encode([c EXCEPT !.functions = <<Record(A, 0, TRUE, 0, 0, 0, <<>>),
                                    Record(A, 0, TRUE, 0, 0, 0, <<>>)>>])}

OtherFiles(c) ==
  OneByteOff(Encode(c)) \cup StoppedEarly(Encode(c)) \cup OtherHeaders(Encode(c))
    \cup OneSectionMore(Encode(c)) \cup Overstated(c) \cup Doubled(c)
    \cup Skipped(Encode(c)) \cup Unmeasured(c) \cup ImportsLast(c)

-----------------------------------------------------------------------------
(* Devices: one that has what Full wants and more, in another order, and ones
   that differ from it in one respect. *)
Matching == <<Action(F, <<I32, BOOL>>), Reading(E, 3)>>

Devices ==
  {Matching, <<>>, <<Reading(E, 2), Action(F, <<I32, BOOL>>)>>,
   <<Action(E, <<>>), Action(F, <<I32, BOOL>>)>>,
   <<[Reading(E, 3) EXCEPT !.type = BOOL]>>, <<[Reading(E, 3) EXCEPT !.dimension = 0]>>,
   <<Reading(E, 1), Action(F, <<I32>>)>>, <<Reading(E, 1), Action(F, <<I32, I64>>)>>,
   <<Reading(Ex, 1), Reading(E, 3), Action(F, <<I32, BOOL>>)>>}
=============================================================================
