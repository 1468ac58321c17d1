------------------------------ MODULE Compiler ------------------------------
(***************************************************************************)
(* The whole way of a script: analysed, generated, verified and declared   *)
(* by the producer (codegen.py, compile_script), then verified again,      *)
(* loaded and run by a device.  The containers of module Device are here   *)
(* the ones the code generator makes.                                      *)
(***************************************************************************)
EXTENDS Device, Script

CONSTANTS
  Scripts,     (* the scripts that may be compiled                          *)
  BitsShort,   (* the width of a two-byte immediate                         *)
  F32Of(_)     (* the bits a rational rounds to                             *)

VARIABLES
  script,      (* what parsing left                                         *)
  phase,       (* how far the producer is                                   *)
  analysis,    (* what sema.analyse returned                                *)
  links,       (* the host names of the imports, and the circles of calls   *)
  entry,       (* the entry point invoked, 0 before                         *)
  heard, told  (* the dialogue with the host so far                         *)

Analyser  == INSTANCE Sema
Generator == INSTANCE Codegen

compilerVars == <<deviceVars, script, phase, analysis, links, entry, heard, told>>
dialogue == <<entry, heard, told>>

-----------------------------------------------------------------------------
(* The producer. *)

(* verify.py starts on a container. *)
StartOn(c) ==
  /\ container' = c
  /\ stage' = "groups"
  /\ verdict' = "pending"
  /\ index' = 0
  /\ work' = <<>>
  /\ at' = [p \in {} |-> <<>>]
  /\ shapes' = [i \in Functions(c) |-> [p \in {} |-> <<>>]]
  /\ stacks' = [i \in Functions(c) |-> 0]

Analyse ==
  /\ phase = "parsed"
  /\ analysis' = Restrict(Analyser!Analyse(script), {"signal", "types", "values", "sigs", "entries"})
  /\ phase' = IF analysis'.signal = "" THEN "analysed" ELSE "rejected"
  /\ UNCHANGED <<deviceVars, script, links, dialogue>>

Generate ==
  /\ phase = "analysed"
  /\ LET g == Generator!Generate(script, analysis)
     IN  IF g.error = ""
         THEN /\ phase' = "generated"
              /\ links' = [names |-> g.names, circles |-> g.circles]
              /\ StartOn(g.container)
         ELSE /\ phase' = g.error
              /\ UNCHANGED <<verifyVars, links>>
  /\ UNCHANGED <<vmVars, script, analysis, dialogue>>

(* verify.analyze: everything but the comparison with what is declared. *)
Measure ==
  /\ phase = "generated"
  /\ stage # "declared"
  /\ VerifyNext
  /\ UNCHANGED <<vmVars, script, phase, analysis, links, dialogue>>

(* Mutant: the function itself counts among the calls below it. *)
DeclareOwnFrame ==
  /\ phase = "generated"
  /\ stage = "declared"
  /\ LET depth == CallDepthNeeded(container)
         declared(i) == [Fn(container, i) EXCEPT
                           !.max_stack = stacks[i], !.max_call_depth = depth[i],
                           !.component = Min(Component(Calls(container), i))]
     IN  StartOn([container EXCEPT !.functions = [n \in DOMAIN @ |-> declared(n - 1)]])
  /\ phase' = "compiled"
  /\ UNCHANGED <<vmVars, script, analysis, links, dialogue>>

(* What the verifier measured is what the container declares. *)
Declare ==
  /\ phase = "generated"
  /\ stage = "declared"
  /\ LET depth == CallDepthNeeded(container)
         declared(i) == [Fn(container, i) EXCEPT
                           !.max_stack = stacks[i], !.max_call_depth = depth[i] - 1,
                           !.component = Min(Component(Calls(container), i))]
     IN  StartOn([container EXCEPT !.functions = [n \in DOMAIN @ |-> declared(n - 1)]])
  /\ phase' = "compiled"
  /\ UNCHANGED <<vmVars, script, analysis, links, dialogue>>

-----------------------------------------------------------------------------
(* The device. *)
Check ==
  /\ phase = "compiled"
  /\ Verifying
  /\ UNCHANGED <<script, phase, analysis, links, dialogue>>

Launch ==
  /\ verdict = "accepted" /\ phase = "compiled"
  /\ \/ Load /\ entry' = entry
     \/ \E i \in Functions(container) : entry = 0 /\ Invoke(i) /\ entry' = i + 1
  /\ UNCHANGED <<verifyVars, script, phase, analysis, links, heard, told>>

(* A value as the host has it, a bool being one. *)
Payload(type, as) == IF type = BOOL THEN as # 0 ELSE as
Shown(type, v) ==
  [validity |-> v.validity,
   payload |-> IF v.validity = VALID THEN {Payload(type, v.as)} ELSE {}]

Asked ==
  LET imp  == At(container.imports, asked'[2])
      name == At(links.names, asked'[2])
  IN  CASE asked'[1] = "read"  -> <<"read", name>>
        [] asked'[1] = "write" -> <<"write", name, Shown(imp.type, asked'[3])>>
        [] asked'[1] = "call"  ->
             <<"call", name, [p \in DOMAIN asked'[3] |-> Shown(imp.param_types[p], asked'[3][p])]>>

(* What it answered: the value now on the stack; nothing to a write. *)
Answer ==
  IF Name = "store.h" \/ Imp.type = VOID THEN <<0, VALID>>
  ELSE LET v == SlotToValue(Imp.type, values'[sp' - 1], states'[sp' - 1])
       IN  <<Payload(Imp.type, v.as), v.validity>>

Interpret ==
  /\ verdict = "accepted" /\ phase = "compiled"
  /\ Step
  /\ IF InCode /\ Name \in {"load.h", "store.h", "call.h"} /\ status' # "stray"
     THEN /\ told' = Append(told, Asked)
          /\ heard' = IF status' = "running" THEN Append(heard, Answer) ELSE heard
     ELSE UNCHANGED <<told, heard>>
  /\ UNCHANGED <<verifyVars, script, phase, analysis, links, entry>>

-----------------------------------------------------------------------------
CompilerInit ==
  /\ DeviceInit
  /\ script \in Scripts
  /\ phase = "parsed"
  /\ analysis = <<>> /\ links = <<>>
  /\ entry = 0 /\ heard = <<>> /\ told = <<>>

Producing == Analyse \/ Generate \/ Measure \/ Declare
CompilerNext == Producing \/ Check \/ Launch \/ Interpret

CompilerSpec == CompilerInit /\ [][CompilerNext]_compilerVars

-----------------------------------------------------------------------------
(* Properties. *)

(* What runs: the analysed script, from the entry point invoked. *)
Invoked ==
  [script |-> script, entry |-> entry, types |-> analysis.types, values |-> analysis.values,
   entries |-> analysis.entries, circles |-> links.circles]

(* How it ended: the value the host sees, the fault, or astray. *)
Ended ==
  CASE entry = 0 \/ status = "running" -> <<>>
    [] entry # 0 /\ status = "stray" -> <<"stray">>
    [] entry # 0 /\ status = "idle" /\ ~returned -> <<fault>>
    [] entry # 0 /\ status = "idle" /\ returned ->
         <<"returned", IF result = <<>> THEN <<>> ELSE Shown(Fn(container, entry - 1).return_type, result)>>

Written == INSTANCE Meaning WITH meant <- Invoked, outcome <- Ended

(* Compiling, verifying, loading and interpreting implement the language: the
   device asks the host what the script means to ask, in that order and with
   those values, and returns or faults as the script means to, whatever the
   host answers and whichever call it refuses (codegen.py and vm.c against the
   meaning of the tree). *)
RunsAsWritten == Written!Dialogue

(* codegen.py, at its head: what the generator refuses it refuses by name and
   with a span, "never a traceback". *)
RefusedByName == phase # "unforeseen"

(* What the verifier refused: the instruction and the types it found. *)
Refused == Last(work)
ShiftByI64 ==
  NameAt(container, Refused[1]) \in {"shl.i32", "shr.i32"} /\ Refused[2] # <<>> /\ Last(Refused[2]) = I64
StateOfVoid ==
  NameAt(container, Refused[1]) \in ConstState /\ OperandAt(container, Refused[1]) = VOID

(* What the analysis accepted and the generator did not refuse by name gives a
   container the verifier finds well typed in every respect, but for two
   instructions: a shift by an i64, which sema.py allows and there is no
   instruction for, and the state a match without a value gives where no arm
   is for it.  Besides them it objects at most to code nothing reaches, after
   a return, a break or a continue (sema.py's types are the ones codegen.py's
   instructions have). *)
GeneratedIsWellTyped ==
  /\ RefusedByName
  /\ \/ verdict \in {"pending", "accepted", "unreachable_code"}
     \/ verdict = "type_mismatch" /\ (ShiftByI64 \/ StateOfVoid)

(* The device's verifier, which compares every declared number, accepts a
   container declaring what the producer's measured (codegen.py,
   _Generator.run). *)
DeclaredAsMeasured ==
  phase = "compiled" /\ stage = "done" => verdict = "accepted"

(* codegen.py, generate: "A verified container for a script that `analyse`
   accepted." *)
AnalysedVerifies ==
  RefusedByName /\ verdict \in {"pending", "accepted"}
=============================================================================
