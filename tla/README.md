# A formal model of MCUScript

MCUScript compiles a small typed language into a *container* of bytecode, checks
the container where the tools run, and executes it on a microcontroller that
checks almost nothing. This directory models that bargain in TLA+, from both
ends: what the verifier promises, what the interpreter relies on and whether the
two meet; and whether a script that is analysed, compiled, verified, loaded and
run does what the script says. TLC checks the modules on small instances; TLAPS
proves the central facts about the verifier, the loader and the interpreter for every
container and every file.

## 1. The system

| Part | Source | State it keeps | Operations | Modelled in |
|---|---|---|---|---|
| instruction table | `tools/.../opcodes.py`, `runtime/src/opcodes.h` | none | lookups | `Isa` |
| container tables | `tools/.../container.py` | the decoded records; immutable | decode, encode | `Image` (bytes), `Container` (records) |
| verifier | `tools/.../verify.py` | worklist, type stack per pc, high water, facts per function | `verify`, `analyze`, `stack_shapes` | `Verify` |
| component search | `verify.py` `_tarjan` | two explicit stacks, numbering, low links | one loop | `Tarjan` |
| arithmetic | `runtime/include/mcuscript_ops.h` | none | about fifty operations | `Ops` |
| interpreter | `runtime/src/vm.c` | pc, sp, base, frames, recursion counters, slot buffer, fault | `mcuscript_invoke` | `Vm` |
| loader | `runtime/src/load.c` | the program record | `mcuscript_load`, `mcuscript_find_entry` | `Loader` |
| C backend | `tools/.../cbackend.py` | static recursion counters in the C it emits | `generate` | `CBackend`, `Backends` |
| parsed script, profile, registry | `tools/.../ast.py`, `profile.py`, `registry.py` | none | lookups | `Script` |
| analysis | `tools/.../sema.py` | signatures, functions pending and being inferred, scopes, loop depth, types per node | `analyse` | `Sema` |
| code generator | `tools/.../codegen.py` | code buffer, slots, scopes, open loops, interned tables | `generate` | `Codegen` |
| the whole way of a script | `codegen.py` `compile_script`, then the device | which stage a script has reached | `analyse`, `generate`, `analyze`, `verify`, load, invoke | `Compiler` |
| the language | the tree, as the two backends must mean it | requests made, answers heard | a dialogue with the host | `Meaning` |
| assembler | `asm.py` | none | encoding an instruction | `Assembly` (the encoding; not the text) |
| lexer, parser | `lexer.py`, `parser.py` | a position in the text | one pass each | not modelled |
| CLI, world files, corpus, harness | `cli.py`, `world.py`, `corpus.py`, `harness.py` | none to speak of | text in, text out | not modelled |

How they interact: `analyse` leaves a type on every node of a tree and refuses
scripts; the code generator looks those types up, writes a container and calls `analyze`
for the numbers it declares. `verify` recomputes them and refuses a container
that declares anything else. An accepted container is put on a device, where
`mcuscript_load` parses it again, links its imports to the host's table, and
`mcuscript_invoke` runs an entry point to completion. The interpreter and the
host call each other synchronously (`load.h`, `store.h`, `call.h`); one slot
buffer, owned by the caller and never cleared as a whole, serves every
invocation. Nothing runs concurrently. What is hard is everything the
interpreter does *not* check: it indexes slots, code, tables and frames with
what the container says, because the verifier looked first.

The behaviours that are hard to test, and the property each is covered by, are
the `hazards` of `PROJECT.json`. In short:

* paths meet in the verifier's worklist in an order nobody wrote down
  (`WalkIsSound`, `WalkOwes`), and code may have two readings (`OneReading`);
* termination rests on natural loops taken one at a time (`CyclesAreGuarded`,
  `InvocationsEnd`);
* stack use is a sum over call-graph components with shared caps
  (`WithinDeclared`, `MemorySafe`), found by a hand-unrolled recursion (`Tarjan`);
* recursion counters are shared by mutually recursive functions
  (`CountersMatchFrames`), and in the compiled program they are static and a fault
  has to unwind them (`CountersBalanced`);
* every instruction has two lowerings, written apart, that must not be told apart
  (`SameState`, `SameRequests`, `SameOutcome`);
* slots are reused across invocations and after faults (`RunsAsTyped`);
* two programs, `container.py` and `load.c`, read one format and have to agree
  on every file, while the second reads it in place and must never look outside
  the buffer (`ReadersAgree`, `StaysInBuffer`, `LinkedAsDeclared`);
* C leaves shifts, division and truncation partly undefined (`MCOps`);
* types of recursive functions are found by unwinding out of the middle of an
  analysis and reading the function again (`GeneratedIsWellTyped`);
* a range counts with its last turn at the edge of the i32, jumps out of loops
  are patched after the fact, a match tests its arms in an order of its own, and
  a conversion rounds with a branch that an absent reading must not take
  (`RunsAsWritten`);
* what a container declares about stack, depth and recursion is measured before
  those fields exist (`DeclaredAsMeasured`).

## 2. The modules

```
Isa ── Container ─┬─ Verify ─┬─ VerifyProofs (+ Lemmas)
                  │          │    └─ DeviceProofs (+ Device) ── ValueProofs ── BoundProofs
                  │          │
Isa ── Ops ───────┼─ Vm ─────┴─ Device ─┬─ MCDevice (MCPrograms, MCFloat)
                  └─ CBackend ──────────┼─ Backends ─┬─ MCBackends
                                        │            └─ BackendsProofs (+ BoundProofs)
Isa ── Script ─┬─ Sema ─────────────────┤
               ├─ Codegen (+ Assembly) ─┼─ Compiler ── MCCompiler (MCFloat)
               └─ Meaning (+ Ops) ──────┘
Isa ── Image ── Loader ─┬─ MCLoader
                        └─ LoaderProofs (+ Lemmas)
Tarjan, Ops ── MCOps ── MCAlgorithms ── AlgorithmsProofs (+ Lemmas)
```

`Compiler` extends `Device` and `Script`, holds `Sema` and `Codegen` as instances, and
implements `Meaning` through `INSTANCE ... WITH`.

**Isa** is the table of `opcodes.py`: opcode bytes, groups, operand forms,
fixed signatures. **Container** holds the decoded records and `Decoded`, what
decoding guarantees before anyone else looks; function names are distinct there,
so what `analyze` keys by name is keyed by index here. The one variable `container` is
shared by the verifier and the interpreter and never changes. Function names
are numbers; import names and hashes are gone, as they are once linked.

**Verify** follows `verify()` from stage to stage. `stage` says where it is;
`index`, `work`, `at`, `stacks` and `shapes` are the locals of `_walk` and its
results. `Visit` is a turn of the inner loop at a pc not seen before, `Join` one
at a pc already typed; a straight-line successor is pushed last, so it is popped
next, which is the order `_walk` runs in. `EndWalk` is `_check_coverage` and
`_check_termination`, `CallGraph` is `_call_graph`, `CompareDeclared` the loop at
the end of `verify`. A refusal's name is the code's; where the code's choice
among several refusals depends on the order of a Python set or of the back edges,
the model may report any of them.

**Tarjan** is `_tarjan` alone, with `NextRoot`, `TryChild` and `Finish` for the
branches of its loops. `Verify` uses components as sets, and this module is why it may.

**Ops** is `mcuscript_ops.h` on words of `Bits32` and `Bits64` bits, wrapping and
truncating where the C does. IEEE-754 arithmetic belongs to the C compiler and is
a parameter; `MCFloat` supplies a four-bit float with infinities and a NaN.

**Vm** is `mcuscript_invoke`, with an action per instruction or family. The slot
buffer outlives an invocation: `Leave` fills it with `Leftover`, a value and a
validity no instruction produces, standing for whatever an earlier script left.
`load.h` and `call.h` take any answer of `Readings` with any validity. Because
the loop does not check bounds, every action requires `InTables` and `InBounds`,
and `Stray` is the step that leaves them: undefined behaviour, after which nothing
is known. `Default` is the `switch`'s last case. The signed overflow in
`LOOP.GUARD` is a choice between the two ways a compiler may take the comparison.

**Device** composes the two: verify, then load if accepted, then invoke any
entry point any number of times. `FrameInShape` (control and sizes) and
`FrameHoldsTypes` (values) are the two halves of the relation between an
interpreter frame and the verifier's typing.

**CBackend** is the program `cbackend.py` writes, as a C compiler makes a machine
of it. An element of `activations` is a C function being executed: its locals are
the pairs `l`, `m`, its operand positions the pairs `v`, `s`, and which position an
instruction means was settled by the depth in `shapes`, so there is no stack
pointer. `label` says whether the innermost function is at its prologue, in its
body or at `done:`, which every path out passes. `Prologue` counts the activation in
the static counter of its component, `BackInCaller` and `BackInWrapper` uncount it,
one C return at a time, whether `ok` is set or a fault is unwinding; nothing ever
resets `recursion`. `Reported` is the entry wrapper: on success it leaves `*fault` as
it was. The operators of `Ops` are shared with `Vm`, as `mcuscript_ops.h` is shared by
the two backends; everything around them is translated again from the generator.

**Backends** runs both on one container, as the differential test does, but an
instruction at a time: `Interpret` is a step of the interpreter, `Execute` the
statements of the same instruction in C, answered by the host what the interpreter was
answered, and `Settle` a prologue or a return, of which the interpreter has none.
`SameState` is a simulation relation and not a comparison of outputs: each live
frame agrees with its activation in function, instruction, locals and operands.

**Image** is the format in bytes: `Encode` is `Container.encode`, `Decode` and
`Decodes` are `Container.decode` and the conditions under which it does not raise.
The header is a record, because what it carries is only ever compared; that the
checksum matches is a truth value, false for a file with a flipped bit and open for
one that was cut. Sections are bytes, so that a count, a length or an offset read
at the wrong place is read wrong here too. A `u32` has `Words32` values: 65,536
in the runs, so its largest values are met by files of fifty bytes.

**Loader** is `mcuscript_load`, with an action per turn of each of its loops: the
header, the section walk, a count and its entries for each table, the names, the
component caps, the linking of each import. Like the code it keeps offsets into the
file and reads through them, and every read that the preceding check does not cover
is followed to see whether the buffer holds it (`Held`); if not, the load ends in
the stage `stray`. The section walk sums in a `size_t` of `SizeT` values, at least as many as
a `u32` has, and compares what the C compares. Before it, `Deliver` takes the encoded file to the device:
whole, cut anywhere, with any one byte changed, or replaced by a file with a
checksum of its own (`Written`). `NameHash` is a parameter because two names
with one hash are a case of their own. `decoded` is what `container.py` makes of the same
file, for the properties that compare the two readers. `Vm` and `Device` start from the records:
`ReadersAgree` is what entitles them to. (`Vm`'s `Load` keeps only the two
decisions that concern an accepted container: groups and build limits.)

**Script** is what parsing leaves and what the host declares: nodes are records with a
`kind`, and what `sema.py` keys by the identity of a node is keyed by the path
from the function's name down to it. Dimensions, units and the registry are
parameters; the two exact rationals of a unit are kept as fractions.

**Sema** is `_Analyser`. Each pass takes the analyser's state and returns it; an exception
is a signal in the state that every later pass leaves alone, up to the handler that
catches it. That matters for one exception: `_Unresolved` unwinds to the function whose
type was needed before it was known, in the middle of a scope and of a loop, and only what
the code puts back on the way is put back here. `Infer` is `infer`, with the
functions pending and the second pass that reads a body again once its type is known.

**Codegen** is `_Emitter` and `_Generator`: a node becomes the listing of its
instructions, branches are patched as the code patches them, imports, constants and
slots are interned in the order they are met. The first error stays: `refused` is a
diagnostic, `unforeseen` a `KeyError`, an `AssertionError`, or a diagnostic the source
says cannot happen. **Assembly** encodes an instruction, for it and for the containers the
other runs build.

**Meaning** is the language itself, with no container in sight: the tree evaluated on
the answers the host has given so far, until it needs another or ends. `Dialogue`
is the abstract specification: a script asks the host one thing after another, as
its meaning on the answers so far says, and ends as its meaning says. The meaning is
written from what the tree says in `ast.py` and what both backends do with it, including the
places where an i32 shows: a range of more turns than an i32 counts has
none, and one that ends at the largest i32 faults after its last. A loop variable has a scope
of its own, and the variable whose name it takes is there again afterwards. Where the text of
`spec/06-syntax.md` settles a reading and the generator has another, the meaning is the
specification's, and section 4 reports the difference.

**Compiler** is the whole way: `Analyse`, `Generate`, `Measure` (`analyze` walking a
container that does not declare anything yet), `Declare`, then the device's verifier
(`Check`), `Launch` and `Interpret`. The refinement maps what has passed between
interpreter and host (`heard`, `told`) and how the invocation ended (`Ended`) to the dialogue;
`Shown` is the value as the host sees it, so a validity counts and the payload of an
absent value does not. `RunsAsWritten` says that every behaviour of `CompilerSpec` is
a `Dialogue`: analysing, generating, measuring, verifying and interpreting between two requests
are stutters.

**MCLoader** builds two sources, the files written from them and nine host tables.
**MCPrograms** and **MCDevice** generate containers, **MCCompiler** a profile, a registry
and families of scripts, **MCAlgorithms** puts `Ops` and `Tarjan` in one run; **Lemmas**,
**VerifyProofs**, **DeviceProofs**, **ValueProofs**, **BoundProofs**, **BackendsProofs**,
**AlgorithmsProofs** and **LoaderProofs** hold the proofs.

Definitions that stand next to another one and change one thing in it
(`JoinAnyway` before `Join`, `OverCapAfter` before `OverCap`, …) are the mutants:
each is a plausible bug, and substituting it makes a named property fail.

## 3. What each run shows

| Run | Instance | Properties |
|---|---|---|
| `MCDeviceLoops` | four units of `loop.guard` on two counters, stores to them, conditional and plain jumps; every connection that jumps back, verified and executed | `CyclesAreGuarded`, `VerifierReturns`, `FalseMeansFault`, `InvocationsEnd` |
| `MCDeviceNarrow` | three units of push, pop, not, branches, and a constant whose bytes read as `ret`; every connection, jumps optionally one byte off, declared depth 1 or 2; an entry point and two functions, every call graph among them, every assignment of caps 0 and 2; programs of one instruction; entry points with as many locals as slots and one more; verified, and executed on a build with four groups, eight slots and two frames | `VerifyTypeOK`, `WalkIsSound`, `WalkOwes`, `OneReading`, `StaysInShape`, `RunsAsTyped`, `MemorySafe`, `WithinDeclared`, `CountersMatchFrames`, `FalseMeansFault` |
| `MCBackends` | one program per instruction, its operands read from the host, hand-written ones for the polymorphic instructions, loops of two units, recursions whose cap is reached: interpreted and compiled | `RunsAsTyped`, `HostAccessHonoured`, `CountersBalanced`, `SameState`, `SameOutcome`, `SameRequests`, `BothReturn` |
| `MCCompiler` | every operator on every two of twelve operands, conversions there and back for −9 to 9, matches of up to three arms in every order, matches on a bool and matches without a value, loops with every way out in either arm, loop variables that shadow, ranges at the ends of an i32, circles of one and two functions under limits above and below the depth they reach; every reading, every refusal of a call | `RunsAsWritten`, `GeneratedIsWellTyped`, `DeclaredAsMeasured` |
| `MCAlgorithms` | every pair of 4-bit words and every validity; every graph of four functions in which only the first and the last may call themselves | `DivisionIsTotal`, `ShiftsAreArithmetic`, `BitsAreTwosComplement`, `TruncationFits`, `ComponentsAreSCCs`, `ComponentsPartition`, `TarjanReturns` |
| `MCLoader` | two sources; each delivered whole, cut at every byte, with every byte changed, or rewritten with each of eight values at every byte, other header fields, added, missing and doubled sections, overstated sizes, parameters past the end of a section, imports last in a section whose size is overlong, skipped sections of the largest sizes, doubled names and imports, names that hold a zero; a `size_t` as wide as the `u32`; nine host tables, one of them with two names of one hash | `LoaderTypeOK`, `RoundTrip`, `DamageRefused`, `StaysInBuffer`, `ViewsHeld`, `ReadersAgree`, `LinkedAsDeclared`, `EntriesFound`, `LoaderReturns` |

The six other runs each end in a counterexample; see section 4.

`RunsAsWritten` is the whole compiler's: whatever the host answers and whichever call it
refuses, the device asks what the script means to ask, in that order and with those
values, and returns or faults as the script means to. It is broken by a wrong type, a
patched jump, an interned constant, an encoding, a verifier that lets code pass, an
operation of the interpreter. `GeneratedIsWellTyped` says what the generator may rely on:
a script the analysis accepts and the generator does not refuse by name
never meets a node without a type, and its container is well typed in every respect but for two
instructions, which section 4 reports: a shift by an i64 (`ShiftByI64`) and the state that a match
without a value pushes (`StateOfVoid`). Besides them the verifier objects to nothing but code that
control does not reach.

`StaysInShape` and `RunsAsTyped` are the device's: in every live frame, the pc is one
the verifier typed and the frame is as large as the locals and operands of that
typing, inside the slot buffer, and each slot is canonical for its type and was written
in this invocation, whatever the pool holds. They hold
across calls, recursion, faults and re-invocation. `MemorySafe` says the
interpreter never strays on a device that is large enough (`Fits`) when every
pool index is good (`PoolSound`). These two conditions are not conveniences: dropping
either makes the property fail, and each is a disagreement listed below.

`ReadersAgree` compares the two parsers on files nobody would write by hand: if the
tools decode a file, the device either reads the same names, offsets, types and
constants out of it, or refuses it for a reason that is about the device (profile,
groups, build limits, linking). Only a component index outside the table is left
by the decoder to the verifier and refused by the loader.

**Bounds.** Words are 4 and 8 bits, so every edge of signed arithmetic is met
(the smallest number, minus one, shift counts outside the word, sign extension).
Three units suffice for two paths to meet with different stacks and for a branch
into an operand; four units are the least for a loop entered past its guard and
for two loops through each other's headers. Scripts run
on words of 9 and 18 bits with 24 slots and six frames: 9 bits are the least in which a two-byte
constant has a value that one byte has not, and `Readings` of −256, 0, 3 and 255 put both
ends of the i32 into every operation and every end of a range. Three match arms are
the least for an absence arm before, between and after others; two functions
in a circle the least for one to be settled while the other is pending; limits 0, 2
and 4 stand for none, one that is reached and one that is not. Three functions give self-recursion, mutual
recursion in both directions, a component below another and an unreachable
function; a cap of 2 is the smallest that lets a function call itself at all.
Slot and frame limits are chosen so some programs fit and some do not. `Readings` holds the
smallest i32, minus one, zero and a positive number; for the two backends together the
smallest is left out, because a loop counter that starts there is a signed overflow in C and
each compiler may take it its own way. The loader's sources have
two constants of different width, two imports, two functions and names of
different lengths, so that an entry of one size follows one of another and padding
is both zero and not; one changed byte reaches every count, length, offset, flag
and type of the format, and the rewritten files reach the states two changes are needed for (a
size at the end of the `u32`, two equal imports). A `u32` is `Words32` = 65,536 values wide and `SizeT` is the same in
`MCLoader`, where the sum of the walk can be lost, and 2^20 in `MCLoaderStrays`, where it cannot;
a `size_t` narrower than a `u32`, into which a declared size would not fit to begin with, is
not modelled. `Compiled`, the scripts of `MCCompiler`, has all the families that module
defines but these, which are named there and which section 4 reports:

| Left out | What it holds | Fails on it alone |
|---|---|---|
| `CircleOfSums` | a circle whose second function calculates with what the first returns | `RefusedByName` |
| `RoundedRatios` | `round` and `trunc` of a ratio, which is held in f32 | `RefusedByName` |
| `OddDivisors` | `to_i32` by a third | `RefusedByName` |
| `ZeroResolutions` | `to_unit` in parts of zero | `RefusedByName` |
| `BoolsAgainst` | a match of a bool against a value that is not written out | `RefusedByName` |
| `OrderOfBools` | `<` and its like on bools | `RunsAsWritten` |
| `RelativeAssignments` | `+=` and `-=` of a scale on a quantity that is none | `RunsAsWritten` |
| `ElseFirst` | an else above another arm | `RunsAsWritten` |
| `BoolsUncovered` | a match on a bool with one value and no else | `RunsAsWritten` |
| `EarlyReturn` | an if outside a loop with an arm that does not fall through | `AnalysedVerifies` |

`MCAlgorithms` leaves out
self-calls of the two middle functions, which change nothing about the
components the search has open when it meets them. There is no other bound:
the state spaces are finite by themselves, because loops are guarded and recursion
is capped.

**Fairness.** `WF(VerifyNext)`: `verify` is one Python call that runs until it
returns or raises. `WF` of an interpreter step: `mcuscript_invoke` runs to
completion and never waits. `WF` of `Interpret`, `Execute` and `Settle`: so does the C program,
and `BothReturn` says that neither lags behind the other for good. `WF(Loading)`: `mcuscript_load` is one call as well, while a
file may never be delivered. `RunsAsWritten` is safety and needs none. Nothing is assumed of the host: it may never
invoke anything, and may answer anything. Deadlock is not checked in the runs, because a
verifier that has answered and a program that is refused really stop.

## 4. Disagreements found

Each is a run that TLC ends with a counterexample.

* `MCLoadedFits`: `mcuscript.h:56-57` says the loader computes what a container
  needs and refuses one that needs more; `spec/04-linking.md:359-361` that a
  device "must refuse" deeper call chains or wider stacks than it was built for. `load.c` steps over `max_stack` and
  `max_call_depth` and compares nothing with `MCUSCRIPT_MAX_SLOTS` or
  `MCUSCRIPT_MAX_CALL_DEPTH`.
* `MCLoaderStrays`: `load.c:20-23` keeps its bounds against the buffer because a
  parser that walks off the end of what it was handed is a defect whatever the
  container. `walk_sections` (`load.c:199`) pads a section's size in a `uint32_t`: a size among
  the three largest pads to zero, passes the check, and the table is then
  read with a length the buffer does not have. The next line sums the offset, the eight bytes in front and the padded
  size in a `size_t` and tests that the result is not *less* than the offset. Where a `size_t`
  has 32 bits that is not enough: a size that pads to 2^32−4 gives the offset plus
  four, and one that pads to 2^32−8 the offset itself. Such a section passes as well; a
  table in it is read with a length the buffer does not have, and a section to skip sends the walk on by
  four bytes, or by none, and then it goes round for ever (`Spinning`). `Lost` is these sizes, eleven in
  all, and only the three of the padding on a wider `size_t`; `StaysInBuffer`, `ViewsHeld` and `LoaderReturns`, which hold,
  except them and nothing else. `MCLoader` has a 32-bit `size_t` and reaches both wraps, `MCLoaderStrays`
  a wider one.
* `MCPoolIndicesInRange`: `spec/02-container.md:225-226` has every index into
  `CNST` in range. `_apply` looks up the entry of `const.i32` only; the index of
  `const.i64` and `const.f32` is not looked at.
* `MCAnalysedVerifies`: `codegen.py:1254` promises "a verified container for a script that
  `analyse` accepted", and `codegen.py:28-31` never "a container that the verifier
  then has to catch". `if_expr` emits the jump over the else arm whether or not the first arm
  falls through; for `if c { return 1 } else { x = 2 }` the verifier refuses it as
  `unreachable_code`. Two more kinds of script break the same promise with a `type_mismatch`, and are the exceptions
  `GeneratedIsWellTyped` names. `sema.py:808-817` wants whole numbers on both sides of a shift and does
  not compare their types, and `codegen.py:505-509` looks at the type of the result only, so `x << y` with an i64 `y` becomes
  `shl.i32` on an i32 and an i64. And a match that gives no value, with no arm for an absence, has
  `codegen.py:951` push a state of type void.
* `MCRefusedByName`: `codegen.py:28-31` says "never a traceback". When two functions call each other
  and the second calculates with what the first returns, no pass records the type of
  that calculation, because it unwinds to the second function, which is confirmed while the
  first is still pending; code generation ends in a `KeyError`.
* `MCMisread`: scripts that compile to something else than `spec/06-syntax.md` says they mean. TLC reports the shortest
  counterexample, the first of these; each of the other families ends the run in the same way when it is the only one.
  * `true < true` is true. Line 422 has six comparisons yield a bool; `binary_result` in `sema.py` lets bools be ordered and
    `bool_equality` in `codegen.py` lowers all but `!=` to an equality. (`Meaning` orders false below true.)
  * `x += 5%` adds 0.05 to a quantity that is no scale. Lines 984-1000 make `x + 5%` a relative change, which `binary` lowers;
    `assign` (`codegen.py:306-316`) goes to `arith` directly, under a comment that says `x += e` is `x = x + e`.
  * An arm below an `else` is tried before it. Line 487 has arms tried in order; `match_expr` leaves `else` for last wherever it
    stands (`codegen.py:955-976`).
  * A match on a bool with an arm for `true` only runs that arm for `false`. Lines 490-493 make the missing `else` an error;
    `sema.py:1204` asks for none when the subject is a bool, and the last arm is not tested.

Seen while modelling, and without a run of their own:

* `BothGroupsDeclared` in `Device` is false: `spec/03-instructions.md:57-62` requires both
  groups of a container that converts between `i64` and `f32`, and `_walk` checks the
  opcode's own group and not `op.needs`.
* `SameFault` in `Backends` is false: `cbackend.py:439-440` says the compiled entry point
  gives the embedder "the same three things `mcuscript_invoke` gives it". It assigns
  `*fault` only when it fails, where `vm.c:72` clears it first. `SameOutcome`, which
  holds, says this is the only difference.
* `round_integer` by an odd divisor has half of it rounded to a whole number and refused as
  one that cannot happen; `round` and `trunc` of a quantity held in `f32` are
  accepted and end in a `KeyError` (`codegen.py:761`); a resolution of zero in `to_unit` ends in a
  `ZeroDivisionError` (`codegen.py:800`), and a match of a bool against a value that is not written out in an
  `AssertionError` (`codegen.py:987`). `Codegen` has all of them as `unforeseen`.
* The patterns of a match on a cyclic quantity are compared plainly (`pattern` in `codegen.py`), where
  `spec/06-syntax.md`, §6.5.6, has an order of its own for such quantities. `Meaning` follows the code, and no checked
  script matches on one.
* `name_equals` (`load.c:117-123`) takes the length of the name it is asked for with `strlen`, while a name in a container may hold
  a zero, which `container.py` decodes: such a function is loaded and no call of `mcuscript_find_entry` finds it.
* Unwinding out of a loop's body leaves `loop_depth` and the names being counted as they
  were (`sema.py:449`), so a `break` outside a loop may be accepted afterwards.
* A range that ends at the largest i32 runs its turns and then faults with
  `iteration_limit`, because the variable is stepped before it is compared.

## 5. What is proved

`VerifyProofs` proves, for every set of containers and every set of groups:

* `VerifyIsTyped`: `VerifySpec => []VerifyTypeOK`;
* `WalkLosesNothing`: `VerifySpec => []WalkOwes`;
* `WalkSoundness`: `VerifySpec => []WalkIsSound`;
* `NoCycleEscapesItsGuard`: `VerifySpec => []CyclesAreGuarded`.

`WalkIsSound` speaks of finished walks only, so it is not inductive: nothing in
it says what an unfinished walk has to keep. `WalkOwes` does. An instruction
already typed has passed its checks, and each of its successors is *owed* the stack it
leaves: it already has exactly that stack, or waits on the worklist with it.
`Join` may drop an entry because the pc has that very stack; `Visit` types the pc
and adds what it owes (`FollowSuccessors`); when the worklist is empty every debt
is settled and the typing is closed, which is `EndWalkInv`. The inductive
invariant is `VerifyInv == VerifyTypeOK /\ WalkOwes /\ WalkIsSound`.
It needs that the effect of an instruction on a stack of value types is another one
(`EffectType`), which in turn needs what each table lookup guarantees
(`LookupsSucceed`), that operands are bytes inside the code (`OperandIsByte`) and that
the tiling of `CODE` keeps every function inside it (`RegionInCode`, by a
least-counterexample argument on the distance from the last record).

`CyclesAreGuarded` is about any set of instructions control can go round in,
`_check_termination` about the natural loop of one back edge (`CycleHasItsGuard`). The least
instruction of such a set has a branch back to it from inside the set, so it is a guard. Every other one
lies in the natural loop of some branch of the set back to it: of those that lay in none, one
would have a successor outside them, and would then be in the same natural loop as that
successor. That `NaturalLoop` is closed in this way is `LoopTaken`, from the lemmas on sets that grow
turn by turn (`GrowthEnds`: as many turns as there are elements are enough), which also give
what `Reached` computes.

`DeviceProofs` proves, for every set of containers, every build (groups, slots, call
depth) and whatever the host answers:

* `ControlStaysInShape`: `DeviceSpec => []StaysInShape`;
* `CountersAreFrames`: `DeviceSpec => []CountersMatchFrames`;
* `FailuresHaveFaults`: `DeviceSpec => FalseMeansFault`.

`StaysInShape` says what a frame looks like but not why it is so, and it says
nothing of a container that is still being verified. `DeviceInv` adds that: an
accepted container had all its functions walked and its code tiled
(`AcceptedInv`, kept by each stage of `verify()`), nothing runs before it was
accepted and found `Loadable`, the running frame is as large as the typing at its pc
(`RunningShape`), and each caller stands at a call of the frame above it, which begins where the
arguments lie (`Waits`). The proof has two layers. `FixedCounts` and `TableCounts` count
what the verifier says each instruction takes and gives, and `StepCases` shows that
each handler of the dispatch loop moves `sp` by that much and `pc` to a successor, enters
a callee, returns, or ends the invocation. `ContinuesInShape`, `EntersInShape` and
`ReturnsInShape` then do each of those once, from the certificate that `WalkIsSound`
gives: it is where what `verify.py` promises meets what `vm.c` does. A return needs
that the *callee's* return matches the *caller's* expectation (`ReturnMatches`).

`CountersInv` adds that the counters are functions of the frames: `Enters` adds one
member to the set of frames of the callee's component and `Returns` drops the last
one, so the count follows however components are entered, and `OverCap` keeps it
under the cap, which is a natural number because the last member of a component declares it
(`CapIsNatural`). `FailuresHaveFaults` needs `DeviceInv` for the last case of the
`switch`: the byte at a typed pc is of a group the build has (`TypedIsDispatched`).

`ValueProofs` proves, under the same constants:

* `ValuesStayTyped`: `DeviceSpec => []RunsAsTyped`;
* `HostIsAskedAsGranted`: `DeviceSpec => []HostAccessHonoured`.

`RunsAsTyped` speaks of the slots between two instructions, so it needs what the
operations give back. The module begins by stating that once: every operation of `mcuscript_ops.h`
returns a value of its result type, encoding and reading a slot meet, and a state is one
of three. `ValuesInv` adds three facts to `DeviceInv`: the operand stack of
the running frame holds values of the types the walk found, its locals those the
record declares (`SlotsTyped`); the same of every suspended caller *below the arguments it
gave away* (`CallersHold`), since those slots are the callee's locals until it
returns; and an answer of the host has the type of the import. An instruction writes only at or above the
place its operands lay, so what a caller holds is out of its reach (`Undisturbed`);
a call turns operands into locals and clears the rest, which is why leftovers of an
earlier invocation or of one that ended in a fault cannot be read; a return puts
the callee's result where the caller's typing expects it.

The rest of `VerifyProofs` is about what `verify.py` computes on a graph, without any device:

* `ReadOneWay`: `VerifySpec => []OneReading`.

The sweep that tiles `CODE` is followed from record to record, and two
instructions of a typing that overlap contradict the check of the coverage after the
walk. It also proves what the recursive functions of the graph analysis
compute, as far as the bounds need it: `Reached` is the least set closed under
calls (`ReachedIsClosure`), `WorstCase` satisfies its own recursion on every finite
graph (`WorstCaseSums`, through `RankInduction` and `Recursion` of `Lemmas`, which obtain
the function from approximations by rank, where the library's induction theorems are out
of reach), and along any chain of calls that enters each component no
oftener than it was charged for, the sum of the costs is bounded by the worst case of where
it starts (`ChainBound`).

`BoundProofs` brings the two together:

* `DeclaredBoundsHold`: `DeviceSpec => []WithinDeclared`;
* `MemoryIsSafe`: `DeviceSpec => []MemorySafe`.

The frames of an invocation are a chain in the call graph of the container
(`RunningChain`): each caller stands at a call of the next. The counters keep the frames of
a component within its cap (`RunningCounted`), and a component without recursion is entered
once, because a second frame of it would close a cycle. `ChainDepth` and `ChainSlots` apply
`ChainBound` with a cost of one frame and with the cost in slots of the widest member
of a component. That the numbers in the records are those sums is left by
the checks after the walk (`ChecksInv`), and that the outermost frame is an entry point
at slot 0 by `Invoke` (`EntryInv`); together with `DeviceInv` and `CountersInv` they are
`BoundInv`, which is inductive. `MemorySafe` is about a step: a call that is not
over its cap makes the chain one link longer, so it still fits (`EnteredRoom`), and what an instruction
touches lies inside its frame and inside the tables it indexes (`StaysInSlots`,
`StaysInTables`).

`BackendsProofs` is about the generated C beside the interpreter:

* `CountersStayBalanced`: `BackendsSpec => []CountersBalanced`.

The activations nest and exist just while the host's call lasts (`NestInv`), and each
capped counter is the number of activations of its component that have passed their
prologue (`CountedInv`), whichever label the innermost stands at. An activation that fails its
cap check has counted itself already and takes itself out again on `done`; nothing
resets a counter between invocations, so a leak would add up.

The same module proves what the two lowerings are for, "the promise ... that they
produce identical results" (`cbackend.py:6-7`):

* `StatesStayTheSame`: `BackendsSpec /\ []Determined => []SameState`;
* `OutcomesAreTheSame`: `BackendsSpec /\ []Determined => []SameOutcome`;
* `RequestsAreTheSame`: `BackendsSpec /\ []Determined => []SameRequests`.

`SameState` compares the two where both have come to an instruction, so it says nothing of the
steps between. `LockInv` does: while it is the C's turn the interpreter is *ahead* of
it by the one instruction the C stands at (`Ahead`), and while the C enters, returns or
unwinds, the interpreter already has what that will leave behind (`Between`). "Ahead" is
stated from the side of the C: `Faults`, `Changes`, `Following` and `Asks` say what its statement
will do with the variables it has, and `RunsWith` that the interpreter has done just that
to its slots. `InterpretAhead` shows, handler by handler, that
the interpreter gets ahead in this sense, and `ExecuteAhead` and `SettleAhead` that the C
catches up. The relation between the two is `Mirrors`: the slots from a frame's base to the
base of the frame above are the C variables of its activation, so a caller's arguments, which the
callee's locals share with it in the one and copy in the other, drop out. `LockInv` is
inductive only together with what was proved before: `BoundInv` (the operands and tables an
instruction names are there), `ValuesInv` (a slot read as a type and written back is
the slot, `WrittenBack`, which a C variable of that type presupposes), `NestInv`, and
`CountersInv` beside `CountedInv` (both lowerings count the same frames, so
both meet a recursion limit at the same call, `SameCaps`).

The hypothesis `Determined` names the two things the source leaves open, and is about running
containers only. One is that the container declares the groups of its conversions
(`GroupsDeclared`; section 4): without it the interpreter of a small build stops at an
instruction that the generated C has. The other is that no loop counter is decremented below the
least i32: both lowerings write the decrement in C, where that overflow is undefined,
and two compilers need not agree. The programs and readings of `MCBackends` meet both. An interpreter that left its own memory is compared with
nothing; `MemoryIsSafe` says which builds and containers never get there.

`AlgorithmsProofs` is about the algorithms the rest takes for granted, for words of every width
and graphs of every size:

* `DivisionAnswersEveryPair`: `AlgorithmsSpec => []DivisionIsTotal`;
* `ShiftsAnswerEveryPair`: `AlgorithmsSpec => []ShiftsAreArithmetic`;
* `BitsAnswerEveryPair`: `AlgorithmsSpec => []BitsAreTwosComplement`;
* `ComponentsAreTheCycles`: `TarjanSpec => []ComponentsAreSCCs`;
* `EveryFunctionHasOneComponent`: `TarjanSpec => []ComponentsPartition`.

The operations work on residues, so each proof first says which number of the word's range a residue
stands for (`SignedFits`, `FittingIsSigned`). Division rounds down in TLA+ and towards
zero in C (`QuotientTruncates`). A word is the sum of the powers of two at its
ones (`OnesSum`, from `NextBit`, one bit at a time), the sign is the highest of them
(`SignOfSum`), and sums over disjoint sets add up (`SumOfUnion`), which is what `and`, `or` and
`xor` are about.

`ComponentsAreSCCs` speaks of the last component closed, so for the search it takes an
invariant of what is still open, `SearchInv` (checked by TLC on every graph of three
functions before it was proved). A node on the worklist reaches all that was stacked since
(`ReachesUp`), and every node on the stack reaches one on the worklist (`ReachesBack`), hence
the node on top and all stacked since reach one another whether or not a component is closed there.
That none is missing is what `low` is for: it is the number of a node that can be reached and is still
stacked (`LowReached`), and what an edge into the stack tells has come down to the last
node of the worklist stacked before its source (`LowTold`). So where `low` is the node's own
number, no edge leaves what was stacked since but into what is closed (`ComponentFound`),
and no edge leaves that (`ClosedStays`). When the worklist is empty `ReachesBack` leaves the
stack empty, which is why every function has a component.

`LoaderProofs` is about `mcuscript_load`, for every file a writer or a transfer may deliver,
every host table and every build:

* `LoaderKeepsItsTables`: `LoaderSpec => []LoaderTypeOK`;
* `DamagedFilesAreRefused`: `LoaderSpec => []DamageRefused`;
* `LoaderStaysInBuffer`: `LoaderSpec => []StaysInBuffer`;
* `ProgramsPointIntoTheirFiles`: `LoaderSpec => []ViewsHeld`;
* `ReadersOfAFileAgree`: `LoaderSpec => []ReadersAgree`;
* `ImportsAreLinkedAsDeclared`: `LoaderSpec => []LinkedAsDeclared`;
* `EntryPointsAreFound`: `LoaderSpec => []EntriesFound`;
* `EncodedIsDecoded`: `LoaderSpec => []RoundTrip`.

`StaysInBuffer` says nothing of a load that has not strayed yet, and `ViewsHeld` nothing of one
that has not ended. `LoaderInv` (checked by TLC before it was proved) is what each turn of each
loop keeps. `FileInv`: the file is one (a header that is cut has no sections behind it), and damage
still shows, in the length the header declares or in the checksum. `SectionsInv`: a section
found begins in the file and, unless it is overlong, ends in it; past the walk all four were
found. The exception is the size that is lost in a `u32` or a `size_t` (section 4): `PaddedSize` says that there is no
other. `TablesInv`: the entry at each offset kept lies whole in its section (`EntryHeld`), and so
does each name. `TurnInv`: which table is being stepped through, that those before it are
complete, and where the cursor is. A read is covered because the check before it compares with the section's
length (`EntryRead`, `NameRead`), and a section not overlong lies in the file. Linking has
no checks of its own: it goes through the offsets again (`LinkRead`), so `EntryHeld`, of a table
read two loops ago, is what keeps it in the buffer. An overlong section can also be met by
the read of an offset that was kept from *it* while a later table is the current one, which is why
`StaysInBuffer` speaks of any section and not of the current one. The offsets
are kept in sixteen bits: `KeptWhole` shows that none loses a bit, which for constants holds on
every build (255 of 9 bytes) and for imports only under `LoaderAssumption`.

`ReadersOfAFileAgree` and the two after it are about `container.py` and `load.c` on one file, whose readings end at
different times: the decoder's is there when the loader starts, and what the loader has read
is to be what the decoder found *so far*. `ReadInv` (checked by TLC on `MCLoader` before it was
proved) says so for each stage, and is inductive beside `LoaderInv`. `WalkAgrees`: the walk stands
at one of the section starts of `Image` or past the last, and of each critical type it has found the
one section that begins behind it. Where the sections start is a set defined by recursion along the
file, so that they do not overlap and that each but the last is followed by another is shown
by induction on what is left of it (`StartsUnfold`, `StartsTile`). `TablesAgree`: the offset
kept of each entry is the cursor the decoder had there, by the same induction on the number
of entries (`StepsUnfold`, `CursorsRun`), and `EntryFollows` shows that both step by the same
size. `RefusalAgrees`: of a file that decodes, each check of the loader that fails
is one about the device, or the component index; the cases that fail for want of bytes
contradict what the decoder has checked, for which a read through the whole file and one
inside a section are the same byte (`PartRead`, `SectionsAgree`). The decoder looks a name up in the string
area and the loader in the file (`NameInArea`, `NamesAgree`), and `NamesInv` and `LinksInv` say that what
was kept of a name or of a link in an earlier turn is what its check saw. A loaded file has
distinct names and hashes because the decoder refuses doubled ones. That is why two imports cannot be
bound to one host entry, although the loader itself compares none of them
(`DecodedImports`), and why the first function of a name is the only one. The name that is asked for ends at its
first zero (`Terminated`), so `EntriesFound` compares with that.

`EncodedIsDecoded` is about the tools alone: what `Container.encode` writes, `Container.decode`
reads back. It is not inductive over steps but over the file. That a text, a record or a
section *lies* in the bytes from an offset on (`Lies`) is all the decoder needs, and `Joined`
tells where each part of a list of them begins. So each cursor of the decoder stands where the
encoder put that record (`CursorsRun` again), each name offset leads to the name, a name shared
by functions to its first copy, and the walk comes by the sections in the order they were written
(`EncodedWalks`). A function's name is looked up behind the records, so its offset has to fit
sixteen bits: 255 names of 255 bytes take 65,280 with their lengths. The sections a
container brings of its own are kept in order (`InOrder`), and `hnam` is there exactly if an
import has a name, which is why the container of a stripped file is not among `Sources`.

Assumed: `ContainersAssumption`, that what is handed over was decoded,
`ImplementedAssumption`, `VmAssumption`, `WordAssumption`, that there are two sizes of
word, the larger a multiple of the smaller (a wide value wraps to a narrow one by its low
bits), that powers of two are positive, and that each is twice the one before (the prover knows
nothing of exponents), `FloatAssumption`, that float operations
return floats, `FilesAssumption` and `HostsAssumption`, that files are bytes behind a header, in a buffer that ends at least
eight bytes before the last address a `size_t` has, and a
host table has the fields of `mcuscript_import`, its names being C strings, `Words32Assumption`,
`SizeAssumption`, that a `size_t` is at least as wide as a `u32`, `SourcesAssumption`, and
`LoaderAssumption`, that build limits are bytes, that a build takes a function, and that
the records of as many imports as it takes, each with as many parameters as it takes, end below
65536. The last holds by far for the defaults (32 imports of 4
parameters) and is not checked by the source: a build that sets both near 255 would lose the
upper bits of `import_offsets`. `SourcesAssumption` says of what is encoded what its types say,
what the encoder refuses otherwise (tables and texts of at most 255) and what the analysis has
refused before: two functions of one name, and two imports of one hash (`world.py:576-590` for
those of a world). Names are of one-byte characters. TLC evaluates them in every run that uses their module.

Only model-checked: liveness (`VerifierReturns`, `InvocationsEnd`,
`TarjanReturns`, `LoaderReturns`, `BothReturn`), which the prover does not handle under
fairness;
`RunsAsWritten`, whose two sides are recursive evaluations of a tree; the
float arithmetic, which is a parameter (`TruncationFits`, on the toy floats of `MCFloat`); and `GeneratedIsWellTyped` and
`DeclaredAsMeasured`, which are about the recursive passes of `Sema` and `Codegen`.

## 6. Not modelled, and why

Lexing, parsing and the text formats turn data into data in one
pass, without a state two actors could disagree about. The command line and
diagnostics are wording: an error is that there is one, and whether the code foresaw it.
Of the language, `Script` leaves out calendar literals (arithmetic on
a date with no state; the analysis replaces one by a number), strings,
which the analysis refuses wherever they stand, a file
that is a single expression, which the generator wraps in an entry point, and two declarations of one
name, refused before anything else is looked at. The CRC itself is a truth value: which
damage it misses is its own theory. The float arithmetic of the C compiler is a parameter.

`Codegen` was compared with the program: 285 scripts of the tools' own tests and of the families
above, given to both, become the same bytes, apart from constants that the narrow words and the
toy floats change.

## 7. Plan

1. Core: `Isa`, `Container`, `Verify`, `Ops`, `Vm`, `Device`, `Tarjan`, and the
   soundness of the walk. Done.
2. `Image` and `Loader`: the format in bytes, the two programs that read it, and
   linking. Done.
3. `CBackend` and `Backends`: the two lowerings in lockstep. Done.
4. `Script`, `Sema`, `Codegen`: a script analysed and lowered. Done.
5. `Meaning` and `Compiler`: the language as an abstract specification, and compiling,
   verifying, loading and interpreting shown to implement it. Done. The compiled C
   implements it through `Backends`, which holds it in step with the interpreter; a
   refinement of its own is open.
6. Proofs: the soundness of the walk, that the interpreter stays in the shape the walk
   found, that the recursion counters match the frames, that failures have a
   fault, that slots hold values of the types the walk found, that the host is
   asked what the records grant, one reading of the code, the declared bounds, memory
   safety, that the counters of the C are balanced, the two backends in lockstep, the
   algorithms, that the loader stays in its buffer, that the two readers of a file
   agree, and that what is encoded is decoded unchanged. Done.
