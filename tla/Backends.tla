------------------------------ MODULE Backends ------------------------------
(***************************************************************************)
(* "Every program has two lowerings ... and the promise is that they       *)
(* produce identical results" (cbackend.py).  The interpreter and the      *)
(* generated C run the same verified container on the same host, an        *)
(* instruction at a time: the interpreter goes first, and the C program is *)
(* answered what the interpreter was answered.                             *)
(***************************************************************************)
EXTENDS Device, CBackend

VARIABLES
  turn,    (* "interpreter"; "c" while the C has the same instruction to    *)
           (* execute; "convention" while it calls, returns or unwinds      *)
  answer   (* what the host answered the interpreter, if it was asked       *)

backendsVars == <<deviceVars, cVars, turn, answer>>

NoAnswer == [accepted |-> FALSE, value |-> <<>>]

(* What the host just put into the interpreter's slot. *)
Answered ==
  IF Name \notin {"load.h", "call.h"} \/ status' # "running" THEN NoAnswer
  ELSE [accepted |-> TRUE,
        value |-> IF Imp.type = VOID THEN <<>>
                  ELSE SlotToValue(Imp.type, values'[sp' - 1], states'[sp' - 1])]

(* The C has come to its next instruction, or back to the host. *)
Settled == label \in {"body", "idle"}

CGoesOn == turn' = IF Settled' THEN "interpreter" ELSE "convention"

Prepare ==
  /\ Verifying \/ (verdict = "accepted" /\ Load /\ UNCHANGED verifyVars)
  /\ UNCHANGED <<cVars, turn, answer>>

InvokeBoth ==
  /\ verdict = "accepted"
  /\ turn = "interpreter"
  /\ \E entry \in Functions(container) : Invoke(entry) /\ CallEntry(entry)
  /\ turn' = "convention"
  /\ UNCHANGED <<verifyVars, answer>>

Interpret ==
  /\ turn = "interpreter"
  /\ Step
  /\ answer' = Answered
  /\ turn' = "c"
  /\ UNCHANGED <<verifyVars, cVars>>

Execute ==
  /\ turn = "c"
  /\ Body(answer)
  /\ CGoesOn
  /\ UNCHANGED <<deviceVars, answer>>

Settle ==
  /\ turn = "convention"
  /\ Convention
  /\ CGoesOn
  /\ UNCHANGED <<deviceVars, answer>>

BackendsInit == DeviceInit /\ CInit /\ turn = "interpreter" /\ answer = NoAnswer

BackendsNext == Prepare \/ InvokeBoth \/ Interpret \/ Execute \/ Settle

(* An invocation runs to completion in both; when the host invokes is up to
   the host. *)
BackendsSpec ==
  /\ BackendsInit
  /\ [][BackendsNext]_backendsVars
  /\ WF_backendsVars(Interpret \/ Execute \/ Settle)

-----------------------------------------------------------------------------
(* Properties. *)

InStep == turn = "interpreter" /\ verdict = "accepted" /\ status \in {"idle", "running"}

(* The slot of the interpreter is what the two C variables hold. *)
Same(slot, pair) == values[slot] = pair.value /\ states[slot] = pair.state

(* Between two instructions both are in the same functions at the same
   instructions, and every local and every operand in use has the same value
   and the same validity, in every frame; a caller's arguments are the
   callee's in the one and copies in the other. *)
SameState ==
  InStep /\ status = "running" =>
    /\ label = "body" /\ Len(activations) = Len(Live)
    /\ \A n \in DOMAIN Live :
         LET live   == Live[n]
             frame  == activations[n]
             locals == Len(Fn(container, live.fn).local_types)
             given  == IF n = Len(Live) THEN 0 ELSE Fn(container, Live[n + 1].fn).param_count
         IN  /\ frame.function = live.fn /\ frame.pc = live.pc
             /\ \A l \in 0..locals - 1 : Same(live.base + l, frame.local[l])
             /\ \A k \in 0..Len(shapes[live.fn][live.pc]) - given - 1 :
                  Same(live.base + locals + k, frame.slot[k])

(* An invocation ends in both or in neither, the same way: with the same
   returned flag, the same result, and the same fault if there was one. *)
SameOutcome ==
  InStep /\ status = "idle" =>
    /\ label = "idle"
    /\ reported.returned = returned
    /\ reported.result = result
    /\ ~returned => reported.fault = fault

(* What the embedder finds in *fault is the same, after a success too: "the
   same three things mcuscript_invoke gives it" (cbackend.py, _entry_wrapper). *)
SameFault == InStep /\ status = "idle" => reported.fault = fault

(* A call of the C ends, its loops by their guards and its faults by unwinding
   every activation; and it never lags behind the interpreter for good. *)
BothReturn == (label # "idle") ~> (label = "idle" /\ status = "idle")

(* The host is asked the same things, with the same arguments. *)
SameRequests == InStep => requested = asked
=============================================================================
