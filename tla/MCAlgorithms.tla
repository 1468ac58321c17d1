---------------------------- MODULE MCAlgorithms ----------------------------
(***************************************************************************)
(* The algorithms the rest takes for granted, one instance at a time: the  *)
(* operations of Ops on every pair of words of Bits32 bits, and the search *)
(* of Tarjan on every call graph of Count functions in which only the      *)
(* first and the last may call themselves.                                 *)
(***************************************************************************)
EXTENDS MCOps, Tarjan

algorithmVars == <<left, right, known, tarjanVars>>

AlgorithmsInit ==
  /\ OpsInit
  /\ TarjanInit
  /\ \A n \in 1..Count - 2 : n \notin edges[n]
  /\ \/ left = 0 /\ right = 0 /\ known = VALID
     \/ \A n \in Nodes : edges[n] = {}

AlgorithmsNext == TarjanNext /\ UNCHANGED <<left, right, known>>

AlgorithmsSpec ==
  AlgorithmsInit /\ [][AlgorithmsNext]_algorithmVars /\ WF_algorithmVars(AlgorithmsNext)
=============================================================================
