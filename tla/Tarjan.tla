------------------------------- MODULE Tarjan -------------------------------
(***************************************************************************)
(* _tarjan of verify.py: the strongly connected components of the call     *)
(* graph, found with an explicit worklist instead of recursion.  One       *)
(* action per branch of the inner loop.                                    *)
(*                                                                         *)
(* Verify needs the components as sets; this module shows that the loop    *)
(* finds them, callees before callers.                                     *)
(***************************************************************************)
EXTENDS Integers, Sequences, SequencesExt, FiniteSetsExt, Functions

CONSTANT Count   (* functions in the container *)

ASSUME CountAssumption == Count \in Nat

Nodes == 0..Count - 1

VARIABLES
  edges,       (* the graph: the callees of each node                       *)
  root,        (* the node the outer loop is at                             *)
  work,        (* the explicit call stack: <<node, callees not yet tried>>  *)
  index_of,    (* the order nodes were first met in                         *)
  low,         (* the lowest index known to be reachable from a node        *)
  stack,       (* nodes met and not yet put in a component                  *)
  components   (* the result so far                                         *)

tarjanVars == <<edges, root, work, index_of, low, stack, components>>

Met(n) == n \in DOMAIN index_of

(* sorted() then pop() from the end: the largest callee left is next. *)
NextChild(pending) == Max(pending)

AllOf(pending) == pending
StillToTry(pending) == pending \ {NextChild(pending)}

LowOfAny(node, child) == Min({low[node], index_of[child]})

(* The edge to a node already met counts only while that node has no
   component. *)
LowVia(node, child) ==
  IF child \in Range(stack) THEN Min({low[node], index_of[child]}) ELSE low[node]

(* A node is met: numbered, and put on both stacks. *)
Meet(n, worklist) ==
  LET count == Cardinality(DOMAIN index_of)
      numbered(f) == [m \in DOMAIN f \cup {n} |-> IF m = n THEN count ELSE f[m]]
  IN  /\ index_of' = numbered(index_of)
      /\ low' = numbered(low)
      /\ stack' = Append(stack, n)
      /\ work' = Append(worklist, <<n, edges[n]>>)

(* The outer loop: start at a root not met yet, or step over it. *)
NextRoot ==
  /\ work = <<>>
  /\ root \in Nodes
  /\ IF Met(root)
     THEN root' = root + 1 /\ UNCHANGED <<work, index_of, low, stack>>
     ELSE Meet(root, <<>>) /\ UNCHANGED root
  /\ UNCHANGED <<edges, components>>

(* The inner loop, while the node on top has callees left. *)
TryChild ==
  /\ work # <<>>
  /\ Last(work)[2] # {}
  /\ LET node  == Last(work)[1]
         child == NextChild(Last(work)[2])
         rest  == Append(Front(work), <<node, StillToTry(Last(work)[2])>>)
     IN  IF ~Met(child) THEN Meet(child, rest)
         ELSE /\ low' = [low EXCEPT ![node] = LowVia(node, child)]
              /\ work' = rest
              /\ UNCHANGED <<index_of, stack>>
  /\ UNCHANGED <<edges, root, components>>

MembersAbove(place) == Range(SubSeq(stack, place + 1, Len(stack)))

(* What is popped down to a node, that node included. *)
MembersFrom(place) == Range(SubSeq(stack, place, Len(stack)))

(* The inner loop, when it has none left: tell the node below, and close a
   component if this node is the first of one. *)
Finish ==
  /\ work # <<>>
  /\ Last(work)[2] = {}
  /\ LET node  == Last(work)[1]
         below == Front(work)
         place == CHOOSE k \in DOMAIN stack : stack[k] = node
     IN  /\ work' = below
         /\ low' = IF below = <<>> THEN low
                   ELSE [low EXCEPT ![Last(below)[1]] = Min({@, low[node]})]
         /\ IF low[node] = index_of[node]
            THEN /\ components' = Append(components, MembersFrom(place))
                 /\ stack' = SubSeq(stack, 1, place - 1)
            ELSE UNCHANGED <<components, stack>>
  /\ UNCHANGED <<edges, root, index_of>>

TarjanInit ==
  /\ edges \in [Nodes -> SUBSET Nodes]
  /\ root = 0
  /\ work = <<>>
  /\ index_of = [n \in {} |-> 0]
  /\ low = [n \in {} |-> 0]
  /\ stack = <<>>
  /\ components = <<>>

TarjanNext == NextRoot \/ TryChild \/ Finish

TarjanSpec == TarjanInit /\ [][TarjanNext]_tarjanVars /\ WF_tarjanVars(TarjanNext)

Returned == root = Count /\ work = <<>>

-----------------------------------------------------------------------------
(* Properties. *)

(* Everything reachable from n, n included: in every set that holds n and is
   closed under edges. *)
Reachable(n) ==
  {m \in Nodes : \A S \in SUBSET Nodes :
     (n \in S /\ \A k \in S : edges[k] \subseteq S) => m \in S}

(* A component is closed only when it is exactly a strongly connected one, and
   after every component it can reach, at every moment of the search:
   component_depth counts on the order being acyclic. *)
ComponentsAreSCCs ==
  components # <<>> =>
    \A n \in Last(components) :
      /\ Last(components) = {m \in Reachable(n) : n \in Reachable(m)}
      /\ edges[n] \subseteq UNION Range(components)

(* When it returns, every function is in exactly one component. *)
ComponentsPartition ==
  Returned =>
    /\ UNION Range(components) = Nodes
    /\ stack = <<>>
    /\ \A j, k \in DOMAIN components :
         j # k => components[j] \cap components[k] = {}

(* The search returns. *)
TarjanReturns == <>Returned
=============================================================================
