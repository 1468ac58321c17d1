----------------------------- MODULE MCBackends -----------------------------
(* The programs of MCDevice run by both backends. *)
EXTENDS Backends, MCDevice

(* No reading is the smallest i32: what a counter that starts there becomes
   is up to the compiler. *)
OtherReadings == {-1, 0, 3}

(* Call graphs with caps that can be reached: recursion of a function into
   itself and of two into each other, from one call and from two. *)
Recursions ==
  {Graph(<<1, other>>, f, g, <<0, IF f = 1 \/ f = 2 THEN 2 ELSE 0, IF g \in {1, 2} THEN 2 ELSE 0>>) :
     other \in {2, 3}, f \in {1, 2, 3}, g \in {1, 2, 3}}

SomePrograms == Operations \cup Others \cup Counted \cup Recursions \cup Loops(2)
=============================================================================
