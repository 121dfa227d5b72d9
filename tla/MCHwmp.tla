------------------------------- MODULE MCHwmp -------------------------------
(* Hwmp on small meshes: a row, where nodes ask for one that is gone, and  *)
(* a line of four.                                                         *)
EXTENDS Hwmp

CONSTANTS a, b, c, d, x

Line == [n \in Node |-> CASE n = a -> {b} [] n = b -> {a, c} [] n = c -> {b, d} [] n = d -> {c}]

Row == [n \in Node |-> CASE n \in {a, c} -> {b} [] n = b -> {a, c} [] OTHER -> {}]

\* Neighbours go or frames are lost, not both, and six things in all are asked, break or lapse.
OneFault ==
  /\ spent.breaks = 0 \/ spent.losses = 0
  /\ spent.asks + spent.breaks + spent.lapses <= 5

TwoAsk  == {<<a, x>>, <<b, x>>}
AsksTwo == {<<a, c>>, <<a, d>>}
=============================================================================
